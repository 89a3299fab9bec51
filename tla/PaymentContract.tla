--------------------------- MODULE PaymentContract ---------------------------
(***************************************************************************)
(* What the payment service promises, whatever fails: only requests that   *)
(* were accepted are paid; a payment id is paid once as long as its        *)
(* protection is intact; a success callback names a transaction that is on *)
(* the ledger and was made for that very request; nothing is taken back.   *)
(***************************************************************************)
EXTENDS Naturals, Sequences

CONSTANTS
    Jobs, Ids, PaymentId,
    Attempts    \* the deliveries of a job, numbered

VARIABLES
    accepted,   \* the requests that were answered 201
    ledger,     \* which delivery of which request each transaction paid
    callbacks,  \* what the requesters are told
    exposed     \* ids whose protection is broken

cvars == <<accepted, ledger, callbacks, exposed>>

Unpaid(i) == \A n \in DOMAIN ledger : PaymentId[ledger[n].job] # i

Init ==
    /\ accepted = {}
    /\ ledger = <<>>
    /\ callbacks = {}
    /\ exposed = {}

Accept(j) ==
    /\ accepted' = accepted \cup {j}
    /\ UNCHANGED <<ledger, callbacks, exposed>>

Pay(j, a) ==
    /\ j \in accepted
    /\ Unpaid(PaymentId[j]) \/ PaymentId[j] \in exposed
    /\ ledger' = Append(ledger, [job |-> j, attempt |-> a])
    /\ UNCHANGED <<accepted, callbacks, exposed>>

ReportSuccess(n) ==
    /\ callbacks' = callbacks \cup
         {[job |-> ledger[n].job, attempt |-> ledger[n].attempt, state |-> "success", tx |-> n]}
    /\ UNCHANGED <<accepted, ledger, exposed>>

ReportFailure(j, a) ==
    /\ j \in accepted
    /\ callbacks' = callbacks \cup {[job |-> j, attempt |-> a, state |-> "fail", tx |-> 0]}
    /\ UNCHANGED <<accepted, ledger, exposed>>

Expose(i) ==
    /\ exposed' = exposed \cup {i}
    /\ UNCHANGED <<accepted, ledger, callbacks>>

Next ==
    \/ \E j \in Jobs : Accept(j)
    \/ \E j \in Jobs, a \in Attempts : Pay(j, a) \/ ReportFailure(j, a)
    \/ \E n \in DOMAIN ledger : ReportSuccess(n)
    \/ \E i \in Ids : Expose(i)

Spec == Init /\ [][Next]_cvars
=============================================================================
