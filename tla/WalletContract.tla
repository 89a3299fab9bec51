---------------------------- MODULE WalletContract ----------------------------
(***************************************************************************)
(* What the wallet path promises, whatever fails: only wallets that were   *)
(* requested are created; an account is created once, and who created it   *)
(* is the only one that is told of success; a request is over once, and is *)
(* completed only after it was answered; nothing is taken back.            *)
(***************************************************************************)
CONSTANTS
    Jobs, Addresses,
    Address,    \* Address[j]: the account that j asks for
    Attempts,   \* the deliveries of a job, numbered
    None        \* the creator of an account that does not exist

VARIABLES
    request,    \* request[j]: "new", "open", "completed" or "failed"
    creator,    \* creator[a]: the delivery of a request that created account a
    callbacks   \* what the requesters are told

cvars == <<request, creator, callbacks>>

Requested(j) == request[j] # "new"

Delivery(j, n) == [job |-> j, attempt |-> n]

Told(j, n, state) == [job |-> j, attempt |-> n, state |-> state]

Init ==
    /\ request = [j \in Jobs |-> "new"]
    /\ creator = [a \in Addresses |-> None]
    /\ callbacks = {}

Request(j) ==
    /\ request[j] = "new"
    /\ request' = [request EXCEPT ![j] = "open"]
    /\ UNCHANGED <<creator, callbacks>>

Create(j, n) ==
    /\ Requested(j)
    /\ creator[Address[j]] = None
    /\ creator' = [creator EXCEPT ![Address[j]] = Delivery(j, n)]
    /\ UNCHANGED <<request, callbacks>>

ReportSuccess(j, n) ==
    /\ creator[Address[j]] = Delivery(j, n)
    /\ callbacks' = callbacks \cup {Told(j, n, "success")}
    /\ UNCHANGED <<request, creator>>

ReportFailure(j, n) ==
    /\ Requested(j)
    /\ callbacks' = callbacks \cup {Told(j, n, "fail")}
    /\ UNCHANGED <<request, creator>>

Complete(j) ==
    /\ request[j] = "open"
    /\ \E c \in callbacks : c.job = j
    /\ request' = [request EXCEPT ![j] = "completed"]
    /\ UNCHANGED <<creator, callbacks>>

\* The queue gives the request up, or it could not be answered.
GiveUp(j) ==
    /\ request[j] = "open"
    /\ request' = [request EXCEPT ![j] = "failed"]
    /\ UNCHANGED <<creator, callbacks>>

Next ==
    \/ \E j \in Jobs : Request(j) \/ Complete(j) \/ GiveUp(j)
    \/ \E j \in Jobs, n \in Attempts : Create(j, n) \/ ReportSuccess(j, n) \/ ReportFailure(j, n)

Spec == Init /\ [][Next]_cvars
=============================================================================
