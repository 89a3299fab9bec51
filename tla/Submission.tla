----------------------------- MODULE Submission -----------------------------
(***************************************************************************)
(* What Kin.pay and Kin.createWallet promise to PaymentSender and          *)
(* WalletCreator: a call puts one transaction on the ledger at most; it    *)
(* returns only when the transaction is there; a call that is refused has  *)
(* none and never will have; of a call that was given up nothing is known. *)
(***************************************************************************)
EXTENDS Naturals

CONSTANT Calls

VARIABLES
    outcome,   \* outcome[c]: "none", "open", "ok", "refused" or "unknown"
    landed     \* landed[c]: how many transactions of c have landed

svars == <<outcome, landed>>

Init ==
    /\ outcome = [c \in Calls |-> "none"]
    /\ landed = [c \in Calls |-> 0]

Landed(c) == landed[c] # 0

Goes(c, from, to) ==
    /\ outcome[c] = from
    /\ outcome' = [outcome EXCEPT ![c] = to]
    /\ UNCHANGED landed

Call(c) == Goes(c, "none", "open")

Land(c) ==
    /\ outcome[c] \in {"open", "unknown"}
    /\ ~Landed(c)
    /\ landed' = [landed EXCEPT ![c] = 1]
    /\ UNCHANGED outcome

Return(c) == Landed(c) /\ Goes(c, "open", "ok")

Refuse(c) == ~Landed(c) /\ Goes(c, "open", "refused")

\* The calls of a process that dies are given up together.
GiveUp(lost) ==
    /\ \A c \in lost : outcome[c] = "open"
    /\ outcome' = [c \in Calls |-> IF c \in lost THEN "unknown" ELSE outcome[c]]
    /\ UNCHANGED landed

Next ==
    \/ \E c \in Calls : Call(c) \/ Land(c) \/ Return(c) \/ Refuse(c)
    \/ \E lost \in SUBSET Calls : GiveUp(lost)

Spec == Init /\ [][Next]_svars
=============================================================================
