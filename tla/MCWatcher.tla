------------------------------ MODULE MCWatcher ------------------------------
(* Small instances of Watcher for TLC. *)
EXTENDS Watcher, TLC

CONSTANTS s1, s2, a1, a2, o1, add1, add2, del1

\* Two services; the first one stops watching again.
MCKind == [r \in Requests |-> IF r = del1 THEN "delete" ELSE "add"]

MCService == [r \in Requests |-> IF r = add2 THEN s2 ELSE s1]

MCAddresses == [r \in Requests |-> IF r = add2 THEN <<a2>> ELSE <<a1>>]

MCOrder == [r \in Requests |-> o1]

Payment(source, destination, memo) ==
    [type |-> "payment", source |-> source, destination |-> destination, memo |-> memo]

\* A payment between the two wallets, and one the other way without a memo.
BothWays == {Payment(a1, a2, TRUE), Payment(a2, a1, FALSE)}

\* Payments with and without a memo.
SomeMemos == {Payment(a2, a1, TRUE), Payment(a2, a1, FALSE)}
=============================================================================
