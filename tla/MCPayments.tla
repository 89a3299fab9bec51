----------------------------- MODULE MCPayments -----------------------------
(* Small instances of Payments for TLC. *)
EXTENDS Payments, TLC

CONSTANTS j1, j2, j3, i1, w1, w2

\* All requests carry one payment id: a client that sends its request again.
OneId == [j \in Jobs |-> i1]

WorkerSymmetry == Permutations(Workers)
=============================================================================
