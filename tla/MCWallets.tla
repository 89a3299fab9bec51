------------------------------ MODULE MCWallets ------------------------------
(* Small instances of Wallets for TLC. *)
EXTENDS Wallets, TLC

CONSTANTS j1, j2, j3, a1, w1, w2

\* All requests are for one address.
OneAddress == [j \in Jobs |-> a1]

WorkerSymmetry == Permutations(Workers)
=============================================================================
