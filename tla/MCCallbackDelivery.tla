------------------------- MODULE MCCallbackDelivery -------------------------
(* Small instances of CallbackDelivery for TLC. *)
EXTENDS CallbackDelivery, TLC

CONSTANTS j1, j2, w1, w2

WorkerSymmetry == Permutations(Workers)
=============================================================================
