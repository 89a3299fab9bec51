----------------------------- MODULE MCChannels -----------------------------
(* A small instance of Channels for TLC. *)
EXTENDS Channels, TLC

CONSTANTS c1, c2, c3, hot, root, p1, k1

\* Two calls of one account, which share a pool in each process, and one of another.
MCAccount == [c \in Calls |-> IF c = c3 THEN root ELSE hot]
=============================================================================
