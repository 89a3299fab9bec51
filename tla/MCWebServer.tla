----------------------------- MODULE MCWebServer -----------------------------
(* A small instance of WebServer for TLC. *)
EXTENDS WebServer, TLC

CONSTANTS s1, s2, a1, a2, o1, add1, add2, add3, del1, del2

\* Two adds of one order, two deletes of it, and an add of another service.
MCKind == [r \in Requests |-> IF r \in {del1, del2} THEN "delete" ELSE "add"]

MCService == [r \in Requests |-> IF r = add3 THEN s2 ELSE s1]

MCAddresses ==
    [r \in Requests |->
        CASE r = add1 -> <<a1, a2>>
          [] r = add2 -> <<a2>>
          [] r = add3 -> <<a2, a1>>
          [] r = del1 -> <<a2>>
          [] OTHER    -> <<a2>>]

MCOrder == [r \in Requests |-> o1]
=============================================================================
