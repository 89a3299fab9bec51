--------------------------- MODULE WatchlistContract ---------------------------
(***************************************************************************)
(* What POST and DELETE /watchers/:service_id promise of the list of who   *)
(* watches what, whatever fails: an add puts its addresses one by one, in  *)
(* their order, for a service whose callback URL is known, and is answered *)
(* 200 when all of them were put; a delete takes one address at one        *)
(* moment and its answer says what was there at that moment; an answer is  *)
(* final; only these requests change the list.                             *)
(***************************************************************************)
EXTENDS Naturals, Sequences

CONSTANTS
    Requests, Kind, Service, Addresses, Order   \* see WatcherRegistry

VARIABLES
    watched,    \* the <<service, address, order>> that are on the list
    known,      \* the services whose callback URL is stored
    put,        \* put[r]: how many addresses r has put on the list
    answer      \* answer[r]: "none", "ok", "notFound" or "error"

cvars == <<watched, known, put, answer>>

Init ==
    /\ watched = {}
    /\ known = {}
    /\ put = [r \in Requests |-> 0]
    /\ answer = [r \in Requests |-> "none"]

\* r is not answered yet; it gets its answer, or, when that got lost, an error instead.
Answers(r, result) ==
    /\ answer[r] = "none"
    /\ answer' \in {[answer EXCEPT ![r] = result], [answer EXCEPT ![r] = "error"]}

\* What an add has to say when n of its addresses are on the list.
AfterPutting(r, n) == IF n = Len(Addresses[r]) THEN "ok" ELSE "none"

Item(r, n) == <<Service[r], Addresses[r][n], Order[r]>>

\* An add finds the callback URL of its service, or stores its own.
Learn(r) ==
    /\ Kind[r] = "add"
    /\ put[r] = 0
    /\ Answers(r, AfterPutting(r, 0))
    /\ known' = known \cup {Service[r]}
    /\ UNCHANGED <<watched, put>>

Put(r) ==
    /\ Kind[r] = "add"
    /\ put[r] < Len(Addresses[r])
    /\ Service[r] \in known
    /\ Answers(r, AfterPutting(r, put[r] + 1))
    /\ watched' = watched \cup {Item(r, put[r] + 1)}
    /\ put' = [put EXCEPT ![r] = @ + 1]
    /\ UNCHANGED known

Take(r) ==
    /\ Kind[r] = "delete"
    /\ Answers(r, IF Item(r, 1) \in watched THEN "ok" ELSE "notFound")
    /\ watched' = watched \ {Item(r, 1)}
    /\ UNCHANGED <<known, put>>

\* r gets no further.
Fail(r) ==
    /\ Answers(r, "error")
    /\ UNCHANGED <<watched, known, put>>

Next == \E r \in Requests : Learn(r) \/ Put(r) \/ Take(r) \/ Fail(r)

Spec == Init /\ [][Next]_cvars
=============================================================================
