--------------------------- MODULE WebServerProofs ---------------------------
(***************************************************************************)
(* Theorems about WebServer: the registry of watchers under a server that  *)
(* is stopped, dies and is started again, for every set of services,       *)
(* wallets, orders and requests, any number of stops and crashes, and      *)
(* whether or not Redis fails.                                             *)
(***************************************************************************)
EXTENDS WebServer, RegistryProofs

\* A process that has not started yet, or is gone, has no handler under way.
OnlyUpIsBusy == server \in {"starting", "down"} => Busy = {}

ServerInv == RegistryInv /\ ServerTypeOK /\ StopCutsNothing /\ OnlyUpIsBusy

-----------------------------------------------------------------------------
\* The initial state satisfies the invariant.
LEMMA ServerInvInit == Init => ServerInv
<1> SUFFICES ASSUME Init PROVE ServerInv
  OBVIOUS
<1>1. RegistryInv
  BY RegistryInvInit DEF Init
<1>2. ServerTypeOK /\ StopCutsNothing
  BY <1>1, ServerAssumption DEF Init, RegistryInv, ServerTypeOK, StopCutsNothing
<1>3. OnlyUpIsBusy
  BY DEF Init, RegistryInit, OnlyUpIsBusy, Busy
<1> QED
  BY <1>1, <1>2, <1>3 DEF ServerInv

\* The process goes from one state to another: its requests stay where they are, and those
\* that are under way when it ends are cut off.
LEMMA ServerStep ==
    ASSUME ServerInv,
           \/ Listen \/ StartFails \/ Cleanup \/ Exit \/ Crash \/ Restart
           \/ UNCHANGED vars
    PROVE  ServerInv'
<1> USE ServerAssumption DEF ServerInv
<1>1. UNCHANGED rvars
  BY DEF Listen, StartFails, Cleanup, Exit, Crash, Restart, Down, vars
<1>2. RegistryInv'
  BY <1>1, RegistryInvStutter
<1>3. UNCHANGED stage
  BY <1>1 DEF rvars
<1>4. ServerTypeOK' /\ StopCutsNothing' /\ OnlyUpIsBusy'
  <2>0. RegistryTypeOK'
    BY <1>2 DEF RegistryInv
  <2> USE <2>0 DEF ServerTypeOK, StopCutsNothing, OnlyUpIsBusy
  <2>1. CASE Listen \/ Cleanup \/ Restart \/ UNCHANGED vars
    BY <1>3, <2>1 DEF Listen, Cleanup, Restart, Busy, vars, serverVars
  <2>2. CASE StartFails \/ Exit
    <3>1. Busy = {} /\ server' = "down" /\ cut' = cut
      BY <2>2 DEF StartFails, Exit, Down
    <3>2. Busy' = {}
      BY <1>3, <3>1 DEF Busy
    <3>3. crashes' = crashes /\ stops' \in 0..MaxStops
      BY <2>2 DEF StartFails, Exit
    <3> QED
      BY <3>1, <3>2, <3>3
  <2>3. CASE Crash
    <3>1. server' = "down" /\ cut' = cut \cup Busy /\ crashes' \in 1..MaxCrashes
      BY <2>3 DEF Crash, Down
    <3>2. Busy' = {} /\ cut' \subseteq Requests
      BY <1>3, <3>1 DEF Busy
    <3>3. UNCHANGED stops
      BY <2>3 DEF Crash
    <3> QED
      BY <3>1, <3>2, <3>3
  <2> QED
    BY <2>1, <2>2, <2>3
<1> QED
  BY <1>2, <1>4

\* The invariant is inductive.
LEMMA ServerInvStep == ServerInv /\ [Next]_vars => ServerInv'
<1> SUFFICES ASSUME ServerInv, [Next]_vars PROVE ServerInv'
  OBVIOUS
<1>1. ASSUME NEW r \in Requests, Serve(r) PROVE ServerInv'
  <2>1. RegistryInv'
    BY <1>1, RegistryInvStep DEF Serve, ServerInv
  <2>2. UNCHANGED serverVars /\ server \in {"listening", "closing"}
    BY <1>1 DEF Serve, Up
  <2> QED
    BY <2>1, <2>2 DEF ServerInv, RegistryInv, serverVars, ServerTypeOK, StopCutsNothing, OnlyUpIsBusy
<1>2. CASE Listen \/ StartFails \/ Cleanup \/ Exit \/ Crash \/ Restart \/ UNCHANGED vars
  BY <1>2, ServerStep
<1> QED
  BY <1>1, <1>2 DEF Next, AtRest

-----------------------------------------------------------------------------
\* Registry, server and requests satisfy the invariant in every behaviour: Cleanup leaves
\* the handlers running, and only Crash ends a process that has some (server.ts).
THEOREM ServerInvariance == Spec => []ServerInv
BY ServerInvInit, ServerInvStep, PTL DEF Spec

\* The server never leaves its states, and only requests are cut off (server.ts); the keys in
\* Redis and the requests keep to theirs: no handler is past the last of its addresses
\* (addWatcher), wherever the server cuts it off.
THEOREM ServerTypeCorrect == Spec => []ServerTypeOK
<1>1. ServerInv => ServerTypeOK
  BY DEF ServerInv
<1> QED
  BY <1>1, ServerInvariance, PTL

\* Whoever watches a wallet has a callback URL (addWatcher stores the service first), also
\* when the server dies between the two.
THEOREM WatchersHaveUrls == Spec => []WatchedHasUrl
<1>1. ServerInv => WatchedHasUrl
  BY DEF ServerInv, RegistryInv
<1> QED
  BY <1>1, ServerInvariance, PTL

\* An add that was answered 200 is complete, at all of its addresses, until deletes come
\* (addWatcher), however many requests interleave.
THEOREM AddsAreComplete == Spec => []AddedIsWatched
<1>1. ServerInv => AddedIsWatched
  BY RegistryInvImplies DEF ServerInv
<1> QED
  BY <1>1, ServerInvariance, PTL

\* No more deletes of an order are answered 200 than adds put it there (removeWatcher),
\* for any number of adds and deletes that race for it.
THEOREM DeletesAreTrue == Spec => []DeletedWasWatched
<1>1. ServerInv => DeletedWasWatched
  BY RegistryInvImplies DEF ServerInv
<1> QED
  BY <1>1, ServerInvariance, PTL

\* A stop cuts no request off: as long as the server has not crashed, every handler that
\* was called has been answered or still runs (cleanup in server.ts).
THEOREM StopsAreClean == Spec => []StopCutsNothing
<1>1. ServerInv => StopCutsNothing
  BY DEF ServerInv
<1> QED
  BY <1>1, ServerInvariance, PTL

-----------------------------------------------------------------------------
(* The contract of the list of watchers. *)

\* The stages of a request that has not been answered.
Pending == {"unsent", "noService", "adding"}

Seen(s) == IF s \in Pending THEN "none" ELSE s

List == {x \in Services \X Wallets \X Orders : x[3] \in orders[x[1]][x[2]]}

Known == {s \in Services : serviceUrl[s] # NoUrl}

Answer == [r \in Requests |-> Seen(stage[r])]

LEMMA SeenError == Seen("error") = "error"
BY DEF Seen, Pending

\* What the contract says of a request, in these words.
LEMMA ContractWords ==
    ASSUME NEW r \in Requests, NEW n \in Nat
    PROVE  /\ Contract!AfterPutting(r, n) = Seen(AfterAdding(r, n))
           /\ Contract!Item(r, n) = <<Service[r], Addresses[r][n], Order[r]>>
BY DEF Contract!AfterPutting, Contract!Item, AfterAdding, Seen, Pending

LEMMA ContractAnswers ==
    ASSUME NEW r \in Requests, NEW result, Answer[r] = "none",
           Answer' \in {[Answer EXCEPT ![r] = result], [Answer EXCEPT ![r] = "error"]}
    PROVE  Contract!Answers(r, result)
BY DEF Contract!Answers, Answer, Seen, Pending

\* The contract's steps, in these words.
LEMMA ContractLearn ==
    ASSUME NEW r \in Requests, Kind[r] = "add", added[r] = 0,
           Contract!Answers(r, Contract!AfterPutting(r, 0)),
           Known' = Known \cup {Service[r]}, List' = List, UNCHANGED added
    PROVE  Contract!Learn(r)
BY DEF Contract!Learn, Known, List

LEMMA ContractPut ==
    ASSUME NEW r \in Requests, Kind[r] = "add", added[r] < Len(Addresses[r]),
           NEW n \in Nat, added[r] = n, Service[r] \in Known,
           Contract!Answers(r, Seen(AfterAdding(r, n + 1))),
           List' = List \cup {<<Service[r], Addresses[r][n + 1], Order[r]>>},
           added' = [added EXCEPT ![r] = @ + 1], Known' = Known
    PROVE  Contract!Put(r)
<1>1. Seen(AfterAdding(r, n + 1)) = Contract!AfterPutting(r, n + 1)
  BY ContractWords
<1>2. Contract!Item(r, n + 1) = <<Service[r], Addresses[r][n + 1], Order[r]>>
  BY ContractWords
<1> QED
  BY <1>1, <1>2 DEF Contract!Put, Contract!Answers, Known, List

LEMMA ContractTake ==
    ASSUME NEW r \in Requests, Kind[r] = "delete",
           NEW result, result = (IF <<Service[r], Addresses[r][1], Order[r]>> \in List
                                   THEN "ok" ELSE "notFound"),
           Contract!Answers(r, result),
           List' = List \ {<<Service[r], Addresses[r][1], Order[r]>>},
           Known' = Known, UNCHANGED added
    PROVE  Contract!Take(r)
<1>1. Contract!Item(r, 1) = <<Service[r], Addresses[r][1], Order[r]>>
  BY ContractWords
<1> QED
  BY <1>1 DEF Contract!Take, Contract!Answers, Known, List

LEMMA ContractFail ==
    ASSUME NEW r \in Requests, Contract!Answers(r, "error"), List' = List, Known' = Known,
           UNCHANGED added
    PROVE  Contract!Fail(r)
BY DEF Contract!Fail, Known, List

LEMMA ContractNext ==
    ASSUME NEW r \in Requests,
           Contract!Learn(r) \/ Contract!Put(r) \/ Contract!Take(r) \/ Contract!Fail(r)
    PROVE  Contract!Next
BY DEF Contract!Next

LEMMA ContractStutters ==
    ASSUME List' = List, Known' = Known, UNCHANGED added, Answer' = Answer
    PROVE  UNCHANGED Contract!cvars
BY DEF Contract!cvars, Known, List, Answer, Seen, Pending

\* What Redis keeps and the contract sees changes only if the keys do.
LEMMA ListStays == ASSUME UNCHANGED orders PROVE List' = List
BY DEF List

LEMMA KnownStays == ASSUME UNCHANGED serviceUrl PROVE Known' = Known
BY DEF Known

\* A step of request r that goes to a stage shows as its answer, if it is one.
LEMMA MovesAnswer ==
    ASSUME RegistryTypeOK, NEW r \in Requests, NEW to, stage[r] \in Pending,
           stage' = [stage EXCEPT ![r] = to] \/ stage' = [stage EXCEPT ![r] = "error"]
    PROVE  Contract!Answers(r, Seen(to))
<1>1. Answer[r] = "none"
  BY DEF Answer, Seen
<1>2. CASE stage' = [stage EXCEPT ![r] = to]
  <2>1. Answer' = [Answer EXCEPT ![r] = Seen(to)]
    BY <1>2 DEF Answer, RegistryTypeOK
  <2> QED
    BY <1>1, <2>1, ContractAnswers
<1>3. CASE stage' = [stage EXCEPT ![r] = "error"]
  <2>1. Seen("error") = "error"
    BY DEF Seen, Pending
  <2>2. Answer' = [Answer EXCEPT ![r] = "error"]
    BY <1>3, <2>1 DEF Answer, RegistryTypeOK
  <2> QED
    BY <1>1, <2>2, ContractAnswers
<1> QED
  BY <1>2, <1>3

\* The test for the service, and storing its URL: an add learns of the URL, or shows nothing.
LEMMA LearnImplements ==
    ASSUME RegistryInv, NEW r \in Requests, CheckService(r) \/ AddService(r)
    PROVE  [Contract!Next]_(Contract!cvars)
<1>1. RegistryTypeOK /\ Service[r] \in Services /\ r # NoUrl
  BY RequestTypes DEF RegistryInv
<1>2. /\ UNCHANGED <<orders, added>> /\ Kind[r] = "add" /\ stage[r] \in Pending
      /\ added[r] = 0
  BY <1>1 DEF CheckService, AddService, Moves, Pending, RegistryTypeOK
<1>3. CASE /\ Known' = Known \cup {Service[r]}
           /\ \/ stage' = [stage EXCEPT ![r] = AfterAdding(r, 0)]
              \/ stage' = [stage EXCEPT ![r] = "error"]
  <2>1. Contract!Answers(r, Contract!AfterPutting(r, 0))
    BY <1>1, <1>2, <1>3, MovesAnswer, ContractWords
  <2>2. Contract!Learn(r)
    BY <1>2, <1>3, <2>1, ContractLearn, ListStays
  <2> QED
    BY <2>2, ContractNext
<1>4. CASE AddService(r)
  <2>1. Known' = Known \cup {Service[r]}
    BY <1>1, <1>4 DEF AddService, addService, Known, RegistryTypeOK
  <2> QED
    BY <1>3, <1>4, <2>1 DEF AddService, Moves
<1>5. CASE CheckService(r) /\ serviceUrl[Service[r]] # NoUrl
  <2>1. Known' = Known \cup {Service[r]}
    BY <1>1, <1>5 DEF CheckService, Known
  <2> QED
    BY <1>3, <1>5, <2>1 DEF CheckService, Moves, doesServiceExists
<1>6. CASE CheckService(r) /\ serviceUrl[Service[r]] = NoUrl
  <2>1. UNCHANGED serviceUrl
    BY <1>6 DEF CheckService
  <2>2. CASE stage' = [stage EXCEPT ![r] = "noService"]
    <3>1. Answer' = Answer
      BY <1>1, <1>2, <2>2 DEF Answer, Seen, Pending, RegistryTypeOK
    <3> QED
      BY <1>2, <2>1, <3>1, ContractStutters, ListStays, KnownStays
  <2>3. CASE stage' = [stage EXCEPT ![r] = "error"]
    <3>1. Contract!Answers(r, Seen("error"))
      BY <1>1, <1>2, <2>3, MovesAnswer
    <3>2. Contract!Fail(r)
      BY <1>2, <2>1, <3>1, SeenError, ContractFail, ListStays, KnownStays
    <3> QED
      BY <3>2, ContractNext
  <2> QED
    BY <1>6, <2>2, <2>3 DEF CheckService, Moves, doesServiceExists
<1> QED
  BY <1>4, <1>5, <1>6

Triples == Services \X Wallets \X Orders

\* The members of the list, before and after a step.
LEMMA ListMembers ==
    ASSUME NEW s \in Services, NEW a \in Wallets, NEW o \in Orders
    PROVE  <<s, a, o>> \in List <=> o \in orders[s][a]
BY DEF List

LEMMA ListMembersNext ==
    ASSUME NEW s \in Services, NEW a \in Wallets, NEW o \in Orders
    PROVE  <<s, a, o>> \in List' <=> o \in orders'[s][a]
BY DEF List

\* The list gains or loses one triple.
LEMMA ListGrows ==
    ASSUME RegistryTypeOK, NEW s \in Services, NEW a \in Wallets, NEW o \in Orders,
           addWatcher(s, a, o)
    PROVE  List' = List \cup {<<s, a, o>>}
<1>1. ASSUME NEW t \in Services, NEW b \in Wallets
      PROVE  orders'[t][b] = IF t = s /\ b = a THEN orders[t][b] \cup {o} ELSE orders[t][b]
  BY DEF addWatcher, RegistryTypeOK
<1>2. ASSUME NEW t \in Services, NEW b \in Wallets, NEW p \in Orders
      PROVE  <<t, b, p>> \in List' <=> <<t, b, p>> \in List \cup {<<s, a, o>>}
  <2>1. p \in orders'[t][b] <=> p \in orders[t][b] \cup (IF t = s /\ b = a THEN {o} ELSE {})
    BY <1>1
  <2>2. <<t, b, p>> = <<s, a, o>> <=> t = s /\ b = a /\ p = o
    OBVIOUS
  <2> QED
    BY <2>1, <2>2, ListMembers, ListMembersNext
<1>3. List \subseteq Triples /\ List' \subseteq Triples
  BY DEF List, Triples
<1> QED
  BY <1>2, <1>3 DEF Triples

LEMMA ListShrinks ==
    ASSUME RegistryTypeOK, NEW s \in Services, NEW a \in Wallets, NEW o \in Orders,
           removeWatcher(s, a, o)
    PROVE  List' = List \ {<<s, a, o>>}
<1>1. ASSUME NEW t \in Services, NEW b \in Wallets
      PROVE  orders'[t][b] = IF t = s /\ b = a THEN orders[t][b] \ {o} ELSE orders[t][b]
  BY DEF removeWatcher, RegistryTypeOK
<1>2. ASSUME NEW t \in Services, NEW b \in Wallets, NEW p \in Orders
      PROVE  <<t, b, p>> \in List' <=> <<t, b, p>> \in List \ {<<s, a, o>>}
  <2>1. p \in orders'[t][b] <=> p \in orders[t][b] \ (IF t = s /\ b = a THEN {o} ELSE {})
    BY <1>1
  <2>2. <<t, b, p>> = <<s, a, o>> <=> t = s /\ b = a /\ p = o
    OBVIOUS
  <2> QED
    BY <2>1, <2>2, ListMembers, ListMembersNext
<1>3. List \subseteq Triples /\ List' \subseteq Triples
  BY DEF List, Triples
<1> QED
  BY <1>2, <1>3 DEF Triples

\* An add puts its next address on the list; the URL of its service is known.
LEMMA PutImplements ==
    ASSUME RegistryInv, NEW r \in Requests, AddWatcher(r), NEW n \in Nat, added[r] = n
    PROVE  Contract!Next
<1> DEFINE a == Addresses[r][n + 1]
<1>1. RegistryTypeOK /\ Service[r] \in Services /\ Order[r] \in Orders
  BY RequestTypes DEF RegistryInv
<1>2. /\ Kind[r] = "add" /\ stage[r] = "adding" /\ serviceUrl' = serviceUrl
      /\ n < Len(Addresses[r])
      /\ added' = [added EXCEPT ![r] = @ + 1]
  BY <1>1 DEF AddWatcher, Moves, RegistryTypeOK
<1>3. a \in Wallets
  BY <1>2, RequestTypes
<1>4. Service[r] \in Known
  BY <1>1, <1>2 DEF RegistryInv, AddingHasUrl, Known
<1>5. Contract!Answers(r, Seen(AfterAdding(r, n + 1)))
  <2>1. \/ stage' = [stage EXCEPT ![r] = AfterAdding(r, n + 1)]
        \/ stage' = [stage EXCEPT ![r] = "error"]
    BY DEF AddWatcher, Moves
  <2>2. stage[r] \in Pending
    BY <1>2 DEF Pending
  <2> QED
    BY <1>1, <2>1, <2>2, MovesAnswer
<1>6. List' = List \cup {<<Service[r], a, Order[r]>>}
  BY <1>1, <1>3, ListGrows DEF AddWatcher
<1>7. Contract!Put(r)
  BY <1>2, <1>4, <1>5, <1>6, ContractPut, KnownStays
<1> QED
  BY <1>7, ContractNext

\* A delete takes its address off the list and says whether it was there.
LEMMA TakeImplements ==
    ASSUME RegistryInv, NEW r \in Requests, Delete(r),
           NEW result, result = (IF Order[r] \in orders[Service[r]][Addresses[r][1]]
                                   THEN "ok" ELSE "notFound")
    PROVE  Contract!Next
<1> DEFINE a == Addresses[r][1]
<1>1. /\ RegistryTypeOK /\ Service[r] \in Services /\ Order[r] \in Orders
      /\ Kind[r] = "delete" /\ a \in Wallets
  BY RequestTypes DEF RegistryInv, Delete, Moves
<1>2. UNCHANGED <<serviceUrl, added>> /\ stage[r] \in Pending
  BY DEF Delete, Moves, Pending
<1>3. result = IF <<Service[r], a, Order[r]>> \in List THEN "ok" ELSE "notFound"
  BY <1>1, ListMembers
<1>4. Contract!Answers(r, result)
  <2>1. stage' = [stage EXCEPT ![r] = result] \/ stage' = [stage EXCEPT ![r] = "error"]
    BY DEF Delete, Moves
  <2>2. Seen(result) = result
    BY DEF Seen, Pending
  <2> QED
    BY <1>1, <1>2, <2>1, <2>2, MovesAnswer
<1>5. List' = List \ {<<Service[r], a, Order[r]>>}
  BY <1>1, ListShrinks DEF Delete
<1>6. Contract!Take(r)
  BY <1>1, <1>2, <1>3, <1>4, <1>5, ContractTake, KnownStays
<1> QED
  BY <1>6, ContractNext

\* A request that fails before its command takes effect gets no further.
LEMMA FailImplements ==
    ASSUME RegistryInv, NEW r \in Requests, RequestFails(r)
    PROVE  Contract!Next
<1>1. /\ RegistryTypeOK /\ stage[r] \in Pending
      /\ stage' = [stage EXCEPT ![r] = "error"]
      /\ UNCHANGED <<orders, serviceUrl, added>>
  BY DEF RequestFails, RegistryInv, Pending
<1>2. Contract!Answers(r, Seen("error"))
  BY <1>1, MovesAnswer
<1>3. Contract!Fail(r)
  BY <1>1, <1>2, SeenError, ContractFail, ListStays, KnownStays
<1> QED
  BY <1>3, ContractNext

\* The registry implements WatchlistContract, with requests that interleave at every await, Redis
\* commands that fail, and a server that stops, dies and comes back: every step of a request
\* takes effect at one moment, and its answer is true of that moment.
THEOREM RegistryKeepsContract == Spec => KeepsContract
<1>1. Init => Contract!Init
  <2> SUFFICES ASSUME Init PROVE Contract!Init
    OBVIOUS
  <2>1. List = {}
    BY DEF Init, RegistryInit, List
  <2>2. Known = {}
    BY DEF Init, RegistryInit, Known
  <2>3. added = [r \in Requests |-> 0] /\ Answer = [r \in Requests |-> "none"]
    BY DEF Init, RegistryInit, Answer, Seen, Pending
  <2> QED
    BY <2>1, <2>2, <2>3 DEF Contract!Init, List, Known, Answer, Seen, Pending
<1>2. ServerInv /\ [Next]_vars => [Contract!Next]_(Contract!cvars)
  <2> SUFFICES ASSUME ServerInv, [Next]_vars PROVE [Contract!Next]_(Contract!cvars)
    OBVIOUS
  <2>1. RegistryInv
    BY DEF ServerInv
  <2>2. ASSUME NEW r \in Requests, Serve(r) PROVE [Contract!Next]_(Contract!cvars)
    <3>1. CASE AddWatcher(r)
      <4>1. added[r] \in Nat
        BY <2>1 DEF RegistryInv, RegistryTypeOK
      <4> QED
        BY <2>1, <3>1, <4>1, PutImplements
    <3>2. CASE Delete(r)
      BY <2>1, <3>2, TakeImplements
    <3> QED
      BY <2>1, <2>2, <3>1, <3>2, LearnImplements, FailImplements DEF Serve, Handler
  <2>3. CASE UNCHANGED rvars
    <3>1. UNCHANGED <<orders, serviceUrl, stage, added>>
      BY <2>3 DEF rvars
    <3>2. Answer' = Answer
      BY <3>1 DEF Answer
    <3> QED
      BY <3>1, <3>2, ContractStutters, ListStays, KnownStays
  <2>4. CASE Listen \/ StartFails \/ Cleanup \/ Exit \/ Crash \/ Restart \/ UNCHANGED vars
    BY <2>3, <2>4 DEF Listen, StartFails, Cleanup, Exit, Crash, Restart, Down, vars
  <2> QED
    BY <2>2, <2>4 DEF Next, AtRest
<1> QED
  BY <1>1, <1>2, ServerInvariance, PTL DEF Spec, KeepsContract, Contract!Spec
=============================================================================
