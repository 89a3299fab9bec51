---------------------------- MODULE RegistryProofs ----------------------------
(***************************************************************************)
(* What a step of a request does to the registry of watchers: the lemmas   *)
(* behind the theorems of WebServerProofs, for every set of services,      *)
(* wallets, orders and requests, and whether or not Redis fails.           *)
(***************************************************************************)
EXTENDS WatcherRegistry, FiniteSetTheorems, TLAPS

-----------------------------------------------------------------------------
(* The inductive invariant, in three parts. *)

\* An add that is at its addresses has seen or stored the callback URL of its service.
AddingHasUrl ==
    \A r \in Requests : stage[r] = "adding" =>
        Kind[r] = "add" /\ serviceUrl[Service[r]] # NoUrl

\* A delete that may have taken order o of service s away from address a.
TakenAway(s, a, o) ==
    \E d \in Requests : /\ Kind[d] = "delete" /\ stage[d] \in {"ok", "error"}
                        /\ IsAbout(d, s, o) /\ Addresses[d][1] = a

\* What an add has added so far is watched or was taken away, and an add that was answered
\* has added everything.
AddedSoFar ==
    \A r \in Requests :
        /\ \A k \in 1..added[r] : \/ Order[r] \in orders[Service[r]][Addresses[r][k]]
                                  \/ TakenAway(Service[r], Addresses[r][k], Order[r])
        /\ Kind[r] = "add" /\ stage[r] = "ok" => added[r] = Len(Addresses[r])

\* The deletes that succeeded, and one more if the order is there, are at most as many as
\* the times it was put there.
Balanced(s, a, o) ==
    /\ IsFiniteSet(Deleted(s, a, o)) /\ IsFiniteSet(PutThere(s, a, o))
    /\ Cardinality(Deleted(s, a, o)) + (IF o \in orders[s][a] THEN 1 ELSE 0)
          <= Cardinality(PutThere(s, a, o))

AllBalanced == \A s \in Services, a \in Wallets, o \in Orders : Balanced(s, a, o)

RegistryInv ==
    /\ RegistryTypeOK /\ WatchedHasUrl /\ AddingHasUrl
    /\ AddedSoFar /\ AllBalanced

-----------------------------------------------------------------------------
(* Types. *)

\* The lists of addresses and what they list.
LEMMA RequestTypes ==
    ASSUME NEW r \in Requests
    PROVE  /\ Service[r] \in Services /\ Order[r] \in Orders
           /\ Kind[r] \in {"add", "delete"}
           /\ Len(Addresses[r]) \in Nat
           /\ DOMAIN Addresses[r] = 1..Len(Addresses[r])
           /\ \A k \in 1..Len(Addresses[r]) : Addresses[r][k] \in Wallets
           /\ Kind[r] = "delete" => Len(Addresses[r]) = 1 /\ Addresses[r][1] \in Wallets
           /\ r # NoUrl
<1>1. Addresses[r] \in Seq(Wallets)
  BY RegistryAssumption
<1> QED
  BY <1>1, RegistryAssumption

\* The initial registry is well formed.
LEMMA RegistryTypeInit == RegistryInit => RegistryTypeOK
BY RequestTypes DEF RegistryInit, RegistryTypeOK

\* What a request changes, whichever step it takes.
LEMMA HandlerType ==
    ASSUME RegistryTypeOK, NEW r \in Requests, Handler(r)
    PROVE  RegistryTypeOK'
<1>1. /\ Len(Addresses[r]) \in Nat /\ Order[r] \in Orders /\ Service[r] \in Services
      /\ \A k \in 1..Len(Addresses[r]) : Addresses[r][k] \in Wallets
      /\ Kind[r] = "delete" => Addresses[r][1] \in Wallets
  BY RequestTypes
<1> USE DEF RegistryTypeOK, Moves, AfterAdding
<1>2. CASE CheckService(r) \/ RequestFails(r)
  <2>1. stage'[r] \in {"noService", "adding", "ok", "error"}
    BY <1>2 DEF CheckService, RequestFails, doesServiceExists
  <2>2. stage' = [stage EXCEPT ![r] = stage'[r]]
    BY <1>2 DEF CheckService, RequestFails, doesServiceExists
  <2>3. stage'[r] \in {"noService", "adding"} => added[r] = 0
    BY <1>2 DEF CheckService, RequestFails, doesServiceExists
  <2>4. stage'[r] = "adding" => Len(Addresses[r]) # 0
    BY <1>2 DEF CheckService, RequestFails, doesServiceExists
  <2>5. UNCHANGED <<orders, serviceUrl, added>>
    BY <1>2 DEF CheckService, RequestFails
  <2>6. ASSUME NEW q \in Requests
        PROVE  /\ added'[q] \in 0..Len(Addresses[q])
               /\ stage'[q] = "adding" => added'[q] < Len(Addresses[q])
               /\ stage'[q] \in {"unsent", "noService"} => added'[q] = 0
    <3>1. CASE q = r
      BY <1>1, <2>1, <2>2, <2>3, <2>4, <2>5, <3>1
    <3>2. CASE q # r
      BY <2>1, <2>2, <2>3, <2>4, <2>5, <3>2
    <3> QED
      BY <3>1, <3>2
  <2>7. stage' \in [Requests -> {"unsent", "noService", "adding", "ok", "notFound", "error"}]
    BY <2>1, <2>2
  <2> QED
    BY <2>5, <2>6, <2>7
<1>3. CASE AddService(r)
  <2>1. /\ stage' = [stage EXCEPT ![r] = stage'[r]]
        /\ stage'[r] \in {"adding", "ok", "error"}
        /\ stage'[r] = "adding" => Len(Addresses[r]) # 0
        /\ added[r] = 0
    BY <1>3 DEF AddService
  <2>2. serviceUrl' \in [Services -> Requests \cup {NoUrl}] /\ UNCHANGED <<orders, added>>
    BY <1>1, <1>3 DEF AddService, addService
  <2>3. stage' \in [Requests -> {"unsent", "noService", "adding", "ok", "notFound", "error"}]
    BY <1>1, <2>1
  <2>4. ASSUME NEW q \in Requests
        PROVE  /\ added[q] \in 0..Len(Addresses[q])
               /\ stage'[q] = "adding" => added[q] < Len(Addresses[q])
               /\ stage'[q] \in {"unsent", "noService"} => added[q] = 0
    <3>1. CASE q = r
      BY <1>1, <2>1, <3>1
    <3>2. CASE q # r
      BY <1>1, <2>1, <3>2
    <3> QED
      BY <3>1, <3>2
  <2> QED
    BY <1>1, <2>2, <2>3, <2>4
<1>4. CASE AddWatcher(r)
  <2>1. added[r] + 1 \in 1..Len(Addresses[r])
    BY <1>1, <1>4 DEF AddWatcher
  <2>2. orders' \in [Services -> [Wallets -> SUBSET Orders]]
    BY <1>1, <1>4, <2>1 DEF AddWatcher, addWatcher
  <2>3. /\ stage' = [stage EXCEPT ![r] = stage'[r]]
        /\ stage'[r] \in {"adding", "ok", "error"}
        /\ stage'[r] = "adding" => added[r] + 1 # Len(Addresses[r])
    BY <1>4 DEF AddWatcher
  <2>4. added' = [added EXCEPT ![r] = added[r] + 1] /\ UNCHANGED serviceUrl
    BY <1>4 DEF AddWatcher
  <2>6. ASSUME NEW q \in Requests
        PROVE  /\ added'[q] \in 0..Len(Addresses[q])
               /\ stage'[q] = "adding" => added'[q] < Len(Addresses[q])
               /\ stage'[q] \in {"unsent", "noService"} => added'[q] = 0
    <3>1. CASE q = r
      BY <1>1, <2>1, <2>3, <2>4, <3>1
    <3>2. CASE q # r
      BY <2>1, <2>3, <2>4, <3>2
    <3> QED
      BY <3>1, <3>2
  <2>7. stage' \in [Requests -> {"unsent", "noService", "adding", "ok", "notFound", "error"}]
    BY <2>3
  <2>8. added' \in [Requests -> Nat]
    BY <2>4
  <2> QED
    BY <2>2, <2>4, <2>6, <2>7, <2>8
<1>5. CASE Delete(r)
  <2>1. orders' \in [Services -> [Wallets -> SUBSET Orders]]
    BY <1>1, <1>5 DEF Delete, removeWatcher
  <2>2. /\ stage' = [stage EXCEPT ![r] = stage'[r]]
        /\ stage'[r] \in {"ok", "notFound", "error"}
        /\ UNCHANGED <<serviceUrl, added>>
    BY <1>5 DEF Delete
  <2> QED
    BY <1>1, <2>1, <2>2
<1> QED
  BY <1>2, <1>3, <1>4, <1>5 DEF Handler

-----------------------------------------------------------------------------
(* Callback URLs. *)

\* A callback URL is replaced at most by another one.
LEMMA UrlStays ==
    ASSUME RegistryTypeOK, NEW r \in Requests, Handler(r),
           NEW s \in Services, serviceUrl[s] # NoUrl
    PROVE  serviceUrl'[s] # NoUrl
BY RequestTypes DEF RegistryTypeOK, Handler, CheckService, AddService, AddWatcher, Delete,
                    RequestFails, addService

\* Only an add that is at its addresses makes a service watch a wallet.
LEMMA WatchingGrows ==
    ASSUME RegistryTypeOK, NEW r \in Requests, Handler(r),
           NEW x \in Watching', x \notin Watching
    PROVE  AddWatcher(r) /\ x[1] = Service[r]
<1>1. /\ x[1] \in Services /\ x[2] \in Wallets
      /\ orders'[x[1]][x[2]] # {} /\ orders[x[1]][x[2]] = {}
  BY DEF Watching
<1>2. CASE AddWatcher(r)
  BY <1>1, <1>2 DEF AddWatcher, addWatcher, RegistryTypeOK
<1>3. CASE Delete(r)
  BY <1>1, <1>3 DEF Delete, removeWatcher, RegistryTypeOK
<1>4. CASE CheckService(r) \/ AddService(r) \/ RequestFails(r)
  BY <1>1, <1>4 DEF CheckService, AddService, RequestFails
<1> QED
  BY <1>2, <1>3, <1>4 DEF Handler

\* Watched wallets keep a callback URL, and adds at their addresses have one.
LEMMA UrlStep ==
    ASSUME RegistryInv, NEW r \in Requests, Handler(r)
    PROVE  WatchedHasUrl' /\ AddingHasUrl'
<1> USE DEF RegistryInv
<1>1. WatchedHasUrl'
  <2> SUFFICES ASSUME NEW x \in Watching' PROVE serviceUrl'[x[1]] # NoUrl
    BY DEF WatchedHasUrl
  <2>1. x[1] \in Services
    BY DEF Watching
  <2>2. CASE x \in Watching
    BY <2>1, <2>2, UrlStays DEF WatchedHasUrl
  <2>3. CASE x \notin Watching
    <3>1. AddWatcher(r) /\ x[1] = Service[r]
      BY <2>3, WatchingGrows
    <3> QED
      BY <2>1, <3>1, UrlStays DEF AddWatcher, Moves, AddingHasUrl
  <2> QED
    BY <2>2, <2>3
<1>2. AddingHasUrl'
  <2> SUFFICES ASSUME NEW q \in Requests, stage'[q] = "adding"
               PROVE  Kind[q] = "add" /\ serviceUrl'[Service[q]] # NoUrl
    BY DEF AddingHasUrl
  <2>1. Service[q] \in Services
    BY RequestTypes
  <2>2. CASE stage[q] = "adding"
    BY <2>1, <2>2, UrlStays DEF AddingHasUrl
  <2>3. CASE stage[q] # "adding"
    <3>1. q = r /\ (CheckService(r) \/ AddService(r))
      BY <2>3 DEF Handler, CheckService, AddService, AddWatcher, Delete, RequestFails, Moves,
                  RegistryTypeOK
    <3>2. CASE CheckService(r)
      BY <2>1, <3>1, <3>2 DEF CheckService, Moves, doesServiceExists, RegistryTypeOK
    <3>3. CASE AddService(r)
      BY <2>1, <3>1, <3>3, RequestTypes DEF AddService, addService, Moves, RegistryTypeOK
    <3> QED
      BY <3>1, <3>2, <3>3
  <2> QED
    BY <2>2, <2>3
<1> QED
  BY <1>1, <1>2

-----------------------------------------------------------------------------
(* Complete adds. *)

\* A delete that may have taken an order away has come to its end, and stays there.
LEMMA TakenAwayStays ==
    ASSUME RegistryTypeOK, NEW r \in Requests, Handler(r),
           NEW s, NEW a, NEW o, TakenAway(s, a, o)
    PROVE  TakenAway(s, a, o)'
<1>1. PICK d \in Requests : /\ Kind[d] = "delete" /\ stage[d] \in {"ok", "error"}
                           /\ IsAbout(d, s, o) /\ Addresses[d][1] = a
  BY DEF TakenAway
<1>2. stage'[d] = stage[d]
  BY <1>1 DEF Handler, CheckService, AddService, AddWatcher, Delete, RequestFails, Moves,
              RegistryTypeOK
<1> QED
  BY <1>1, <1>2 DEF TakenAway, IsAbout

\* An order disappears only by a delete that has ended, and appears only by an add.
LEMMA OrderMoves ==
    ASSUME RegistryTypeOK, NEW r \in Requests, Handler(r),
           NEW s \in Services, NEW a \in Wallets, NEW o \in Orders
    PROVE  /\ o \in orders[s][a] =>
                \/ o \in orders'[s][a]
                \/ TakenAway(s, a, o)' /\ Delete(r) /\ IsAbout(r, s, o)
                                     /\ Addresses[r][1] = a
           /\ o \notin orders[s][a] /\ o \in orders'[s][a] =>
                /\ AddWatcher(r) /\ IsAbout(r, s, o)
                /\ Addresses[r][added[r] + 1] = a
<1>1. CASE AddWatcher(r)
  <2>1. /\ Service[r] \in Services /\ added[r] + 1 \in 1..Len(Addresses[r])
        /\ Addresses[r][added[r] + 1] \in Wallets
    <3>1. added[r] \in 0..Len(Addresses[r]) /\ added[r] < Len(Addresses[r])
      BY <1>1 DEF AddWatcher, Moves, RegistryTypeOK
    <3> QED
      BY <3>1, RequestTypes
  <2> QED
    BY <1>1, <2>1 DEF AddWatcher, addWatcher, RegistryTypeOK, IsAbout
<1>2. CASE Delete(r)
  <2>1. Service[r] \in Services /\ Addresses[r][1] \in Wallets /\ Kind[r] = "delete"
    BY <1>2, RequestTypes DEF Delete, Moves
  <2>2. stage'[r] \in {"ok", "notFound", "error"}
    BY <1>2 DEF Delete, Moves, RegistryTypeOK
  <2>3. CASE IsAbout(r, s, o) /\ Addresses[r][1] = a /\ o \in orders[s][a]
    <3>1. stage'[r] # "notFound"
      BY <1>2, <2>3 DEF Delete, Moves, RegistryTypeOK, IsAbout
    <3>2. TakenAway(s, a, o)'
      BY <2>1, <2>2, <2>3, <3>1 DEF TakenAway, IsAbout
    <3> QED
      BY <1>2, <2>3, <3>2
  <2>4. CASE ~(IsAbout(r, s, o) /\ Addresses[r][1] = a /\ o \in orders[s][a])
    BY <1>2, <2>1, <2>4 DEF Delete, removeWatcher, RegistryTypeOK, IsAbout
  <2> QED
    BY <2>3, <2>4
<1>3. CASE CheckService(r) \/ AddService(r) \/ RequestFails(r)
  BY <1>3 DEF CheckService, AddService, RequestFails
<1> QED
  BY <1>1, <1>2, <1>3 DEF Handler

\* What an add has added stays accounted for, and it ends with everything added.
LEMMA SoFarStep ==
    ASSUME RegistryInv, NEW r \in Requests, Handler(r)
    PROVE  AddedSoFar'
<1> USE DEF RegistryInv
<1> SUFFICES ASSUME NEW q \in Requests
             PROVE  /\ \A k \in 1..added'[q] :
                         \/ Order[q] \in orders'[Service[q]][Addresses[q][k]]
                         \/ TakenAway(Service[q], Addresses[q][k], Order[q])'
                    /\ Kind[q] = "add" /\ stage'[q] = "ok" => added'[q] = Len(Addresses[q])
  BY DEF AddedSoFar
<1>1. RegistryTypeOK'
  BY HandlerType
<1>2. /\ Service[q] \in Services /\ Order[q] \in Orders /\ Len(Addresses[q]) \in Nat
      /\ \A k \in 1..Len(Addresses[q]) : Addresses[q][k] \in Wallets
  BY RequestTypes
<1>3. ASSUME NEW k \in 1..added'[q]
      PROVE  \/ Order[q] \in orders'[Service[q]][Addresses[q][k]]
             \/ TakenAway(Service[q], Addresses[q][k], Order[q])'
  <2>1. Addresses[q][k] \in Wallets
    BY <1>1, <1>2 DEF RegistryTypeOK
  <2>2. CASE k \in 1..added[q]
    <3>1. CASE Order[q] \in orders[Service[q]][Addresses[q][k]]
      BY <1>2, <2>1, <3>1, OrderMoves
    <3>2. CASE TakenAway(Service[q], Addresses[q][k], Order[q])
      BY <3>2, TakenAwayStays
    <3> QED
      BY <2>2, <3>1, <3>2 DEF AddedSoFar
  <2>3. CASE k \notin 1..added[q]
    <3>1. AddWatcher(r) /\ q = r /\ k = added[r] + 1
      BY <2>3 DEF Handler, CheckService, AddService, AddWatcher, Delete, RequestFails,
                  RegistryTypeOK
    <3> QED
      BY <1>2, <2>1, <3>1 DEF AddWatcher, addWatcher, RegistryTypeOK
  <2> QED
    BY <2>2, <2>3
<1>4. ASSUME Kind[q] = "add", stage'[q] = "ok"
      PROVE  added'[q] = Len(Addresses[q])
  <2>1. CASE stage[q] = "ok"
    <3>1. q # r \/ ~AddWatcher(r)
      BY <2>1 DEF AddWatcher, Moves
    <3>2. added'[q] = added[q]
      BY <3>1 DEF Handler, CheckService, AddService, AddWatcher, Delete, RequestFails,
                  RegistryTypeOK
    <3> QED
      BY <1>4, <2>1, <3>2 DEF AddedSoFar
  <2>2. CASE stage[q] # "ok"
    <3>1. q = r
      BY <1>4, <2>2 DEF Handler, CheckService, AddService, AddWatcher, Delete, RequestFails,
                        Moves, RegistryTypeOK
    <3>2. CASE CheckService(r) \/ AddService(r)
      BY <1>4, <3>1, <3>2 DEF CheckService, AddService, Moves, AfterAdding, RegistryTypeOK
    <3>3. CASE AddWatcher(r)
      BY <1>4, <3>1, <3>3 DEF AddWatcher, Moves, AfterAdding, RegistryTypeOK
    <3>4. CASE Delete(r) \/ RequestFails(r)
      BY <1>4, <3>1, <3>4 DEF Delete, RequestFails, Moves, RegistryTypeOK
    <3> QED
      BY <3>2, <3>3, <3>4 DEF Handler
  <2> QED
    BY <2>1, <2>2
<1> QED
  BY <1>3, <1>4

-----------------------------------------------------------------------------
(* As many deletes as adds. *)

\* The members of PutThere, as pairs.
LEMMA PutThereMembers ==
    ASSUME NEW s, NEW a, NEW o
    PROVE  \A x : x \in PutThere(s, a, o) <=>
              \E q \in Requests : \E k \in 1..added[q] :
                 x = <<q, k>> /\ IsAbout(q, s, o) /\ Addresses[q][k] = a
<1>1. ASSUME NEW x, x \in PutThere(s, a, o)
      PROVE  \E q \in Requests : \E k \in 1..added[q] :
                x = <<q, k>> /\ IsAbout(q, s, o) /\ Addresses[q][k] = a
  <2>1. PICK q \in Requests : x \in {q} \X (1..added[q])
    BY <1>1 DEF PutThere
  <2>2. IsAbout(x[1], s, o) /\ Addresses[x[1]][x[2]] = a
    BY <1>1 DEF PutThere
  <2> QED
    BY <2>1, <2>2
<1>2. ASSUME NEW q \in Requests, NEW k \in 1..added[q],
             IsAbout(q, s, o), Addresses[q][k] = a
      PROVE  <<q, k>> \in PutThere(s, a, o)
  <2>1. <<q, k>> \in UNION {{p} \X (1..added[p]) : p \in Requests}
    OBVIOUS
  <2> QED
    BY <1>2, <2>1 DEF PutThere
<1> QED
  BY <1>1, <1>2

\* An add at its next address puts the order there once; no other step does.
LEMMA PutThereStep ==
    ASSUME RegistryTypeOK, NEW r \in Requests, Handler(r), NEW s, NEW a, NEW o
    PROVE  PutThere(s, a, o)' =
             IF AddWatcher(r) /\ IsAbout(r, s, o) /\ Addresses[r][added[r] + 1] = a
               THEN PutThere(s, a, o) \cup {<<r, added[r] + 1>>}
               ELSE PutThere(s, a, o)
<1>1. \A x : x \in PutThere(s, a, o)' <=>
        \E q \in Requests : \E k \in 1..added'[q] :
           x = <<q, k>> /\ IsAbout(q, s, o) /\ Addresses[q][k] = a
  BY PutThereMembers DEF PutThere, IsAbout
<1>2. CASE AddWatcher(r)
  <2>1. added' = [added EXCEPT ![r] = added[r] + 1]
    BY <1>2 DEF AddWatcher
  <2>2. ASSUME NEW q \in Requests, NEW k
        PROVE  k \in 1..added'[q] <=> k \in 1..added[q] \/ (q = r /\ k = added[r] + 1)
    <3>1. added[q] \in Nat /\ added'[q] = IF q = r THEN added[q] + 1 ELSE added[q]
      BY <2>1 DEF RegistryTypeOK
    <3>2. CASE q = r
      <4>1. k \in 1..added[q] + 1 <=> k \in 1..added[q] \/ k = added[q] + 1
        BY <3>1
      <4> QED
        BY <3>1, <3>2, <4>1
    <3>3. CASE q # r
      BY <3>1, <3>3
    <3> QED
      BY <3>2, <3>3
  <2>3. ASSUME NEW x, x \in PutThere(s, a, o)'
        PROVE  \/ x \in PutThere(s, a, o)
               \/ /\ x = <<r, added[r] + 1>>
                  /\ IsAbout(r, s, o) /\ Addresses[r][added[r] + 1] = a
    <3>1. PICK q \in Requests : \E k \in 1..added'[q] :
             x = <<q, k>> /\ IsAbout(q, s, o) /\ Addresses[q][k] = a
      BY <1>1, <2>3
    <3>2. PICK k \in 1..added'[q] :
             x = <<q, k>> /\ IsAbout(q, s, o) /\ Addresses[q][k] = a
      BY <3>1
    <3> QED
      BY <2>2, <3>2, PutThereMembers
  <2>4. PutThere(s, a, o) \subseteq PutThere(s, a, o)'
    <3> SUFFICES ASSUME NEW x \in PutThere(s, a, o) PROVE x \in PutThere(s, a, o)'
      OBVIOUS
    <3>1. PICK q \in Requests : \E k \in 1..added[q] :
             x = <<q, k>> /\ IsAbout(q, s, o) /\ Addresses[q][k] = a
      BY PutThereMembers
    <3>2. PICK k \in 1..added[q] :
             x = <<q, k>> /\ IsAbout(q, s, o) /\ Addresses[q][k] = a
      BY <3>1
    <3> QED
      BY <1>1, <2>2, <3>2
  <2>5. IsAbout(r, s, o) /\ Addresses[r][added[r] + 1] = a
          => <<r, added[r] + 1>> \in PutThere(s, a, o)'
    BY <1>1, <2>2
  <2> QED
    BY <1>2, <2>3, <2>4, <2>5
<1>3. CASE ~AddWatcher(r)
  <2>1. added' = added
    BY <1>3 DEF Handler, CheckService, AddService, Delete, RequestFails
  <2>2. PutThere(s, a, o)' = PutThere(s, a, o)
    BY <2>1 DEF PutThere, IsAbout
  <2> QED
    BY <1>3, <2>2
<1> QED
  BY <1>2, <1>3

\* The deletes that succeeded become more by one at most, which took the order away.
LEMMA DeletedStep ==
    ASSUME RegistryTypeOK, NEW r \in Requests, Handler(r),
           NEW s \in Services, NEW a \in Wallets, NEW o \in Orders
    PROVE  \/ Deleted(s, a, o)' = Deleted(s, a, o)
           \/ /\ Deleted(s, a, o)' = Deleted(s, a, o) \cup {r}
              /\ Delete(r) /\ o \in orders[s][a] /\ o \notin orders'[s][a]
<1>1. \A q \in Requests : stage'[q] # stage[q] => q = r
  BY DEF Handler, CheckService, AddService, AddWatcher, Delete, RequestFails, Moves,
         RegistryTypeOK
<1>2. stage[r] # "ok"
  BY DEF Handler, CheckService, AddService, AddWatcher, Delete, RequestFails, Moves
<1>3. CASE Delete(r) /\ stage'[r] = "ok" /\ IsAbout(r, s, o) /\ Addresses[r][1] = a
  <2>1. o \in orders[s][a]
    BY <1>3 DEF Delete, Moves, IsAbout, RegistryTypeOK
  <2>2. o \notin orders'[s][a]
    BY <1>3 DEF Delete, removeWatcher, IsAbout, RegistryTypeOK
  <2>3. Deleted(s, a, o)' = Deleted(s, a, o) \cup {r}
    BY <1>1, <1>3 DEF Deleted, IsAbout, Delete, Moves
  <2> QED
    BY <1>3, <2>1, <2>2, <2>3
<1>4. CASE ~(Delete(r) /\ stage'[r] = "ok" /\ IsAbout(r, s, o) /\ Addresses[r][1] = a)
  <2>1. Kind[r] = "delete" /\ stage'[r] = "ok" => Delete(r)
    BY <1>2 DEF Handler, CheckService, AddService, AddWatcher, RequestFails, Moves, RegistryTypeOK
  <2>2. Deleted(s, a, o)' = Deleted(s, a, o)
    BY <1>1, <1>2, <1>4, <2>1 DEF Deleted, IsAbout
  <2> QED
    BY <2>2
<1> QED
  BY <1>3, <1>4

\* The balance of an order is kept.
LEMMA BalancedStep ==
    ASSUME RegistryInv, NEW r \in Requests, Handler(r)
    PROVE  AllBalanced'
<1> SUFFICES ASSUME NEW s \in Services, NEW a \in Wallets, NEW o \in Orders
             PROVE  Balanced(s, a, o)'
  BY DEF AllBalanced
<1> DEFINE D  == Deleted(s, a, o)
           P  == PutThere(s, a, o)
           in == IF o \in orders[s][a] THEN 1 ELSE 0
<1> USE DEF RegistryInv
<1>1. /\ IsFiniteSet(D) /\ IsFiniteSet(P) /\ Cardinality(D) + in <= Cardinality(P)
      /\ Cardinality(D) \in Nat /\ Cardinality(P) \in Nat
  BY FS_CardinalityType DEF AllBalanced, Balanced
<1>2. CASE AddWatcher(r) /\ IsAbout(r, s, o) /\ Addresses[r][added[r] + 1] = a
  <2>1. P' = P \cup {<<r, added[r] + 1>>}
    BY <1>2, PutThereStep
  <2>2. <<r, added[r] + 1>> \notin P
    BY PutThereMembers DEF RegistryTypeOK
  <2>3. IsFiniteSet(P') /\ Cardinality(P') = Cardinality(P) + 1
    <3>1. /\ IsFiniteSet(P \cup {<<r, added[r] + 1>>})
          /\ Cardinality(P \cup {<<r, added[r] + 1>>}) = Cardinality(P) + 1
      BY <1>1, <2>2, FS_AddElement
    <3> QED
      BY <2>1, <3>1
  <2>4. D' = D
    BY <1>2, DeletedStep DEF AddWatcher, Delete, Moves
  <2>5. Cardinality(D') + in' <= Cardinality(P')
    BY <1>1, <2>3, <2>4
  <2> QED
    BY <1>1, <2>3, <2>4, <2>5 DEF Balanced
<1>3. CASE ~(AddWatcher(r) /\ IsAbout(r, s, o) /\ Addresses[r][added[r] + 1] = a)
  <2>1. P' = P
    BY <1>3, PutThereStep
  <2>2. in' <= in
    BY <1>3, OrderMoves
  <2>3. CASE D' = D
    <3>1. Cardinality(D') + in' <= Cardinality(P')
      BY <1>1, <2>1, <2>2, <2>3
    <3> QED
      BY <1>1, <2>1, <2>3, <3>1 DEF Balanced
  <2>4. CASE D' = D \cup {r} /\ o \in orders[s][a] /\ o \notin orders'[s][a]
    <3>1. IsFiniteSet(D') /\ Cardinality(D') \in Nat /\ Cardinality(D') <= Cardinality(D) + 1
      <4>1. /\ IsFiniteSet(D \cup {r})
            /\ Cardinality(D \cup {r}) = IF r \in D THEN Cardinality(D) ELSE Cardinality(D) + 1
        BY <1>1, FS_AddElement
      <4>2. Cardinality(D \cup {r}) \in Nat /\ Cardinality(D \cup {r}) <= Cardinality(D) + 1
        BY <1>1, <4>1
      <4> QED
        BY <2>4, <4>1, <4>2
    <3>2. Cardinality(D') + in' <= Cardinality(P')
      BY <1>1, <2>1, <2>4, <3>1
    <3> QED
      BY <1>1, <2>1, <3>1, <3>2 DEF Balanced
  <2> QED
    BY <2>3, <2>4, DeletedStep
<1> QED
  BY <1>2, <1>3

-----------------------------------------------------------------------------
(* The invariant. *)

\* The empty registry satisfies the invariant.
LEMMA RegistryInvInit == RegistryInit => RegistryInv
<1> SUFFICES ASSUME RegistryInit PROVE RegistryInv
  OBVIOUS
<1>1. RegistryTypeOK
  BY RegistryTypeInit
<1>2. WatchedHasUrl /\ AddingHasUrl /\ AddedSoFar
  BY DEF RegistryInit, WatchedHasUrl, Watching, AddingHasUrl, AddedSoFar
<1>3. ASSUME NEW s \in Services, NEW a \in Wallets, NEW o \in Orders
      PROVE  Balanced(s, a, o)
  <2>1. Deleted(s, a, o) = {}
    BY DEF RegistryInit, Deleted
  <2>2. PutThere(s, a, o) = {}
    BY PutThereMembers DEF RegistryInit
  <2>3. o \notin orders[s][a]
    BY DEF RegistryInit
  <2> QED
    BY <2>1, <2>2, <2>3, FS_EmptySet DEF Balanced
<1> QED
  BY <1>1, <1>2, <1>3 DEF RegistryInv, AllBalanced

\* Every step of every request keeps it.
LEMMA RegistryInvStep ==
    ASSUME RegistryInv, NEW r \in Requests, Handler(r)
    PROVE  RegistryInv'
<1>1. RegistryTypeOK'
  BY HandlerType DEF RegistryInv
<1> QED
  BY <1>1, UrlStep, SoFarStep, BalancedStep DEF RegistryInv

\* What changes none of its variables keeps it, too.
LEMMA RegistryInvStutter ==
    ASSUME RegistryInv, UNCHANGED rvars
    PROVE  RegistryInv'
<1>1. RegistryTypeOK' /\ WatchedHasUrl' /\ AddingHasUrl'
  BY DEF RegistryInv, rvars, RegistryTypeOK, WatchedHasUrl, Watching, AddingHasUrl
<1>2. AddedSoFar'
  BY DEF RegistryInv, rvars, AddedSoFar, TakenAway, IsAbout
<1>3. ASSUME NEW s \in Services, NEW a \in Wallets, NEW o \in Orders
      PROVE  Balanced(s, a, o)'
  <2>1. Deleted(s, a, o)' = Deleted(s, a, o) /\ PutThere(s, a, o)' = PutThere(s, a, o)
    BY DEF rvars, Deleted, PutThere, IsAbout
  <2>2. Balanced(s, a, o)
    BY DEF RegistryInv, AllBalanced
  <2> QED
    BY <2>1, <2>2 DEF Balanced, rvars
<1> QED
  BY <1>1, <1>2, <1>3 DEF RegistryInv, AllBalanced

\* The properties follow from the invariant.
LEMMA RegistryInvImplies == RegistryInv => AddedIsWatched /\ DeletedWasWatched
<1> SUFFICES ASSUME RegistryInv PROVE AddedIsWatched /\ DeletedWasWatched
  OBVIOUS
<1>1. AddedIsWatched
  <2> SUFFICES ASSUME NEW r \in Requests, Kind[r] = "add", stage[r] = "ok",
                      NEW k \in DOMAIN Addresses[r]
               PROVE  \/ Order[r] \in orders[Service[r]][Addresses[r][k]]
                      \/ TakenAway(Service[r], Addresses[r][k], Order[r])
    BY DEF AddedIsWatched, TakenAway, IsAbout
  <2>1. k \in 1..added[r]
    BY RequestTypes DEF RegistryInv, AddedSoFar
  <2> QED
    BY <2>1 DEF RegistryInv, AddedSoFar
<1>2. DeletedWasWatched
  <2> SUFFICES ASSUME NEW s \in Services, NEW a \in Wallets, NEW o \in Orders
               PROVE  Cardinality(Deleted(s, a, o)) <= Cardinality(PutThere(s, a, o))
    BY DEF DeletedWasWatched
  <2>1. Balanced(s, a, o)
    BY DEF RegistryInv, AllBalanced
  <2>2. /\ Cardinality(Deleted(s, a, o)) \in Nat /\ Cardinality(PutThere(s, a, o)) \in Nat
    BY <2>1, FS_CardinalityType DEF Balanced
  <2> QED
    BY <2>1, <2>2 DEF Balanced
<1> QED
  BY <1>1, <1>2
=============================================================================
