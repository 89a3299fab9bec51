--------------------------- MODULE WatcherRegistry ---------------------------
(***************************************************************************)
(* Who watches which wallet: POST and DELETE /watchers/:service_id         *)
(* (WatcherService) and the keys RedisDb keeps for them. Handlers of       *)
(* different requests interleave at every await. A delete does not await   *)
(* its test for the service, so it goes straight to removeWatcher.         *)
(***************************************************************************)
EXTENDS Naturals, Sequences, FiniteSets

CONSTANTS
    Services, Wallets, Orders,
    Requests,
    Kind,       \* Kind[r]: "add" or "delete"
    Service,    \* Service[r]: service_id
    Addresses,  \* Addresses[r]: wallet_addresses, or the one wallet_address of a delete
    Order,      \* Order[r]: order_id
    NoUrl,      \* null value: no key "service:<service>"
    RedisFails  \* whether Redis commands may fail

ASSUME RegistryAssumption ==
    /\ Kind \in [Requests -> {"add", "delete"}]
    /\ Service \in [Requests -> Services]
    /\ Addresses \in [Requests -> Seq(Wallets)]
    /\ \A r \in Requests : Kind[r] = "delete" => Len(Addresses[r]) = 1
    /\ Order \in [Requests -> Orders]
    /\ NoUrl \notin Requests
    /\ RedisFails \in BOOLEAN

VARIABLES
    orders,     \* orders[s][a]: the Redis set "<s>:<a>"; Redis has no empty sets
    serviceUrl, \* serviceUrl[s]: the request whose callback URL is in "service:<s>"
    stage,      \* stage[r]: how far request r is
    added       \* added[r]: how many addresses r has added

rvars == <<orders, serviceUrl, stage, added>>

RegistryTypeOK ==
    /\ orders \in [Services -> [Wallets -> SUBSET Orders]]
    /\ serviceUrl \in [Services -> Requests \cup {NoUrl}]
    /\ stage \in [Requests -> {"unsent", "noService", "adding", "ok", "notFound", "error"}]
    /\ added \in [Requests -> Nat]
    /\ \A r \in Requests : /\ added[r] \in 0..Len(Addresses[r])
                           /\ stage[r] = "adding" => added[r] < Len(Addresses[r])
                           /\ stage[r] \in {"unsent", "noService"} => added[r] = 0

RegistryInit ==
    /\ orders = [s \in Services |-> [a \in Wallets |-> {}]]
    /\ serviceUrl = [s \in Services |-> NoUrl]
    /\ stage = [r \in Requests |-> "unsent"]
    /\ added = [r \in Requests |-> 0]

-----------------------------------------------------------------------------
(* RedisDb. *)

doesServiceExists(s) == serviceUrl[s] # NoUrl

addService(s, url) == serviceUrl' = [serviceUrl EXCEPT ![s] = url]

addWatcher(s, a, o) == orders' = [orders EXCEPT ![s][a] = @ \cup {o}]

removeWatcher(s, a, o) == orders' = [orders EXCEPT ![s][a] = @ \ {o}]

\* The keys "*:G*" and "*:<address>" that exist.
Watching == {x \in Services \X Wallets : orders[x[1]][x[2]] # {}}

getAllWatchedAddresses == {x[2] : x \in Watching}

\* Variant for the mutation check: the pattern of the keys is not confined to the address.
getServicesOfAll(a) == {x[1] : x \in Watching}

getServicesByWatchedAddress(a) == {s \in Services : <<s, a>> \in Watching}

-----------------------------------------------------------------------------
(* WatcherService.addWatcher *)

\* Request r goes on, or is answered 500 because the reply of Redis got lost.
Moves(r, kind, from, to) ==
    /\ Kind[r] = kind
    /\ stage[r] = from
    /\ \/ stage' = [stage EXCEPT ![r] = to]
       \/ RedisFails /\ stage' = [stage EXCEPT ![r] = "error"]

\* Variant for the mutation check: the loop ends one address too early.
AfterAddingTooFew(r, n) == IF n + 1 >= Len(Addresses[r]) THEN "ok" ELSE "adding"

\* Variant for the mutation check: the loop goes on past the last address.
AfterAddingTooMany(r, n) == IF n > Len(Addresses[r]) THEN "ok" ELSE "adding"

\* The loop over the addresses is over after n of them.
AfterAdding(r, n) == IF n = Len(Addresses[r]) THEN "ok" ELSE "adding"

\* Variant for the mutation check: an unknown service is not stored first.
CheckServiceOnly(r) ==
    /\ Moves(r, "add", "unsent", AfterAdding(r, 0))
    /\ UNCHANGED <<orders, serviceUrl, added>>

\* await doesServiceExists
CheckService(r) ==
    /\ Moves(r, "add", "unsent",
             IF doesServiceExists(Service[r]) THEN AfterAdding(r, 0) ELSE "noService")
    /\ UNCHANGED <<orders, serviceUrl, added>>

\* await addService: the URL of whoever writes last.
AddService(r) ==
    /\ Moves(r, "add", "noService", AfterAdding(r, 0))
    /\ addService(Service[r], r)
    /\ UNCHANGED <<orders, added>>

\* await addWatcher, for the next address.
AddWatcher(r) ==
    /\ Moves(r, "add", "adding", AfterAdding(r, added[r] + 1))
    /\ addWatcher(Service[r], Addresses[r][added[r] + 1], Order[r])
    /\ added' = [added EXCEPT ![r] = @ + 1]
    /\ UNCHANGED serviceUrl

-----------------------------------------------------------------------------
(* WatcherService.deleteWatcher *)

\* Variant for the mutation check: the result of the removal is not looked at.
DeleteBlindly(r) ==
    /\ Moves(r, "delete", "unsent", "ok")
    /\ removeWatcher(Service[r], Addresses[r][1], Order[r])
    /\ UNCHANGED <<serviceUrl, added>>

\* Variant for the mutation check: the count of removed members is never what is expected.
DeleteInVain(r) ==
    /\ Moves(r, "delete", "unsent", "notFound")
    /\ removeWatcher(Service[r], Addresses[r][1], Order[r])
    /\ UNCHANGED <<serviceUrl, added>>

\* 404 if the order was not there.
Delete(r) ==
    /\ Moves(r, "delete", "unsent",
             IF Order[r] \in orders[Service[r]][Addresses[r][1]] THEN "ok" ELSE "notFound")
    /\ removeWatcher(Service[r], Addresses[r][1], Order[r])
    /\ UNCHANGED <<serviceUrl, added>>

\* A Redis command fails before it takes effect: 500. What was done stays done.
RequestFails(r) ==
    /\ RedisFails
    /\ stage[r] \in {"unsent", "noService", "adding"}
    /\ stage' = [stage EXCEPT ![r] = "error"]
    /\ UNCHANGED <<orders, serviceUrl, added>>

\* The next step of the handler of r.
Handler(r) == CheckService(r) \/ AddService(r) \/ AddWatcher(r) \/ Delete(r) \/ RequestFails(r)

RegistryNext == \E r \in Requests : Handler(r)

-----------------------------------------------------------------------------
(* Properties. *)

\* Whoever watches a wallet has a callback URL to be told at (addWatcher: the service is
\* stored before its watchers, whatever fails in between; WatcherProcessor relies on it).
WatchedHasUrl == \A x \in Watching : serviceUrl[x[1]] # NoUrl

\* An order stays watched at every address of an add that was answered 200, until a delete
\* takes it, perhaps one whose reply got lost (addWatcher: the loop; deletes and other adds
\* of the service interleave).
AddedIsWatched ==
    \A r \in Requests : Kind[r] = "add" /\ stage[r] = "ok" =>
        \A k \in DOMAIN Addresses[r] :
            \/ Order[r] \in orders[Service[r]][Addresses[r][k]]
            \/ \E d \in Requests :
                 /\ Kind[d] = "delete" /\ stage[d] \in {"ok", "error"}
                 /\ Service[d] = Service[r] /\ Order[d] = Order[r]
                 /\ Addresses[d][1] = Addresses[r][k]

\* Request r is about order o of service s.
IsAbout(r, s, o) == Service[r] = s /\ Order[r] = o

\* The deletes of that order at address a that were answered 200.
Deleted(s, a, o) ==
    {d \in Requests : Kind[d] = "delete" /\ stage[d] = "ok" /\ IsAbout(d, s, o)
                        /\ Addresses[d][1] = a}

\* The requests that put it there, with the place in their lists.
PutThere(s, a, o) ==
    {x \in UNION {{q} \X (1..added[q]) : q \in Requests} :
        IsAbout(x[1], s, o) /\ Addresses[x[1]][x[2]] = a}

\* Of the deletes of one order not more are answered 200 than adds put it there
\* (removeWatcher: what is gone already is reported as not found).
DeletedWasWatched ==
    \A s \in Services, a \in Wallets, o \in Orders :
        Cardinality(Deleted(s, a, o)) <= Cardinality(PutThere(s, a, o))
=============================================================================
