------------------------------ MODULE WebServer ------------------------------
(***************************************************************************)
(* The process of the web API (server.ts, PaymentApp): it starts, listens, *)
(* stops on a signal once its open requests are answered, or dies, and is  *)
(* started again. Composed with the requests whose handlers have several   *)
(* awaits, those to the registry of watchers: what they have done when     *)
(* they are cut off stays in Redis.                                        *)
(***************************************************************************)
EXTENDS WatcherRegistry

CONSTANTS
    MaxStops,    \* bound: how often the server is stopped or fails to start
    MaxCrashes   \* bound: how often it dies

ASSUME ServerAssumption == MaxStops \in Nat /\ MaxCrashes \in Nat

VARIABLES
    server,    \* "starting", "listening", "closing" or "down"
    cut,       \* the requests whose handler died with the process
    stops,     \* how often the server was stopped or did not start
    crashes    \* how often it died

serverVars == <<server, cut, stops, crashes>>
vars == <<rvars, serverVars>>

ServerTypeOK ==
    /\ RegistryTypeOK
    /\ server \in {"starting", "listening", "closing", "down"}
    /\ cut \subseteq Requests
    /\ stops \in 0..MaxStops
    /\ crashes \in 0..MaxCrashes

Init ==
    /\ RegistryInit
    /\ server = "starting"
    /\ cut = {}
    /\ stops = 0 /\ crashes = 0

-----------------------------------------------------------------------------
\* Requests are served until the process ends: while it closes on connections that are
\* open already.
Up == server \in {"listening", "closing"}

\* A request comes, or its handler goes on.
Serve(r) ==
    /\ Up
    /\ r \notin cut
    /\ Handler(r)
    /\ UNCHANGED serverVars

\* The handlers that were called and have not answered.
Busy == {r \in Requests \ cut : stage[r] \in {"noService", "adding"}}

\* app.init, createExpress, listen; "listening" installs the handlers of the signals.
Listen ==
    /\ server = "starting"
    /\ server' = "listening"
    /\ UNCHANGED <<rvars, cut, stops, crashes>>

\* The process is gone, and with it the handlers that were under way.
Down ==
    /\ server' = "down"
    /\ cut' = cut \cup Busy
    /\ UNCHANGED rvars

\* The port is taken or not allowed, init fails, or a signal comes before its handler.
StartFails ==
    /\ server = "starting"
    /\ stops < MaxStops
    /\ stops' = stops + 1
    /\ Down
    /\ UNCHANGED crashes

\* Variant for the mutation check: the process does not wait for server.close.
CleanupAtOnce ==
    /\ server = "listening"
    /\ stops < MaxStops
    /\ stops' = stops + 1
    /\ Down
    /\ UNCHANGED crashes

\* SIGINT or SIGTERM: server.close takes no more connections. A second signal adds nothing.
Cleanup ==
    /\ server = "listening"
    /\ stops < MaxStops
    /\ stops' = stops + 1
    /\ server' = "closing"
    /\ UNCHANGED <<rvars, cut, crashes>>

\* Variant for the mutation check: nothing ends the process, which Redis keeps alive.
CloseOnly == server = "closing" /\ Busy = {} /\ UNCHANGED vars

\* The callback of server.close: every connection has ended. process.exit(0).
Exit ==
    /\ server = "closing"
    /\ Busy = {}
    /\ Down
    /\ UNCHANGED <<stops, crashes>>

\* The process is killed, or an error is thrown that nobody catches.
Crash ==
    /\ Up
    /\ crashes < MaxCrashes
    /\ crashes' = crashes + 1
    /\ Down
    /\ UNCHANGED stops

\* Whatever runs the service starts it again.
Restart ==
    /\ server = "down"
    /\ server' = "starting"
    /\ UNCHANGED <<rvars, cut, stops, crashes>>

\* Every request has come and was answered or cut off.
AtRest ==
    /\ server = "listening"
    /\ \A r \in Requests \ cut : stage[r] \in {"ok", "notFound", "error"}
    /\ UNCHANGED vars

Next ==
    \/ \E r \in Requests : Serve(r)
    \/ Listen \/ StartFails \/ Cleanup \/ Exit \/ Crash \/ Restart
    \/ AtRest

Spec == Init /\ [][Next]_vars

\* Handlers that were called go on, and a process that nothing holds any more exits.
LiveSpec ==
    /\ Spec
    /\ \A r \in Requests : WF_vars(r \in Busy /\ Serve(r))
    /\ WF_vars(Exit)

-----------------------------------------------------------------------------
(* Properties; and those of WatcherRegistry. *)

\* A server that is told to stop finishes what it was asked: no handler is cut off half way
\* through its addresses unless the process crashes (cleanup: exit in the callback of close).
StopCutsNothing == cut # {} => crashes > 0

\* A server that is told to stop does stop, even if Redis fails its last requests
\* (GeneralErrorMiddleware answers them all; cleanup exits although Redis is connected).
StopEnds == server = "closing" ~> server = "down"

\* The list of the watchers as its contract speaks of it.
Contract ==
    INSTANCE WatchlistContract WITH
        watched <- {x \in Services \X Wallets \X Orders : x[3] \in orders[x[1]][x[2]]},
        known <- {s \in Services : serviceUrl[s] # NoUrl},
        put <- added,
        answer <- [r \in Requests |->
                      IF stage[r] \in {"unsent", "noService", "adding"} THEN "none"
                                                                      ELSE stage[r]]

\* However requests interleave and wherever they fail or are cut off, each of their steps takes
\* effect at one moment and their answers are true of it (addWatcher, deleteWatcher); a server
\* that stops, dies and starts again changes neither list nor answers (server.ts).
KeepsContract == Contract!Spec
=============================================================================
