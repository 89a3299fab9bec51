-------------------------- MODULE CallbackDelivery --------------------------
(***************************************************************************)
(* The last leg: a worker runs a PaymentCallback or WalletCreatedCallback  *)
(* job (WorkerApp.run), CallbackCaller.call posts it to the callback URL   *)
(* with an axios client that retries, and whatever happens is swallowed.   *)
(* The client sends a POST again only after a network error that may pass, *)
(* never after a response or a timeout. Neither that error nor a timeout   *)
(* tells whether the requester has received the request.                   *)
(***************************************************************************)
EXTENDS Naturals

CONSTANTS
    Jobs, Workers, MaxStalled, NoWorker,   \* see JobQueue
    NoJob,
    Retries,   \* retries of axiosRetry
    Faults     \* "crash", "stall", as in Payments

ASSUME DeliveryAssumption ==
    /\ NoJob \notin Jobs /\ NoWorker \notin Workers
    /\ Retries \in Nat /\ MaxStalled \in Nat
    /\ Faults \subseteq {"crash", "stall"}

VARIABLES
    status, runner, stalls,   \* the queue (JobQueue)
    at,         \* at[w]: where worker w is
    run,        \* run[w]: the job w runs, its delivery and how often it sent its request again
    heard,      \* heard[d]: how many requests the requester has received of delivery d
    vain        \* the jobs of which a request ended without a response

Queue == INSTANCE JobQueue

queueVars == <<status, runner, stalls>>
vars == <<queueVars, at, run, heard, vain>>

NoRun == [job |-> NoJob, attempt |-> 0, retry |-> 0]

Run == [job : Jobs \cup {NoJob}, attempt : 0..MaxStalled, retry : 0..Retries]

\* A job, and how often it was handed out before.
Deliveries == Jobs \X (0..MaxStalled)

Delivery(w) == <<run[w].job, run[w].attempt>>

\* Every delivery of a job sends its request at most this often.
MaxSent == Retries + 1

\* Bound: heard is not counted beyond this number.
MaxHeard == MaxSent + 1

DeliveryTypeOK ==
    /\ Queue!QueueTypeOK
    /\ at \in [Workers -> {"idle", "sending", "sent", "finishing"}]
    /\ run \in [Workers -> Run]
    /\ heard \in [Deliveries -> 0..MaxHeard]
    /\ vain \subseteq Jobs

Init ==
    /\ Queue!QueueInit
    /\ at = [w \in Workers |-> "idle"]
    /\ run = [w \in Workers |-> NoRun]
    /\ heard = [d \in Deliveries |-> 0]
    /\ vain = {}

-----------------------------------------------------------------------------
\* enqueuePaymentCallback, enqueueWalletCreatedCallback and their failed twins.
Enqueue(j) ==
    /\ Queue!Add(j)
    /\ UNCHANGED <<at, run, heard, vain>>

Goes(w, from, to) ==
    /\ at[w] = from
    /\ at' = [at EXCEPT ![w] = to]

\* Variant for the mutation check: a type that the switch of the job processor forgets.
StartUnhandled(w, j) ==
    /\ Goes(w, "idle", "finishing")
    /\ Queue!Take(w, j)
    /\ run' = [run EXCEPT ![w] = [job |-> j, attempt |-> stalls[j], retry |-> 0]]
    /\ UNCHANGED <<heard, vain>>

\* The job processor calls CallbackCaller.call, which posts.
Start(w, j) ==
    /\ Goes(w, "idle", "sending")
    /\ Queue!Take(w, j)
    /\ run' = [run EXCEPT ![w] = [job |-> j, attempt |-> stalls[j], retry |-> 0]]
    /\ UNCHANGED <<heard, vain>>

\* The requester receives the request.
Reach(w) ==
    /\ Goes(w, "sending", "sent")
    /\ heard' = [heard EXCEPT ![Delivery(w)] = IF @ < MaxHeard THEN @ + 1 ELSE @]
    /\ UNCHANGED <<queueVars, run, vain>>

\* There is a response, of whatever status. An error is caught, and call returns.
Respond(w) ==
    /\ Goes(w, "sent", "finishing")
    /\ UNCHANGED <<queueVars, run, heard, vain>>

\* Bookkeeping of a request that ends without a response, received or not.
Errs(w) ==
    /\ at[w] \in {"sending", "sent"}
    /\ vain' = vain \cup {run[w].job}

\* A timeout, or an error that no retry would mend. It is caught, and call returns.
TimeOut(w) ==
    /\ Errs(w)
    /\ at' = [at EXCEPT ![w] = "finishing"]
    /\ UNCHANGED <<queueVars, run, heard>>

\* Variant for the mutation check: the retries are not counted.
NetworkErrorUncounted(w) ==
    /\ Errs(w)
    /\ at' = [at EXCEPT ![w] = "sending"]
    /\ UNCHANGED <<queueVars, run, heard>>

\* Variant for the mutation check: one retry too many.
NetworkErrorOnceMore(w) ==
    /\ Errs(w)
    /\ IF run[w].retry <= Retries
         THEN /\ at' = [at EXCEPT ![w] = "sending"]
              /\ run' = [run EXCEPT ![w].retry = @ + 1]
         ELSE /\ at' = [at EXCEPT ![w] = "finishing"]
              /\ UNCHANGED run
    /\ UNCHANGED <<queueVars, heard>>

\* A network error: axios-retry sends the request again, up to Retries times.
NetworkError(w) ==
    /\ Errs(w)
    /\ IF run[w].retry < Retries
         THEN /\ at' = [at EXCEPT ![w] = "sending"]
              /\ run' = [run EXCEPT ![w].retry = @ + 1]
         ELSE /\ at' = [at EXCEPT ![w] = "finishing"]
              /\ UNCHANGED run
    /\ UNCHANGED <<queueVars, heard>>

\* done(): call never throws.
Finish(w) ==
    /\ Goes(w, "finishing", "idle")
    /\ Queue!Finish(w, run[w].job, "completed")
    /\ run' = [run EXCEPT ![w] = NoRun]
    /\ UNCHANGED <<heard, vain>>

-----------------------------------------------------------------------------
(* The environment. *)

\* The worker's process dies and a new one takes its place.
Crash(w) ==
    /\ "crash" \in Faults
    /\ at[w] # "idle"
    /\ at' = [at EXCEPT ![w] = "idle"]
    /\ run' = [run EXCEPT ![w] = NoRun]
    /\ UNCHANGED <<queueVars, heard, vain>>

Running(j) == \E w \in Workers : runner[j] = w /\ run[w].job = j

\* Bull hands out j again.
Redeliver(j) ==
    /\ Running(j) => "stall" \in Faults
    /\ Queue!Requeue(j)
    /\ UNCHANGED <<at, run, heard, vain>>

AtRest ==
    /\ \A j \in Jobs : status[j] \in {"completed", "failed"}
    /\ \A w \in Workers : at[w] = "idle"
    /\ UNCHANGED vars

Work(w) == Reach(w) \/ Respond(w) \/ TimeOut(w) \/ NetworkError(w) \/ Finish(w)

Next ==
    \/ \E j \in Jobs : Enqueue(j) \/ Redeliver(j)
    \/ \E w \in Workers : Work(w) \/ Crash(w)
    \/ \E w \in Workers, j \in Jobs : Start(w, j)
    \/ AtRest

Spec == Init /\ [][Next]_vars

\* Requests end, if only by the timeout; free workers take waiting jobs, and Bull looks
\* for stalled jobs.
LiveSpec ==
    /\ Spec
    /\ \A w \in Workers : WF_vars(Work(w))
    /\ \A j \in Jobs : /\ WF_vars(\E w \in Workers : Start(w, j))
                       /\ WF_vars(~Running(j) /\ Redeliver(j))

-----------------------------------------------------------------------------
(* Properties. *)

\* A requester hears of one callback job at most MaxSent times for each of its deliveries,
\* also when two workers are at it at once (axiosRetry counts per call, Bull per job).
HeardIsBounded ==
    \A d \in Deliveries : heard[d] <= IF d[2] <= stalls[d[1]] THEN MaxSent ELSE 0

Unheard(j) == \A k \in 0..MaxStalled : heard[<<j, k>>] = 0

\* A job that completed and was never heard of has at least been tried in vain: call
\* returns whatever happened, so done() alone does not tell (CallbackCaller.call).
UnheardWasTried ==
    \A j \in Jobs : status[j] = "completed" /\ Unheard(j) => j \in vain

\* Every callback job comes to an end, whatever the requester's server does, and from
\* then on the requester is left alone.
CallsEnd ==
    \A j \in Jobs : status[j] = "waiting" ~>
        [](status[j] \in {"completed", "failed"} /\ \A w \in Workers : run[w].job # j)
=============================================================================
