----------------------- MODULE CallbackDeliveryProofs -----------------------
(***************************************************************************)
(* Proofs about CallbackDelivery: type correctness, how often a requester  *)
(* hears of a callback, and that a callback which completes was at least   *)
(* tried, for every set of jobs and workers, every number of deliveries    *)
(* and retries, and every combination of faults.                           *)
(***************************************************************************)
EXTENDS CallbackDelivery, TLAPS

USE DeliveryAssumption

\* A busy worker runs a delivery of a job that the queue has handed out.
RunsDelivery ==
    \A w \in Workers : at[w] # "idle" =>
        /\ run[w].job \in Jobs
        /\ status[run[w].job] # "new"
        /\ run[w].attempt <= stalls[run[w].job]

\* A job that waits has a delivery before it that no worker runs and no requester heard of.
WaitingIsFresh ==
    \A j \in Jobs : status[j] \in {"new", "waiting"} =>
        /\ heard[<<j, stalls[j]>>] = 0
        /\ \A w \in Workers : at[w] # "idle" /\ run[w].job = j => run[w].attempt < stalls[j]

\* No two workers run one delivery.
OneWorkerEach ==
    \A w, v \in Workers :
        /\ at[w] # "idle" /\ at[v] # "idle"
        /\ run[w].job = run[v].job /\ run[w].attempt = run[v].attempt
        => w = v

\* A worker sends again only after one more error.
HeardByRetries ==
    \A w \in Workers : at[w] # "idle" =>
        heard[Delivery(w)] <=
            IF at[w] = "sending" THEN run[w].retry ELSE run[w].retry + 1

\* A request that was sent was heard, a call that is over was heard or in vain.
SentOrVain ==
    \A w \in Workers :
        /\ at[w] = "sent" => heard[Delivery(w)] # 0
        /\ at[w] = "finishing" =>
               heard[Delivery(w)] # 0 \/ run[w].job \in vain

DeliveryInv ==
    /\ DeliveryTypeOK
    /\ RunsDelivery
    /\ WaitingIsFresh
    /\ OneWorkerEach
    /\ HeardByRetries
    /\ SentOrVain
    /\ HeardIsBounded
    /\ UnheardWasTried

-----------------------------------------------------------------------------
(* The state is well formed, and what each step does. *)

\* What a worker runs.
LEMMA RunType ==
    ASSUME DeliveryTypeOK, NEW w \in Workers
    PROVE  /\ run[w] \in Run
           /\ run[w].job \in Jobs \cup {NoJob}
           /\ run[w].attempt \in 0..MaxStalled
           /\ run[w].retry \in 0..Retries
BY DEF DeliveryTypeOK, Run

\* The queue is well formed.
LEMMA QueueType ==
    ASSUME DeliveryTypeOK, NEW j \in Jobs
    PROVE  /\ status[j] \in Queue!Statuses
           /\ stalls[j] \in 0..MaxStalled
           /\ stalls \in [Jobs -> 0..MaxStalled]
           /\ heard \in [Deliveries -> 0..MaxHeard]
           /\ \A k \in 0..MaxStalled : heard[<<j, k>>] \in Nat
           /\ MaxStalled \in Nat
<1>1. /\ status \in [Jobs -> Queue!Statuses] /\ stalls \in [Jobs -> 0..MaxStalled]
      /\ heard \in [Deliveries -> 0..MaxHeard] /\ MaxHeard \in Nat /\ MaxStalled \in Nat
  BY DEF DeliveryTypeOK, Queue!QueueTypeOK, MaxHeard, MaxSent
<1>2. \A k \in 0..MaxStalled : <<j, k>> \in Deliveries
  BY DEF Deliveries
<1>3. \A d \in Deliveries : heard[d] \in Nat
  BY <1>1
<1> QED
  BY <1>1, <1>2, <1>3

\* The delivery that a busy worker runs.
LEMMA DeliveryType ==
    ASSUME DeliveryInv, NEW w \in Workers, at[w] # "idle"
    PROVE  /\ run[w].job \in Jobs /\ run[w].attempt \in 0..stalls[run[w].job]
           /\ Delivery(w) \in Deliveries
           /\ heard[Delivery(w)] \in Nat
           /\ run[w].retry \in 0..Retries
<1>1. DeliveryTypeOK /\ RunsDelivery
  BY DEF DeliveryInv
<1> QED
  BY <1>1, RunType, QueueType DEF RunsDelivery, Deliveries, Delivery

\* A request ends: the worker stays with its delivery.
LEMMA SendingMoves ==
    ASSUME DeliveryInv, NEW w \in Workers,
           Reach(w) \/ Respond(w) \/ TimeOut(w) \/ NetworkError(w)
    PROVE  /\ UNCHANGED queueVars
           /\ \A v \in Workers : v # w => at'[v] = at[v] /\ run'[v] = run[v]
           /\ run'[w] \in Run
           /\ run'[w].job = run[w].job /\ run'[w].attempt = run[w].attempt
           /\ at[w] \in {"sending", "sent"}
           /\ at' \in [Workers -> {"idle", "sending", "sent", "finishing"}]
           /\ run' \in [Workers -> Run]
           /\ vain \subseteq vain'
           /\ \/ /\ at[w] = "sending" /\ at'[w] = "sent" /\ run'[w] = run[w] /\ vain' = vain
                 /\ heard' = [heard EXCEPT ![Delivery(w)] = @ + 1]
              \/ /\ at[w] = "sent" /\ at'[w] = "finishing" /\ run'[w] = run[w]
                 /\ UNCHANGED <<heard, vain>>
              \/ /\ at'[w] = "finishing" /\ run'[w] = run[w] /\ UNCHANGED heard
                 /\ vain' = vain \cup {run[w].job}
              \/ /\ at'[w] = "sending" /\ run'[w].retry = run[w].retry + 1
                 /\ UNCHANGED heard /\ vain' = vain \cup {run[w].job}
<1>1. /\ DeliveryTypeOK /\ HeardByRetries
      /\ at \in [Workers -> {"idle", "sending", "sent", "finishing"}]
      /\ run \in [Workers -> Run]
  BY DEF DeliveryInv, DeliveryTypeOK
<1>2. at[w] \in {"sending", "sent"}
  BY DEF Reach, Respond, TimeOut, NetworkError, Goes, Errs
<1>3. CASE Reach(w)
  <2>1. heard[Delivery(w)] < MaxHeard
    BY <1>1, <1>3, DeliveryType DEF Reach, Goes, HeardByRetries, MaxHeard, MaxSent
  <2>2. heard' = [heard EXCEPT ![Delivery(w)] = @ + 1]
    BY <1>3, <2>1 DEF Reach
  <2> QED
    BY <1>1, <1>2, <1>3, <2>2 DEF Reach, Goes
<1>4. CASE Respond(w)
  BY <1>1, <1>2, <1>4 DEF Respond, Goes
<1>5. CASE TimeOut(w)
  BY <1>1, <1>2, <1>5 DEF TimeOut, Errs
<1>6. CASE NetworkError(w) /\ run[w].retry < Retries
  <2> DEFINE q == run[w].retry + 1
  <2>1. run' = [run EXCEPT ![w] = [run[w] EXCEPT !.retry = q]]
    BY <1>6 DEF NetworkError
  <2>2. q \in 0..Retries
    BY <1>1, <1>6, RunType
  <2>3. LET r == [run[w] EXCEPT !.retry = q] IN
        r \in Run /\ r.job = run[w].job /\ r.attempt = run[w].attempt /\ r.retry = q
    BY <1>1, <2>2 DEF Run
  <2>4. run'[w] = [run[w] EXCEPT !.retry = q] /\ run' \in [Workers -> Run]
    BY <1>1, <2>1, <2>3
  <2>5. \A v \in Workers : v # w => run'[v] = run[v]
    BY <1>1, <2>1
  <2>6. /\ at' = [at EXCEPT ![w] = "sending"]
        /\ UNCHANGED <<queueVars, heard>> /\ vain' = vain \cup {run[w].job}
    BY <1>6 DEF NetworkError, Errs
  <2> HIDE DEF q
  <2> QED
    BY <1>1, <1>2, <2>3, <2>4, <2>5, <2>6 DEF q
<1>7. CASE NetworkError(w) /\ ~(run[w].retry < Retries)
  BY <1>1, <1>2, <1>7 DEF NetworkError, Errs
<1> QED
  BY <1>3, <1>4, <1>5, <1>6, <1>7

\* A worker starts a delivery.
LEMMA StartMoves ==
    ASSUME DeliveryInv, NEW w \in Workers, NEW j \in Jobs, Start(w, j)
    PROVE  /\ \A v \in Workers : v # w => at'[v] = at[v] /\ run'[v] = run[v]
           /\ at[w] = "idle" /\ at'[w] = "sending"
           /\ run'[w].job = j /\ run'[w].attempt = stalls[j] /\ run'[w].retry = 0
           /\ at' \in [Workers -> {"idle", "sending", "sent", "finishing"}]
           /\ run' \in [Workers -> Run]
           /\ status[j] = "waiting" /\ status' = [status EXCEPT ![j] = "active"]
           /\ runner' = [runner EXCEPT ![j] = w]
           /\ UNCHANGED <<stalls, heard, vain>>
<1>1. /\ at \in [Workers -> {"idle", "sending", "sent", "finishing"}]
      /\ run \in [Workers -> Run] /\ stalls[j] \in 0..MaxStalled
  BY QueueType DEF DeliveryInv, DeliveryTypeOK
<1>2. [job |-> j, attempt |-> stalls[j], retry |-> 0] \in Run
  BY <1>1 DEF Run
<1> QED
  BY <1>1, <1>2 DEF Start, Goes, Queue!Take

\* A worker is free again: the job is over, or the worker died.
LEMMA FreeMoves ==
    ASSUME DeliveryInv, NEW w \in Workers, Finish(w) \/ Crash(w)
    PROVE  /\ \A v \in Workers : v # w => at'[v] = at[v] /\ run'[v] = run[v]
           /\ at[w] # "idle" /\ at'[w] = "idle"
           /\ at' \in [Workers -> {"idle", "sending", "sent", "finishing"}]
           /\ run' \in [Workers -> Run]
           /\ \/ UNCHANGED status
              \/ /\ at[w] = "finishing"
                 /\ status' = [status EXCEPT ![run[w].job] = "completed"]
           /\ runner' \in [Jobs -> Workers \cup {NoWorker}]
           /\ UNCHANGED <<stalls, heard, vain>>
<1>1. /\ at \in [Workers -> {"idle", "sending", "sent", "finishing"}]
      /\ run \in [Workers -> Run] /\ status \in [Jobs -> Queue!Statuses]
      /\ runner \in [Jobs -> Workers \cup {NoWorker}]
  BY DEF DeliveryInv, DeliveryTypeOK, Queue!QueueTypeOK
<1>2. NoRun \in Run
  BY DEF NoRun, Run
<1>3. CASE Finish(w)
  <2>1. status' = status \/ status' = [status EXCEPT ![run[w].job] = "completed"]
    BY <1>1, <1>3 DEF Finish, Queue!Finish
  <2> QED
    BY <1>1, <1>2, <1>3, <2>1 DEF Finish, Goes, Queue!Finish
<1>4. CASE Crash(w)
  BY <1>1, <1>2, <1>4 DEF Crash, queueVars
<1> QED
  BY <1>3, <1>4

\* The queue takes a job, or hands it out again.
LEMMA QueueMoves ==
    ASSUME DeliveryInv, NEW j \in Jobs, Enqueue(j) \/ Redeliver(j)
    PROVE  /\ UNCHANGED <<at, run, heard, vain>>
           /\ runner' \in [Jobs -> Workers \cup {NoWorker}]
           /\ \A i \in Jobs : i # j => status'[i] = status[i] /\ stalls'[i] = stalls[i]
           /\ status' \in [Jobs -> Queue!Statuses] /\ stalls' \in [Jobs -> 0..MaxStalled]
           /\ \/ status[j] = "new" /\ status'[j] = "waiting" /\ stalls'[j] = stalls[j]
              \/ status[j] = "active" /\ status'[j] = "waiting" /\ stalls'[j] = stalls[j] + 1
              \/ status[j] = "active" /\ status'[j] = "failed" /\ stalls'[j] = stalls[j]
<1>1. /\ status \in [Jobs -> Queue!Statuses] /\ stalls \in [Jobs -> 0..MaxStalled]
      /\ runner \in [Jobs -> Workers \cup {NoWorker}]
  BY DEF DeliveryInv, DeliveryTypeOK, Queue!QueueTypeOK
<1>2. CASE Enqueue(j)
  BY <1>1, <1>2 DEF Enqueue, Queue!Add, Queue!Statuses
<1>3. CASE Redeliver(j)
  BY <1>1, <1>3 DEF Redeliver, Queue!Requeue, Queue!Statuses
<1> QED
  BY <1>2, <1>3

\* Every step is one of these.
LEMMA Moves ==
    ASSUME [Next]_vars
    PROVE  \/ \E w \in Workers : Reach(w) \/ Respond(w) \/ TimeOut(w) \/ NetworkError(w)
           \/ \E w \in Workers : \E j \in Jobs : Start(w, j)
           \/ \E w \in Workers : Finish(w) \/ Crash(w)
           \/ \E j \in Jobs : Enqueue(j) \/ Redeliver(j)
           \/ UNCHANGED vars
BY DEF Next, Work, AtRest

\* Every step keeps the state well formed.
LEMMA DeliveryTypeStep ==
    ASSUME DeliveryInv, [Next]_vars
    PROVE  DeliveryTypeOK'
<1>1. DeliveryTypeOK /\ HeardByRetries
  BY DEF DeliveryInv
<1>2. CASE \E w \in Workers : Reach(w) \/ Respond(w) \/ TimeOut(w) \/ NetworkError(w)
  <2>1. PICK w \in Workers : Reach(w) \/ Respond(w) \/ TimeOut(w) \/ NetworkError(w)
    BY <1>2
  <2>2. heard' \in [Deliveries -> 0..MaxHeard]
    <3>1. heard \in [Deliveries -> 0..MaxHeard]
      BY <1>1 DEF DeliveryTypeOK
    <3>2. CASE at[w] = "sending" /\ heard' = [heard EXCEPT ![Delivery(w)] = @ + 1]
      <4>1. heard[Delivery(w)] <= run[w].retry
        BY <1>1, <3>2 DEF HeardByRetries
      <4>2. heard[Delivery(w)] + 1 \in 0..MaxHeard
        BY <3>2, <4>1, DeliveryType DEF MaxHeard, MaxSent
      <4> QED
        BY <3>1, <3>2, <4>2
    <3> QED
      BY <2>1, <3>1, <3>2, SendingMoves
  <2>3. vain' \subseteq Jobs
    <3>1. at[w] # "idle"
      BY <2>1, SendingMoves
    <3>2. run[w].job \in Jobs
      BY <3>1, DeliveryType
    <3> QED
      BY <1>1, <2>1, <3>2, SendingMoves DEF DeliveryTypeOK
  <2>4. Queue!QueueTypeOK'
    BY <1>1, <2>1, SendingMoves DEF DeliveryTypeOK, Queue!QueueTypeOK, queueVars
  <2> QED
    BY <2>1, <2>2, <2>3, <2>4, SendingMoves DEF DeliveryTypeOK
<1>3. CASE \E w \in Workers : \E j \in Jobs : Start(w, j)
  <2>1. Queue!QueueTypeOK'
    BY <1>1, <1>3, StartMoves DEF DeliveryTypeOK, Queue!QueueTypeOK, Queue!Statuses
  <2> QED
    BY <1>1, <1>3, <2>1, StartMoves DEF DeliveryTypeOK
<1>4. CASE \E w \in Workers : Finish(w) \/ Crash(w)
  <2>1. Queue!QueueTypeOK'
    BY <1>1, <1>4, FreeMoves DEF DeliveryTypeOK, Queue!QueueTypeOK, Queue!Statuses
  <2> QED
    BY <1>1, <1>4, <2>1, FreeMoves DEF DeliveryTypeOK
<1>5. CASE \E j \in Jobs : Enqueue(j) \/ Redeliver(j)
  <2>1. Queue!QueueTypeOK'
    BY <1>1, <1>5, QueueMoves DEF DeliveryTypeOK, Queue!QueueTypeOK
  <2> QED
    BY <1>1, <1>5, <2>1, QueueMoves DEF DeliveryTypeOK
<1>6. CASE UNCHANGED vars
  BY <1>1, <1>6 DEF vars, queueVars, DeliveryTypeOK, Queue!QueueTypeOK
<1> QED
  BY <1>2, <1>3, <1>4, <1>5, <1>6, Moves

-----------------------------------------------------------------------------
(* The inductive invariant. *)

\* Requests that arrive are counted for the delivery that sent them.
LEMMA HeardMoves ==
    ASSUME DeliveryInv, [Next]_vars
    PROVE  \/ UNCHANGED heard
           \/ \E w \in Workers :
                /\ at[w] = "sending" /\ at'[w] = "sent" /\ run'[w] = run[w]
                /\ UNCHANGED <<status, stalls, vain>>
                /\ \A v \in Workers : v # w => at'[v] = at[v] /\ run'[v] = run[v]
                /\ Delivery(w) \in Deliveries /\ heard[Delivery(w)] \in Nat
                /\ heard'[Delivery(w)] = heard[Delivery(w)] + 1
                /\ \A d \in Deliveries : d # Delivery(w) => heard'[d] = heard[d]
<1>1. heard \in [Deliveries -> 0..MaxHeard]
  BY DEF DeliveryInv, DeliveryTypeOK
<1>2. ASSUME NEW w \in Workers, Reach(w) \/ Respond(w) \/ TimeOut(w) \/ NetworkError(w),
             at[w] = "sending", heard' = [heard EXCEPT ![Delivery(w)] = @ + 1]
      PROVE  /\ Delivery(w) \in Deliveries /\ heard[Delivery(w)] \in Nat
             /\ heard'[Delivery(w)] = heard[Delivery(w)] + 1
             /\ \A d \in Deliveries : d # Delivery(w) => heard'[d] = heard[d]
  BY <1>1, <1>2, DeliveryType
<1>3. CASE \E w \in Workers : Reach(w) \/ Respond(w) \/ TimeOut(w) \/ NetworkError(w)
  <2>1. PICK w \in Workers : Reach(w) \/ Respond(w) \/ TimeOut(w) \/ NetworkError(w)
    BY <1>3
  <2>2. \/ /\ at[w] = "sending" /\ at'[w] = "sent" /\ run'[w] = run[w] /\ vain' = vain
           /\ heard' = [heard EXCEPT ![Delivery(w)] = @ + 1]
        \/ UNCHANGED heard
    BY <2>1, SendingMoves
  <2> QED
    BY <1>2, <2>1, <2>2, SendingMoves DEF queueVars
<1>4. CASE \E w \in Workers : \E j \in Jobs : Start(w, j)
  BY <1>4, StartMoves
<1>5. CASE \E w \in Workers : Finish(w) \/ Crash(w)
  BY <1>5, FreeMoves
<1>6. CASE \E j \in Jobs : Enqueue(j) \/ Redeliver(j)
  BY <1>6, QueueMoves
<1>7. CASE UNCHANGED vars
  BY <1>7 DEF vars
<1> QED
  BY <1>3, <1>4, <1>5, <1>6, <1>7, Moves

\* How a busy worker got its delivery: it had it before, or starts a waiting job's next one.
LEMMA BusyMoves ==
    ASSUME DeliveryInv, [Next]_vars, NEW w \in Workers, at'[w] # "idle"
    PROVE  \/ at[w] # "idle" /\ run'[w].job = run[w].job /\ run'[w].attempt = run[w].attempt
           \/ /\ at[w] = "idle" /\ at'[w] = "sending"
              /\ run'[w].job \in Jobs /\ run'[w].attempt = stalls[run'[w].job]
              /\ status[run'[w].job] = "waiting" /\ status'[run'[w].job] = "active"
              /\ run'[w].retry = 0 /\ UNCHANGED <<stalls, heard>>
              /\ \A v \in Workers : v # w => at'[v] = at[v] /\ run'[v] = run[v]
<1>1. status \in [Jobs -> Queue!Statuses]
  BY DEF DeliveryInv, DeliveryTypeOK, Queue!QueueTypeOK
<1>2. CASE \E v \in Workers : Reach(v) \/ Respond(v) \/ TimeOut(v) \/ NetworkError(v)
  BY <1>2, SendingMoves
<1>3. CASE \E v \in Workers : \E j \in Jobs : Start(v, j)
  BY <1>1, <1>3, StartMoves
<1>4. CASE \E v \in Workers : Finish(v) \/ Crash(v)
  BY <1>4, FreeMoves
<1>5. CASE \E j \in Jobs : Enqueue(j) \/ Redeliver(j)
  BY <1>5, QueueMoves
<1>6. CASE UNCHANGED vars
  BY <1>6 DEF vars
<1> QED
  BY <1>2, <1>3, <1>4, <1>5, <1>6, Moves

\* How a job's place in the queue changes.
LEMMA StatusMoves ==
    ASSUME DeliveryInv, [Next]_vars, NEW j \in Jobs
    PROVE  /\ stalls'[j] \in 0..MaxStalled
           /\ \/ status'[j] = status[j] /\ stalls'[j] = stalls[j]
              \/ status[j] = "waiting" /\ status'[j] = "active" /\ stalls'[j] = stalls[j]
              \/ status'[j] = "completed" /\ stalls'[j] = stalls[j]
                   /\ \E w \in Workers : at[w] = "finishing" /\ run[w].job = j
                   /\ UNCHANGED <<heard, vain>>
              \/ status[j] = "new" /\ status'[j] = "waiting" /\ stalls'[j] = stalls[j]
                   /\ UNCHANGED <<at, run, heard, vain>>
              \/ status[j] = "active" /\ status'[j] = "waiting" /\ stalls'[j] = stalls[j] + 1
                   /\ UNCHANGED <<at, run, heard, vain>>
              \/ status[j] = "active" /\ status'[j] = "failed" /\ stalls'[j] = stalls[j]
<1>1. status \in [Jobs -> Queue!Statuses] /\ stalls \in [Jobs -> 0..MaxStalled]
  BY DEF DeliveryInv, DeliveryTypeOK, Queue!QueueTypeOK
<1>2. CASE \E v \in Workers : Reach(v) \/ Respond(v) \/ TimeOut(v) \/ NetworkError(v)
  BY <1>1, <1>2, SendingMoves DEF queueVars
<1>3. CASE \E v \in Workers : \E i \in Jobs : Start(v, i)
  BY <1>1, <1>3, StartMoves
<1>4. CASE \E v \in Workers : Finish(v) \/ Crash(v)
  BY <1>1, <1>4, FreeMoves
<1>5. CASE \E i \in Jobs : Enqueue(i) \/ Redeliver(i)
  BY <1>1, <1>5, QueueMoves
<1>6. CASE UNCHANGED vars
  BY <1>1, <1>6 DEF vars, queueVars
<1> QED
  BY <1>2, <1>3, <1>4, <1>5, <1>6, Moves

\* A busy worker's delivery was handed out.
LEMMA RunsStep ==
    ASSUME DeliveryInv, [Next]_vars
    PROVE  RunsDelivery'
<1> SUFFICES ASSUME NEW w \in Workers, at'[w] # "idle"
             PROVE  /\ run'[w].job \in Jobs
                    /\ status'[run'[w].job] # "new"
                    /\ run'[w].attempt <= stalls'[run'[w].job]
  BY DEF RunsDelivery
<1>1. RunsDelivery /\ DeliveryTypeOK
  BY DEF DeliveryInv
<1>2. /\ run'[w].job \in Jobs
      /\ run'[w].attempt \in 0..stalls[run'[w].job]
      /\ stalls[run'[w].job] \in 0..MaxStalled
      /\ at[w] # "idle" => status[run'[w].job] # "new"
      /\ at[w] = "idle" => status'[run'[w].job] = "active"
  BY <1>1, BusyMoves, DeliveryType, QueueType DEF RunsDelivery
<1> QED
  BY <1>2, StatusMoves

\* A job that waits is fresh.
LEMMA FreshStep ==
    ASSUME DeliveryInv, [Next]_vars
    PROVE  WaitingIsFresh'
<1>1. /\ DeliveryTypeOK /\ RunsDelivery /\ WaitingIsFresh /\ HeardIsBounded
  BY DEF DeliveryInv
<1> SUFFICES ASSUME NEW j \in Jobs, status'[j] \in {"new", "waiting"}
             PROVE  /\ heard'[<<j, stalls'[j]>>] = 0
                    /\ \A w \in Workers :
                           at'[w] # "idle" /\ run'[w].job = j => run'[w].attempt < stalls'[j]
  BY DEF WaitingIsFresh
<1>2. stalls[j] \in 0..MaxStalled /\ MaxStalled \in Nat /\ <<j, stalls[j]>> \in Deliveries
  BY <1>1, QueueType DEF Deliveries
<1>3. CASE status[j] \in {"new", "waiting"}
  <2>1. stalls'[j] = stalls[j]
    BY <1>3, StatusMoves
  <2>2. heard[<<j, stalls[j]>>] = 0
    BY <1>1, <1>3 DEF WaitingIsFresh
  <2>3. heard'[<<j, stalls[j]>>] = 0
    <3>1. ASSUME NEW w \in Workers, at[w] = "sending" PROVE Delivery(w) # <<j, stalls[j]>>
      BY <1>1, <1>2, <1>3, <3>1, RunType DEF WaitingIsFresh, Delivery
    <3> QED
      BY <1>2, <2>2, <3>1, HeardMoves
  <2>4. ASSUME NEW w \in Workers, at'[w] # "idle", run'[w].job = j
        PROVE  run'[w].attempt < stalls[j]
    <3>1. at[w] # "idle" /\ run[w].job = j /\ run'[w].attempt = run[w].attempt
      BY <2>4, BusyMoves
    <3> QED
      BY <1>1, <1>3, <3>1 DEF WaitingIsFresh
  <2> QED
    BY <2>1, <2>3, <2>4
<1>4. CASE status[j] \notin {"new", "waiting"}
  <2>1. stalls'[j] = stalls[j] + 1 /\ stalls'[j] \in 0..MaxStalled /\ UNCHANGED <<at, run, heard>>
    BY <1>4, StatusMoves
  <2>2. <<j, stalls'[j]>> \in Deliveries /\ heard[<<j, stalls'[j]>>] \in Nat
    BY <1>1, <2>1, QueueType DEF Deliveries
  <2>3. heard[<<j, stalls'[j]>>] <= 0
    BY <1>1, <1>2, <2>1, <2>2 DEF HeardIsBounded
  <2>4. \A w \in Workers : at[w] # "idle" /\ run[w].job = j => run[w].attempt < stalls'[j]
    BY <1>1, <1>2, <2>1, RunType DEF RunsDelivery
  <2> QED
    BY <2>1, <2>2, <2>3, <2>4
<1> QED
  BY <1>3, <1>4

\* A delivery is handed out once.
LEMMA OneStep ==
    ASSUME DeliveryInv, [Next]_vars
    PROVE  OneWorkerEach'
<1>1. OneWorkerEach /\ WaitingIsFresh /\ DeliveryTypeOK
  BY DEF DeliveryInv
<1> SUFFICES ASSUME NEW w \in Workers, NEW v \in Workers, at'[w] # "idle", at'[v] # "idle",
                    run'[w].job = run'[v].job, run'[w].attempt = run'[v].attempt, w # v
             PROVE  FALSE
  BY DEF OneWorkerEach
<1>2. ASSUME NEW x \in Workers, NEW y \in Workers, x # y, at'[x] # "idle", at'[y] # "idle",
             run'[x].job = run'[y].job, run'[x].attempt = run'[y].attempt, at[x] = "idle"
      PROVE  FALSE
  <2>1. /\ run'[x].job \in Jobs /\ run'[x].attempt = stalls[run'[x].job]
        /\ status[run'[x].job] = "waiting" /\ at'[y] = at[y] /\ run'[y] = run[y]
    BY <1>2, BusyMoves
  <2>2. run[y].attempt < stalls[run[y].job] /\ run[y].attempt = stalls[run[y].job]
    BY <1>1, <1>2, <2>1 DEF WaitingIsFresh
  <2>3. run[y].attempt \in Nat
    BY <1>1, RunType
  <2> QED
    BY <2>2, <2>3
<1>3. at[w] # "idle" /\ at[v] # "idle"
  BY <1>2
<1> QED
  BY <1>1, <1>3, BusyMoves DEF OneWorkerEach

\* How a worker that stays busy goes on.
LEMMA StaysBusy ==
    ASSUME DeliveryInv, [Next]_vars, NEW w \in Workers, at[w] # "idle", at'[w] # "idle"
    PROVE  /\ Delivery(w)' = Delivery(w)
           /\ \/ at'[w] = at[w] /\ run'[w] = run[w] /\ vain \subseteq vain'
                   /\ heard'[Delivery(w)] = heard[Delivery(w)]
              \/ at[w] = "sending" /\ at'[w] = "sent" /\ run'[w] = run[w]
                   /\ heard'[Delivery(w)] = heard[Delivery(w)] + 1
              \/ at[w] = "sent" /\ at'[w] = "finishing" /\ run'[w] = run[w] /\ UNCHANGED heard
              \/ at'[w] = "finishing" /\ run'[w] = run[w] /\ run[w].job \in vain'
                   /\ UNCHANGED heard
              \/ at'[w] = "sending" /\ run'[w].retry = run[w].retry + 1 /\ UNCHANGED heard
<1>1. OneWorkerEach /\ DeliveryTypeOK /\ heard \in [Deliveries -> 0..MaxHeard]
  BY DEF DeliveryInv, DeliveryTypeOK
<1>2. Delivery(w) \in Deliveries /\ heard[Delivery(w)] \in Nat
  BY DeliveryType
<1>3. CASE \E v \in Workers : Reach(v) \/ Respond(v) \/ TimeOut(v) \/ NetworkError(v)
  <2>1. PICK v \in Workers : Reach(v) \/ Respond(v) \/ TimeOut(v) \/ NetworkError(v)
    BY <1>3
  <2>2. CASE v = w
    <3>1. heard' = [heard EXCEPT ![Delivery(w)] = @ + 1] =>
              heard'[Delivery(w)] = heard[Delivery(w)] + 1
      BY <1>1, <1>2
    <3> QED
      BY <2>1, <2>2, <3>1, SendingMoves DEF Delivery
  <2>3. CASE v # w
    <3>1. at'[w] = at[w] /\ run'[w] = run[w] /\ vain \subseteq vain' /\ at[v] # "idle"
      BY <2>1, <2>3, SendingMoves
    <3>2. Delivery(v) # Delivery(w)
      BY <1>1, <2>3, <3>1 DEF OneWorkerEach, Delivery
    <3>3. heard' = heard \/ heard' = [heard EXCEPT ![Delivery(v)] = @ + 1]
      BY <2>1, SendingMoves
    <3>4. heard'[Delivery(w)] = heard[Delivery(w)]
      BY <1>1, <1>2, <3>2, <3>3
    <3> QED
      BY <3>1, <3>4 DEF Delivery
  <2> QED
    BY <2>2, <2>3
<1>4. CASE \E v \in Workers : \E j \in Jobs : Start(v, j)
  BY <1>4, StartMoves DEF Delivery
<1>5. CASE \E v \in Workers : Finish(v) \/ Crash(v)
  BY <1>5, FreeMoves DEF Delivery
<1>6. CASE \E j \in Jobs : Enqueue(j) \/ Redeliver(j)
  BY <1>6, QueueMoves DEF Delivery
<1>7. CASE UNCHANGED vars
  BY <1>7 DEF vars, Delivery
<1> QED
  BY <1>3, <1>4, <1>5, <1>6, <1>7, Moves

\* axios-retry sends again only after one more error.
LEMMA RetriesStep ==
    ASSUME DeliveryInv, [Next]_vars
    PROVE  HeardByRetries'
<1>1. HeardByRetries /\ WaitingIsFresh /\ DeliveryTypeOK
  BY DEF DeliveryInv
<1> SUFFICES ASSUME NEW w \in Workers, at'[w] # "idle"
             PROVE  heard'[Delivery(w)'] <=
                        IF at'[w] = "sending" THEN run'[w].retry ELSE run'[w].retry + 1
  BY DEF HeardByRetries
<1>2. CASE at[w] = "idle"
  <2>1. /\ Delivery(w)' = <<run'[w].job, stalls[run'[w].job]>> /\ run'[w].job \in Jobs
        /\ at'[w] = "sending" /\ run'[w].retry = 0 /\ status[run'[w].job] = "waiting"
        /\ UNCHANGED heard
    BY <1>2, BusyMoves DEF Delivery
  <2> QED
    BY <1>1, <2>1 DEF WaitingIsFresh
<1>3. CASE at[w] # "idle"
  <2>1. Delivery(w)' = Delivery(w)
    BY <1>3, StaysBusy
  <2>2. heard[Delivery(w)] <= IF at[w] = "sending" THEN run[w].retry ELSE run[w].retry + 1
    BY <1>1, <1>3 DEF HeardByRetries
  <2>3. heard[Delivery(w)] \in Nat /\ run[w].retry \in Nat
    BY <1>3, DeliveryType
  <2> QED
    BY <1>3, <2>1, <2>2, <2>3, StaysBusy
<1> QED
  BY <1>2, <1>3

\* What the requester has heard it does not forget.
LEMMA HeardGrows ==
    ASSUME DeliveryInv, [Next]_vars, NEW d \in Deliveries
    PROVE  heard[d] \in Nat /\ heard'[d] \in Nat /\ heard[d] <= heard'[d]
<1>1. heard[d] \in Nat
  BY DEF DeliveryInv, DeliveryTypeOK
<1> QED
  BY <1>1, HeardMoves

\* A call is over when its request was heard, or ended without a response.
LEMMA SentStep ==
    ASSUME DeliveryInv, [Next]_vars
    PROVE  SentOrVain'
<1>1. SentOrVain
  BY DEF DeliveryInv
<1> SUFFICES ASSUME NEW w \in Workers, at'[w] \in {"sent", "finishing"}
             PROVE  /\ at'[w] = "sent" => heard'[Delivery(w)'] # 0
                    /\ at'[w] = "finishing" => heard'[Delivery(w)'] # 0 \/ run'[w].job \in vain'
  BY DEF SentOrVain
<1>2. at[w] # "idle"
  BY BusyMoves
<1>3. /\ Delivery(w)' = Delivery(w) /\ run'[w].job = run[w].job
      /\ Delivery(w) \in Deliveries /\ heard[Delivery(w)] \in Nat
      /\ heard'[Delivery(w)] \in Nat /\ heard[Delivery(w)] <= heard'[Delivery(w)]
  BY <1>2, StaysBusy, DeliveryType, HeardGrows, BusyMoves
<1> QED
  BY <1>1, <1>2, <1>3, StaysBusy DEF SentOrVain

\* The number of requests of a delivery is bounded by its retries.
LEMMA BoundedStep ==
    ASSUME DeliveryInv, [Next]_vars
    PROVE  HeardIsBounded'
<1>1. HeardIsBounded /\ HeardByRetries /\ DeliveryTypeOK
  BY DEF DeliveryInv
<1> SUFFICES ASSUME NEW d \in Deliveries
             PROVE  heard'[d] <= IF d[2] <= stalls'[d[1]] THEN MaxSent ELSE 0
  BY DEF HeardIsBounded
<1>2. d[1] \in Jobs /\ d[2] \in Nat
  BY DEF Deliveries
<1>3. stalls[d[1]] \in Nat /\ stalls'[d[1]] \in Nat /\ stalls[d[1]] <= stalls'[d[1]]
  BY <1>1, <1>2, QueueType, StatusMoves
<1>4. heard[d] <= IF d[2] <= stalls[d[1]] THEN MaxSent ELSE 0
  BY <1>1 DEF HeardIsBounded
<1>5. CASE heard'[d] = heard[d]
  BY <1>2, <1>3, <1>4, <1>5, HeardGrows DEF MaxSent
<1>6. CASE heard'[d] # heard[d]
  <2>1. PICK w \in Workers : /\ at[w] = "sending" /\ d = Delivery(w)
                             /\ heard'[d] = heard[d] + 1
    BY <1>6, HeardMoves
  <2>2. heard[d] <= run[w].retry /\ heard[d] \in Nat
    BY <1>1, <2>1, HeardGrows DEF HeardByRetries
  <2>3. run[w].retry \in 0..Retries /\ run[w].attempt \in 0..stalls[run[w].job]
    BY <2>1, DeliveryType
  <2>4. heard'[d] <= MaxSent
    BY <2>1, <2>2, <2>3 DEF MaxSent
  <2>5. d[2] <= stalls[d[1]]
    BY <1>2, <1>3, <2>1, <2>3 DEF Delivery
  <2> QED
    BY <1>2, <1>3, <2>4, <2>5
<1> QED
  BY <1>5, <1>6

\* A job completes when a call of it is over.
LEMMA UnheardStep ==
    ASSUME DeliveryInv, [Next]_vars
    PROVE  UnheardWasTried'
<1>1. UnheardWasTried /\ SentOrVain /\ RunsDelivery /\ DeliveryTypeOK
  BY DEF DeliveryInv
<1> SUFFICES ASSUME NEW j \in Jobs, status'[j] = "completed", Unheard(j)'
             PROVE  j \in vain'
  BY DEF UnheardWasTried
<1>2. Unheard(j)
  <2> SUFFICES ASSUME NEW k \in 0..MaxStalled PROVE heard[<<j, k>>] = 0
    BY DEF Unheard
  <2>1. heard'[<<j, k>>] = 0
    BY DEF Unheard
  <2>2. <<j, k>> \in Deliveries
    BY DEF Deliveries
  <2> QED
    BY <2>1, <2>2, HeardGrows
<1>3. vain \subseteq vain'
  <2>1. CASE \E w \in Workers : Reach(w) \/ Respond(w) \/ TimeOut(w) \/ NetworkError(w)
    BY <2>1, SendingMoves
  <2>2. CASE \E w \in Workers : \E i \in Jobs : Start(w, i)
    BY <2>2, StartMoves
  <2>3. CASE \E w \in Workers : Finish(w) \/ Crash(w)
    BY <2>3, FreeMoves
  <2>4. CASE \E i \in Jobs : Enqueue(i) \/ Redeliver(i)
    BY <2>4, QueueMoves
  <2>5. CASE UNCHANGED vars
    BY <2>5 DEF vars
  <2> QED
    BY <2>1, <2>2, <2>3, <2>4, <2>5, Moves
<1>4. CASE status[j] = "completed"
  BY <1>1, <1>2, <1>3, <1>4 DEF UnheardWasTried
<1>5. CASE status[j] # "completed"
  <2>1. PICK w \in Workers : at[w] = "finishing" /\ run[w].job = j
    BY <1>5, StatusMoves
  <2>2. run[w].attempt \in 0..MaxStalled
    BY <1>1, RunType
  <2>3. heard[Delivery(w)] = 0
    BY <1>2, <2>1, <2>2 DEF Unheard, Delivery
  <2> QED
    BY <1>1, <1>3, <2>1, <2>3 DEF SentOrVain
<1> QED
  BY <1>4, <1>5

-----------------------------------------------------------------------------
(* The theorems. *)

\* The invariant holds at the start.
LEMMA DeliveryInvInit == Init => DeliveryInv
<1> SUFFICES ASSUME Init PROVE DeliveryInv
  OBVIOUS
<1>1. DeliveryTypeOK
  BY DEF Init, DeliveryTypeOK, Queue!QueueInit, Queue!QueueTypeOK, Queue!Statuses, NoRun, Run,
         MaxHeard, MaxSent
<1>2. \A d \in Deliveries : heard[d] = 0
  BY DEF Init
<1>3. \A j \in Jobs : stalls[j] = 0 /\ <<j, 0>> \in Deliveries /\ status[j] = "new"
  <2>1. \A j \in Jobs : <<j, 0>> \in Deliveries
    BY DEF Deliveries
  <2> QED
    BY <2>1 DEF Init, Queue!QueueInit
<1>4. \A w \in Workers : at[w] = "idle"
  BY DEF Init
<1>5. HeardIsBounded
  BY <1>2 DEF HeardIsBounded, MaxSent
<1> QED
  BY <1>1, <1>2, <1>3, <1>4, <1>5 DEF DeliveryInv, RunsDelivery, WaitingIsFresh, OneWorkerEach,
     HeardByRetries, SentOrVain, UnheardWasTried

\* Every step keeps it.
LEMMA DeliveryInvStep == DeliveryInv /\ [Next]_vars => DeliveryInv'
BY DeliveryTypeStep, RunsStep, FreshStep, OneStep, RetriesStep, SentStep, BoundedStep,
   UnheardStep DEF DeliveryInv

\* The invariant holds for ever.
THEOREM DeliveryInvariance == Spec => []DeliveryInv
BY DeliveryInvInit, DeliveryInvStep, PTL DEF Spec

\* The state of the callback jobs and of their workers is well formed; in particular no
\* request is sent again more than Retries times.
THEOREM DeliveryTypeCorrect == Spec => []DeliveryTypeOK
<1>1. DeliveryInv => DeliveryTypeOK
  BY DEF DeliveryInv
<1> QED
  BY <1>1, DeliveryInvariance, PTL

\* However often a job is handed out, to workers that overlap or die, the requester hears of
\* each delivery at most Retries + 1 times, and of one that was not handed out never.
THEOREM RequestersHearLittle == Spec => []HeardIsBounded
<1>1. DeliveryInv => HeardIsBounded
  BY DEF DeliveryInv
<1> QED
  BY <1>1, DeliveryInvariance, PTL

\* No callback job completes without a request that was heard, or ended without a response.
THEOREM CompletedWasTried == Spec => []UnheardWasTried
<1>1. DeliveryInv => UnheardWasTried
  BY DEF DeliveryInv
<1> QED
  BY <1>1, DeliveryInvariance, PTL

=============================================================================
