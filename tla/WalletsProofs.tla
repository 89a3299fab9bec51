---------------------------- MODULE WalletsProofs ----------------------------
(***************************************************************************)
(* Theorems about Wallets: types, whose success is reported, and that a    *)
(* completed job has an answer, for every set of requests, workers and     *)
(* addresses, any number of redeliveries, and any faults.                  *)
(***************************************************************************)
EXTENDS Wallets, TLAPS

USE WalletsAssumption

-----------------------------------------------------------------------------
(* The inductive invariant. *)

\* A worker beyond "idle" runs a delivery of a job.
BusyRunsJob == \A w \in Workers : at[w] # "idle" => run[w] \in Delivery

\* A worker whose transaction landed, or that is about to report, created the account.
ReporterCreated ==
    \A w \in Workers : at[w] \in {"landed", "reporting"} => creator[Wallet(w)] = run[w]

\* A worker that is about to complete its job has enqueued a callback.
FinisherAnswered ==
    \A w \in Workers : at[w] = "finishing" => \E c \in callbacks : c.job = run[w].job

WalletsInv ==
    /\ WalletsTypeOK /\ BusyRunsJob /\ ReporterCreated /\ FinisherAnswered
    /\ CompletedIsAnswered /\ SuccessIsOwn

-----------------------------------------------------------------------------
(* Lemmas about single parts of a step. *)

\* No delivery of a job is mistaken for none.
LEMMA NoRunIsNone == NoRun \notin Delivery
BY DEF NoRun, Delivery

\* The job, the account and the callbacks of a worker that is not idle.
LEMMA BusyTypes ==
    ASSUME WalletsInv, NEW w \in Workers, at[w] # "idle"
    PROVE  /\ run[w] \in Delivery /\ run[w].job \in Jobs
           /\ run[w] = [job |-> run[w].job, attempt |-> run[w].attempt]
           /\ Wallet(w) \in Addresses
           /\ CallbackOf(w, "success") \in Callback /\ CallbackOf(w, "fail") \in Callback
           /\ CallbackOf(w, "success").job = run[w].job /\ CallbackOf(w, "fail").job = run[w].job
<1>1. run[w] \in Delivery
  BY DEF WalletsInv, BusyRunsJob
<1>2. run[w].job \in Jobs /\ run[w].attempt \in 0..MaxStalled
  BY <1>1 DEF Delivery
<1>3. run[w] = [job |-> run[w].job, attempt |-> run[w].attempt]
  BY <1>1 DEF Delivery
<1> QED
  BY <1>1, <1>2, <1>3 DEF Wallet, CallbackOf, Callback

\* The initial state satisfies the invariant.
LEMMA WalletsInvInit == Init => WalletsInv
BY DEF Init, WalletsInv, WalletsTypeOK, BusyRunsJob, ReporterCreated, FinisherAnswered,
       CompletedIsAnswered, SuccessIsOwn, Queue!QueueInit, Queue!QueueTypeOK, Queue!Statuses,
       Stages

\* A step that leaves the accounts alone and adds no success keeps what was reported true.
LEMMA OwnStays ==
    ASSUME WalletsInv, UNCHANGED creator,
           \A c \in callbacks' : c \in callbacks \/ c.state = "fail"
    PROVE  SuccessIsOwn'
BY DEF WalletsInv, SuccessIsOwn

\* A step by which no job completes and no callback gets lost keeps completed jobs answered.
LEMMA AnsweredStays ==
    ASSUME WalletsInv, callbacks \subseteq callbacks',
           \A j \in Jobs : status'[j] = "completed" => status[j] = "completed"
    PROVE  CompletedIsAnswered'
BY DEF WalletsInv, CompletedIsAnswered

-----------------------------------------------------------------------------
(* The steps. *)

\* The API and Bull change jobs, nothing else, and complete none.
LEMMA QueueStep ==
    ASSUME WalletsInv, NEW j \in Jobs, Enqueue(j) \/ EnqueueFails(j) \/ Redeliver(j)
    PROVE  WalletsInv'
<1>1. UNCHANGED <<at, run, creator, callbacks>>
  BY DEF Enqueue, EnqueueFails, Redeliver
<1>2. Queue!QueueTypeOK' /\ post' \in [Jobs -> {"unsent", "accepted", "error"}]
  BY DEF Enqueue, EnqueueFails, Redeliver, Queue!Add, Queue!Requeue, WalletsInv, WalletsTypeOK,
         Queue!QueueTypeOK, Queue!Statuses
<1>3. \A k \in Jobs : status'[k] = "completed" => status[k] = "completed"
  BY DEF Enqueue, EnqueueFails, Redeliver, Queue!Add, Queue!Requeue, WalletsInv, WalletsTypeOK,
         Queue!QueueTypeOK
<1> QED
  BY <1>1, <1>2, <1>3, AnsweredStays, OwnStays
     DEF WalletsInv, WalletsTypeOK, BusyRunsJob, ReporterCreated, FinisherAnswered, Wallet

\* A worker takes a job.
LEMMA StartStep ==
    ASSUME WalletsInv, NEW w \in Workers, NEW j \in Jobs, Start(w, j)
    PROVE  WalletsInv'
<1>1. [job |-> j, attempt |-> stalls[j]] \in Delivery
  BY DEF WalletsInv, WalletsTypeOK, Queue!QueueTypeOK, Delivery
<1>2. /\ UNCHANGED <<post, creator, callbacks>>
      /\ at' = [at EXCEPT ![w] = "creating"]
      /\ run' = [run EXCEPT ![w] = [job |-> j, attempt |-> stalls[j]]]
  BY DEF Start, Goes
<1>3. Queue!QueueTypeOK'
  BY DEF Start, Queue!Take, WalletsInv, WalletsTypeOK, Queue!QueueTypeOK, Queue!Statuses
<1>4. \A k \in Jobs : status'[k] = "completed" => status[k] = "completed"
  BY DEF Start, Queue!Take, WalletsInv, WalletsTypeOK, Queue!QueueTypeOK
<1>5. WalletsTypeOK'
  BY <1>1, <1>2, <1>3 DEF WalletsInv, WalletsTypeOK, Stages
<1>6. BusyRunsJob' /\ ReporterCreated' /\ FinisherAnswered'
  BY <1>1, <1>2 DEF WalletsInv, WalletsTypeOK, BusyRunsJob, ReporterCreated, FinisherAnswered,
                    Wallet
<1> QED
  BY <1>2, <1>4, <1>5, <1>6, AnsweredStays, OwnStays DEF WalletsInv

\* The transaction lands: the account had no creator, so nobody has reported it.
LEMMA LandStep ==
    ASSUME WalletsInv, NEW w \in Workers, CreateLands(w)
    PROVE  WalletsInv'
<1>1. /\ at' = [at EXCEPT ![w] = "landed"]
      /\ creator' = [creator EXCEPT ![Wallet(w)] = run[w]]
      /\ UNCHANGED <<status, runner, stalls, post, run, callbacks>>
      /\ at[w] = "creating" /\ creator[Wallet(w)] = NoRun
  BY DEF CreateLands, Goes, Exists
<1>2. run[w] \in Delivery /\ Wallet(w) \in Addresses
  BY <1>1, BusyTypes
<1>3. WalletsTypeOK'
  BY <1>1, <1>2 DEF WalletsInv, WalletsTypeOK, Stages, Queue!QueueTypeOK
<1>4. BusyRunsJob' /\ FinisherAnswered'
  BY <1>1, <1>2 DEF WalletsInv, WalletsTypeOK, BusyRunsJob, FinisherAnswered
<1>5. ReporterCreated'
  <2> SUFFICES ASSUME NEW v \in Workers, at'[v] \in {"landed", "reporting"}
               PROVE  creator'[Address[run'[v].job]] = run'[v]
    BY DEF ReporterCreated, Wallet
  <2>1. CASE v = w
    BY <1>1, <1>2, <2>1 DEF WalletsInv, WalletsTypeOK, Wallet
  <2>2. CASE v # w
    <3>1. at[v] \in {"landed", "reporting"}
      BY <1>1, <2>2 DEF WalletsInv, WalletsTypeOK
    <3>2. creator[Wallet(v)] = run[v] /\ run[v] \in Delivery
      BY <3>1, BusyTypes DEF WalletsInv, ReporterCreated
    <3>3. Wallet(v) # Wallet(w)
      BY <1>1, <3>2, NoRunIsNone
    <3> QED
      BY <1>1, <3>2, <3>3 DEF WalletsInv, WalletsTypeOK, Wallet
  <2> QED
    BY <2>1, <2>2
<1>6. SuccessIsOwn'
  <2> SUFFICES ASSUME NEW c \in callbacks, c.state = "success"
               PROVE  creator'[Address[c.job]] = [job |-> c.job, attempt |-> c.attempt]
    BY <1>1 DEF SuccessIsOwn
  <2>1. /\ creator[Address[c.job]] = [job |-> c.job, attempt |-> c.attempt]
        /\ [job |-> c.job, attempt |-> c.attempt] \in Delivery
    BY DEF WalletsInv, SuccessIsOwn, WalletsTypeOK, Callback, Delivery
  <2>2. Address[c.job] # Wallet(w)
    BY <1>1, <2>1, NoRunIsNone
  <2> QED
    BY <1>1, <2>1, <2>2 DEF WalletsInv, WalletsTypeOK
<1> QED
  BY <1>1, <1>3, <1>4, <1>5, <1>6, AnsweredStays DEF WalletsInv

\* createWallet ends: only a worker whose transaction landed goes on to report.
LEMMA CreateStep ==
    ASSUME WalletsInv, NEW w \in Workers,
           CreateFinds(w) \/ CreateRejected(w) \/ CreateReturns(w) \/ CreateReplyLost(w)
    PROVE  WalletsInv'
<1>1. /\ UNCHANGED <<status, runner, stalls, post, run, creator, callbacks>>
      /\ at[w] # "idle"
      /\ at' = [at EXCEPT ![w] = at'[w]]
      /\ at'[w] \in {"existing", "failing", "reporting"}
      /\ at'[w] = "reporting" => at[w] = "landed"
  BY DEF CreateFinds, CreateRejected, CreateReturns, CreateReplyLost, Goes, WalletsInv,
         WalletsTypeOK
<1>2. WalletsTypeOK'
  BY <1>1 DEF WalletsInv, WalletsTypeOK, Stages, Queue!QueueTypeOK
<1>3. BusyRunsJob' /\ ReporterCreated' /\ FinisherAnswered'
  BY <1>1 DEF WalletsInv, WalletsTypeOK, BusyRunsJob, ReporterCreated, FinisherAnswered, Wallet
<1> QED
  BY <1>1, <1>2, <1>3, AnsweredStays, OwnStays DEF WalletsInv

\* A worker tells the requester, or tries to: of success, if it has created the account.
LEMMA ReportStep ==
    ASSUME WalletsInv, NEW w \in Workers,
           Report(w) \/ ReportFails(w) \/ ReportFailure(w) \/ ReportFailureFails(w)
    PROVE  WalletsInv'
<1> DEFINE told == {CallbackOf(w, "success"), CallbackOf(w, "fail")}
<1>1. /\ UNCHANGED <<status, runner, stalls, post, run, creator>>
      /\ at[w] # "idle"
      /\ at' = [at EXCEPT ![w] = at'[w]]
      /\ at'[w] \in {"finishing", "failing", "throwing"}
  BY DEF Report, ReportFails, ReportFailure, ReportFailureFails, Goes, WalletsInv, WalletsTypeOK
<1>2. /\ callbacks \subseteq callbacks' /\ callbacks' \subseteq callbacks \cup told
      /\ CallbackOf(w, "success") \in callbacks' \ callbacks => at[w] = "reporting"
      /\ at'[w] = "finishing" => \E c \in told : c \in callbacks'
  <2>1. CASE Report(w) \/ ReportFails(w)
    BY <2>1 DEF Report, ReportFails, Goes, WalletsInv, WalletsTypeOK
  <2>2. CASE ReportFailure(w) \/ ReportFailureFails(w)
    <3>1. /\ callbacks' \in {callbacks, callbacks \cup {CallbackOf(w, "fail")}}
          /\ at'[w] = "finishing" => CallbackOf(w, "fail") \in callbacks'
      BY <2>2 DEF ReportFailure, ReportFailureFails, Goes, WalletsInv, WalletsTypeOK
    <3>2. CallbackOf(w, "fail") # CallbackOf(w, "success")
      BY DEF CallbackOf
    <3> QED
      BY <3>1, <3>2
  <2> QED
    BY <2>1, <2>2
<1>3. /\ run[w].job \in Jobs /\ told \subseteq Callback
      /\ \A c \in told : c.job = run[w].job
  BY <1>1, BusyTypes
<1>4. WalletsTypeOK'
  BY <1>1, <1>2, <1>3 DEF WalletsInv, WalletsTypeOK, Stages, Queue!QueueTypeOK
<1>5. BusyRunsJob' /\ ReporterCreated'
  BY <1>1 DEF WalletsInv, WalletsTypeOK, BusyRunsJob, ReporterCreated, Wallet
<1>6. FinisherAnswered'
  BY <1>1, <1>2, <1>3 DEF WalletsInv, WalletsTypeOK, FinisherAnswered
<1>7. SuccessIsOwn'
  <2> SUFFICES ASSUME NEW c \in callbacks', c.state = "success"
               PROVE  creator[Address[c.job]] = [job |-> c.job, attempt |-> c.attempt]
    BY <1>1 DEF SuccessIsOwn
  <2>1. CASE c \in callbacks
    BY <2>1 DEF WalletsInv, SuccessIsOwn
  <2>2. CASE c \notin callbacks
    <3>1. c = CallbackOf(w, "success")
      BY <1>2, <2>2 DEF CallbackOf
    <3>2. creator[Wallet(w)] = run[w]
      BY <1>2, <2>2, <3>1 DEF WalletsInv, ReporterCreated
    <3> QED
      BY <1>1, <3>1, <3>2, BusyTypes DEF CallbackOf, Wallet
  <2> QED
    BY <2>1, <2>2
<1> QED
  BY <1>1, <1>2, <1>4, <1>5, <1>6, <1>7, AnsweredStays DEF WalletsInv

\* A job ends: completed, if this worker has its callback enqueued.
LEMMA FinishStep ==
    ASSUME WalletsInv, NEW w \in Workers, Finish(w)
    PROVE  WalletsInv'
<1> DEFINE j == run[w].job
<1>1. /\ UNCHANGED <<stalls, post, creator, callbacks>>
      /\ at' = [at EXCEPT ![w] = "idle"] /\ run' = [run EXCEPT ![w] = NoRun]
      /\ at[w] \in {"finishing", "throwing"}
  BY DEF Finish, Goes, Queue!Finish
<1>2. \/ status' = [status EXCEPT ![j] = "failed"]
      \/ status' = [status EXCEPT ![j] = "completed"] /\ at[w] = "finishing"
      \/ status' = status
  BY DEF Finish, Goes, Queue!Finish, WalletsInv, WalletsTypeOK, Queue!QueueTypeOK
<1>3. j \in Jobs
  BY <1>1, BusyTypes
<1>4. Queue!QueueTypeOK'
  BY <1>3 DEF Finish, Queue!Finish, WalletsInv, WalletsTypeOK, Queue!QueueTypeOK, Queue!Statuses
<1>5. WalletsTypeOK'
  BY <1>1, <1>4 DEF WalletsInv, WalletsTypeOK, Stages
<1>6. BusyRunsJob' /\ ReporterCreated' /\ FinisherAnswered'
  BY <1>1 DEF WalletsInv, WalletsTypeOK, BusyRunsJob, ReporterCreated, FinisherAnswered, Wallet
<1>7. CompletedIsAnswered'
  BY <1>1, <1>2, <1>3 DEF WalletsInv, WalletsTypeOK, Queue!QueueTypeOK, FinisherAnswered,
                          CompletedIsAnswered
<1> QED
  BY <1>1, <1>5, <1>6, <1>7, OwnStays DEF WalletsInv

\* A worker dies, wherever it is.
LEMMA CrashStep ==
    ASSUME WalletsInv, NEW w \in Workers, Crash(w)
    PROVE  WalletsInv'
<1>1. /\ UNCHANGED <<status, runner, stalls, post, creator, callbacks>>
      /\ at' = [at EXCEPT ![w] = "idle"] /\ run' = [run EXCEPT ![w] = NoRun]
  BY DEF Crash
<1>2. WalletsTypeOK'
  BY <1>1 DEF WalletsInv, WalletsTypeOK, Stages, Queue!QueueTypeOK
<1>3. BusyRunsJob' /\ ReporterCreated' /\ FinisherAnswered'
  BY <1>1 DEF WalletsInv, WalletsTypeOK, BusyRunsJob, ReporterCreated, FinisherAnswered, Wallet
<1> QED
  BY <1>1, <1>2, <1>3, AnsweredStays, OwnStays DEF WalletsInv

\* The invariant is inductive.
LEMMA WalletsInvStep == WalletsInv /\ [Next]_vars => WalletsInv'
<1> SUFFICES ASSUME WalletsInv, [Next]_vars PROVE WalletsInv'
  OBVIOUS
<1>1. ASSUME NEW w \in Workers, Work(w) PROVE WalletsInv'
  BY <1>1, LandStep, CreateStep, ReportStep, FinishStep DEF Work
<1>2. CASE UNCHANGED vars
  BY <1>2 DEF vars, WalletsInv, WalletsTypeOK, Queue!QueueTypeOK, BusyRunsJob, ReporterCreated,
              FinisherAnswered, CompletedIsAnswered, SuccessIsOwn, Wallet
<1> QED
  BY <1>1, <1>2, QueueStep, StartStep, CrashStep DEF Next, AtRest

-----------------------------------------------------------------------------
\* Workers, jobs, accounts and callbacks satisfy the invariant in every behaviour.
THEOREM WalletsInvariance == Spec => []WalletsInv
BY WalletsInvInit, WalletsInvStep, PTL DEF Spec

\* The wallet path never leaves its state space.
THEOREM WalletsTypeCorrect == Spec => []WalletsTypeOK
<1>1. WalletsInv => WalletsTypeOK
  BY DEF WalletsInv
<1> QED
  BY <1>1, WalletsInvariance, PTL

\* Success is told by no other delivery than the one that created the account (create,
\* Kin.createWallet), so one request per address at most is told of it, whatever fails.
THEOREM SuccessIsTheCreators == Spec => []SuccessIsOwn
<1>1. WalletsInv => SuccessIsOwn
  BY DEF WalletsInv
<1> QED
  BY <1>1, WalletsInvariance, PTL

\* No wallet job completes in silence (create, and done(e) in WorkerApp.run), not even one
\* that several workers run at once after a stall.
THEOREM CompletedAreAnswered == Spec => []CompletedIsAnswered
<1>1. WalletsInv => CompletedIsAnswered
  BY DEF WalletsInv
<1> QED
  BY <1>1, WalletsInvariance, PTL

-----------------------------------------------------------------------------
(* The contract. *)

\* Workers run jobs that were added, and only an active job has a runner: a job that is over
\* is not ended again.
RunsRequested == \A w \in Workers : at[w] # "idle" => status[run[w].job] # "new"

HeldIsActive == \A j \in Jobs : runner[j] # NoWorker => status[j] = "active"

OpenInv == RunsRequested /\ HeldIsActive

\* What a step does to a job: it goes through its states in one direction, and whoever takes
\* it makes it active.
LEMMA JobFrame ==
    ASSUME WalletsInv, HeldIsActive, [Next]_vars, NEW j \in Jobs
    PROVE  /\ status'[j] = "new" => status[j] = "new"
           /\ runner'[j] # NoWorker => status'[j] = "active"
<1> USE DEF WalletsInv, WalletsTypeOK, Queue!QueueTypeOK
<1>1. ASSUME NEW k \in Jobs, Enqueue(k) \/ EnqueueFails(k) \/ Redeliver(k)
      PROVE  /\ status'[j] = "new" => status[j] = "new"
             /\ runner'[j] # NoWorker => status'[j] = "active"
  BY <1>1 DEF HeldIsActive, Enqueue, EnqueueFails, Redeliver, Queue!Add, Queue!Requeue
<1>2. ASSUME NEW w \in Workers, NEW k \in Jobs, Start(w, k)
      PROVE  /\ status'[j] = "new" => status[j] = "new"
             /\ runner'[j] # NoWorker => status'[j] = "active"
  BY <1>2 DEF HeldIsActive, Start, Queue!Take
<1>3. ASSUME NEW w \in Workers, Finish(w)
      PROVE  /\ status'[j] = "new" => status[j] = "new"
             /\ runner'[j] # NoWorker => status'[j] = "active"
  BY <1>3 DEF HeldIsActive, Finish, Queue!Finish
<1>4. ASSUME NEW w \in Workers, Crash(w) \/ (Work(w) /\ ~Finish(w))
      PROVE  UNCHANGED <<status, runner>>
  BY <1>4 DEF Crash, Work, CreateLands, CreateFinds, CreateRejected, CreateReturns,
     CreateReplyLost, Report, ReportFails, ReportFailure, ReportFailureFails
<1>5. CASE UNCHANGED <<status, runner>>
  BY <1>5 DEF HeldIsActive
<1> QED
  BY <1>1, <1>2, <1>3, <1>4, <1>5 DEF Next, AtRest, vars

\* A worker that is busy after a step was busy with the same delivery before it, or has
\* started a job.
LEMMA RunFrame ==
    ASSUME WalletsInv, [Next]_vars, NEW w \in Workers, at'[w] # "idle"
    PROVE  \/ at[w] # "idle" /\ run'[w] = run[w]
           \/ \E j \in Jobs : Start(w, j)
<1> USE DEF WalletsInv, WalletsTypeOK
<1>1. CASE at'[w] = at[w] /\ run'[w] = run[w]
  BY <1>1
<1>2. CASE Work(w)
  BY <1>2 DEF Work, Goes, CreateLands, CreateFinds, CreateRejected, CreateReturns,
     CreateReplyLost, Report, ReportFails, ReportFailure, ReportFailureFails, Finish
<1>3. CASE Crash(w)
  BY <1>3 DEF Crash
<1>4. ASSUME NEW v \in Workers, v # w, Work(v) \/ Crash(v) \/ \E j \in Jobs : Start(v, j)
      PROVE  at'[w] = at[w] /\ run'[w] = run[w]
  BY <1>4 DEF Work, Goes, CreateLands, CreateFinds, CreateRejected, CreateReturns,
     CreateReplyLost, Report, ReportFails, ReportFailure, ReportFailureFails, Finish, Crash,
     Start
<1>5. ASSUME NEW j \in Jobs, Enqueue(j) \/ EnqueueFails(j) \/ Redeliver(j)
      PROVE  UNCHANGED <<at, run>>
  BY <1>5 DEF Enqueue, EnqueueFails, Redeliver
<1> QED
  BY <1>1, <1>2, <1>3, <1>4, <1>5 DEF Next, AtRest, vars

\* Jobs that workers run stay requested, and what is over has no runner.
LEMMA OpenInvStep ==
    ASSUME WalletsInv, OpenInv, [Next]_vars
    PROVE  OpenInv'
<1>0. HeldIsActive /\ RunsRequested
  BY DEF OpenInv
<1>1. HeldIsActive'
  <2>1. \A j \in Jobs : runner'[j] # NoWorker => status'[j] = "active"
    BY <1>0, JobFrame
  <2> QED
    BY <2>1 DEF HeldIsActive
<1>2. ASSUME NEW w \in Workers, at'[w] # "idle" PROVE status'[run'[w].job] # "new"
  <2>1. CASE at[w] # "idle" /\ run'[w] = run[w]
    <3>1. run[w].job \in Jobs /\ status[run[w].job] # "new"
      BY <1>0, <2>1, BusyTypes DEF RunsRequested
    <3>2. status'[run[w].job] # "new"
      BY <1>0, <3>1, JobFrame
    <3> QED
      BY <2>1, <3>2
  <2>2. ASSUME NEW j \in Jobs, Start(w, j) PROVE status'[run'[w].job] # "new"
    BY <2>2 DEF Start, Queue!Take, WalletsInv, WalletsTypeOK, Queue!QueueTypeOK
  <2> QED
    BY <1>2, <2>1, <2>2, RunFrame
<1> QED
  BY <1>1, <1>2 DEF OpenInv, RunsRequested

\* How the requester sees a job.
LEMMA RequestOf ==
    ASSUME WalletsInv, NEW j \in Jobs
    PROVE  /\ Contract!Requested(j) <=> status[j] # "new"
           /\ Contract!Delivery(j, stalls[j]) \in Delivery
BY DEF Contract!Requested, Contract!Delivery, Delivery, WalletsInv, WalletsTypeOK,
       Queue!QueueTypeOK, Queue!Statuses

\* A job that does not change looks the same.
LEMMA RequestStays ==
    ASSUME UNCHANGED <<status, creator, callbacks>>
    PROVE  UNCHANGED Contract!cvars
BY DEF Contract!cvars

\* The steps of the contract that open a request and end it.
LEMMA RequestMoves ==
    ASSUME NEW j \in Jobs, Contract!Request(j) \/ Contract!Complete(j) \/ Contract!GiveUp(j)
    PROVE  Contract!Next
BY DEF Contract!Next

\* Those that create an account and answer the request.
LEMMA RequestIsServed ==
    ASSUME NEW j \in Jobs, NEW n \in 0..MaxStalled,
           \/ Contract!Create(j, n)
           \/ Contract!ReportSuccess(j, n) \/ Contract!ReportFailure(j, n)
    PROVE  Contract!Next
BY DEF Contract!Next

\* The POST opens a request, and Bull, if it gives up, ends it; taking it and handing it out
\* again show nothing.
LEMMA QueueImplements ==
    ASSUME WalletsInv, NEW j \in Jobs,
           Enqueue(j) \/ EnqueueFails(j) \/ Redeliver(j) \/ \E w \in Workers : Start(w, j)
    PROVE  [Contract!Next]_(Contract!cvars)
<1> DEFINE seen(s) == IF s \in {"waiting", "active"} THEN "open" ELSE s
           request == [k \in Jobs |-> seen(status[k])]
<1>1. UNCHANGED <<creator, callbacks>> /\ status \in [Jobs -> Queue!Statuses]
  BY DEF Enqueue, EnqueueFails, Redeliver, Start, WalletsInv, WalletsTypeOK, Queue!QueueTypeOK
<1>2. \/ status' = status
      \/ status[j] = "new" /\ status' = [status EXCEPT ![j] = "waiting"]
      \/ status[j] = "waiting" /\ status' = [status EXCEPT ![j] = "active"]
      \/ status[j] = "active" /\ status' = [status EXCEPT ![j] = "waiting"]
      \/ status[j] = "active" /\ status' = [status EXCEPT ![j] = "failed"]
  BY DEF Enqueue, EnqueueFails, Redeliver, Start, Queue!Add, Queue!Requeue, Queue!Take
<1>3. CASE status' = status
  BY <1>1, <1>3, RequestStays
<1>4. CASE status[j] = "new" /\ status' = [status EXCEPT ![j] = "waiting"]
  <2>1. request[j] = "new" /\ request' = [request EXCEPT ![j] = "open"]
    BY <1>1, <1>4
  <2>2. Contract!Request(j)
    BY <1>1, <2>1 DEF Contract!Request
  <2> QED
    BY <2>2, RequestMoves
<1>5. CASE \/ status[j] = "waiting" /\ status' = [status EXCEPT ![j] = "active"]
           \/ status[j] = "active" /\ status' = [status EXCEPT ![j] = "waiting"]
  <2>1. request' = request
    BY <1>1, <1>5
  <2> QED
    BY <1>1, <2>1 DEF Contract!cvars
<1>6. CASE status[j] = "active" /\ status' = [status EXCEPT ![j] = "failed"]
  <2>1. request[j] = "open" /\ request' = [request EXCEPT ![j] = "failed"]
    BY <1>1, <1>6
  <2>2. Contract!GiveUp(j)
    BY <1>1, <2>1 DEF Contract!GiveUp
  <2> QED
    BY <2>2, RequestMoves
<1> QED
  BY <1>2, <1>3, <1>4, <1>5, <1>6

\* A worker creates an account that does not exist.
LEMMA LandImplements ==
    ASSUME WalletsInv, OpenInv, NEW w \in Workers, CreateLands(w)
    PROVE  Contract!Next
<1> DEFINE j == run[w].job
           n == run[w].attempt
<1>1. /\ creator' = [creator EXCEPT ![Address[j]] = run[w]]
      /\ creator[Address[j]] = NoRun
      /\ UNCHANGED <<status, callbacks>>
      /\ at[w] # "idle"
  BY DEF CreateLands, Goes, Exists, Wallet
<1>2. j \in Jobs /\ run[w] = [job |-> j, attempt |-> n]
  BY <1>1, BusyTypes
<1>3. n \in 0..MaxStalled
  BY <1>1, BusyTypes DEF Delivery
<1>4. Contract!Requested(j)
  BY <1>1, <1>2, RequestOf DEF OpenInv, RunsRequested
<1>5. Contract!Create(j, n)
  BY <1>1, <1>2, <1>4, RequestStays DEF Contract!Create, Contract!Delivery
<1> QED
  BY <1>2, <1>3, <1>5, RequestIsServed

\* A worker that reports success is at the delivery that created the account.
LEMMA ReportImplements ==
    ASSUME WalletsInv, OpenInv, NEW w \in Workers,
           Report(w) \/ ReportFails(w) \/ ReportFailure(w) \/ ReportFailureFails(w)
    PROVE  [Contract!Next]_(Contract!cvars)
<1> DEFINE j == run[w].job
           n == run[w].attempt
<1>1. UNCHANGED <<status, creator>> /\ at[w] # "idle"
  BY DEF Report, ReportFails, ReportFailure, ReportFailureFails, Goes
<1>2. j \in Jobs /\ run[w] = [job |-> j, attempt |-> n]
  BY <1>1, BusyTypes
<1>3. n \in 0..MaxStalled
  BY <1>1, BusyTypes DEF Delivery
<1>4. CASE callbacks' = callbacks
  BY <1>1, <1>4, RequestStays
<1>5. CASE at[w] = "reporting" /\ callbacks' = callbacks \cup {CallbackOf(w, "success")}
  <2>1. creator[Address[j]] = run[w]
    BY <1>5 DEF WalletsInv, ReporterCreated, Wallet
  <2>2. Contract!ReportSuccess(j, n)
    BY <1>1, <1>2, <1>5, <2>1
    DEF Contract!ReportSuccess, Contract!Delivery, Contract!Told, CallbackOf
  <2> QED
    BY <1>2, <1>3, <2>2, RequestIsServed
<1>6. CASE callbacks' = callbacks \cup {CallbackOf(w, "fail")}
  <2>1. Contract!Requested(j)
    BY <1>1, <1>2, RequestOf DEF OpenInv, RunsRequested
  <2>2. Contract!ReportFailure(j, n)
    BY <1>1, <1>6, <2>1 DEF Contract!ReportFailure, Contract!Told, CallbackOf
  <2> QED
    BY <1>2, <1>3, <2>2, RequestIsServed
<1> QED
  BY <1>4, <1>5, <1>6 DEF Report, ReportFails, ReportFailure, ReportFailureFails, Goes

\* The worker that holds a job ends it, once: as completed, if it has answered.
LEMMA FinishImplements ==
    ASSUME WalletsInv, OpenInv, NEW w \in Workers, Finish(w), NEW j \in Jobs, run[w].job = j
    PROVE  [Contract!Next]_(Contract!cvars)
<1> DEFINE seen(s) == IF s \in {"waiting", "active"} THEN "open" ELSE s
           request == [k \in Jobs |-> seen(status[k])]
<1>1. UNCHANGED <<creator, callbacks>> /\ at[w] \in {"finishing", "throwing"}
  BY DEF Finish, Goes
<1>2. status \in [Jobs -> Queue!Statuses]
  BY DEF WalletsInv, WalletsTypeOK, Queue!QueueTypeOK
<1>3. CASE runner[j] # w
  <2>1. status' = status
    BY <1>2, <1>3 DEF Finish, Queue!Finish
  <2> QED
    BY <1>1, <2>1, RequestStays
<1>4. CASE runner[j] = w
  <2>1. status[j] = "active"
    BY <1>2, <1>4 DEF OpenInv, HeldIsActive
  <2>2. request[j] = "open"
    BY <1>2, <2>1
  <2>3. CASE at[w] = "finishing"
    <3>1. status' = [status EXCEPT ![j] = "completed"]
      BY <1>4, <2>3 DEF Finish, Goes, Queue!Finish
    <3>2. request' = [request EXCEPT ![j] = "completed"]
      BY <1>2, <3>1
    <3>3. \E c \in callbacks : c.job = j
      BY <2>3 DEF WalletsInv, FinisherAnswered
    <3>4. Contract!Complete(j)
      BY <1>1, <2>2, <3>2, <3>3 DEF Contract!Complete
    <3> QED
      BY <3>4, RequestMoves
  <2>4. CASE at[w] = "throwing"
    <3>1. status' = [status EXCEPT ![j] = "failed"]
      BY <1>4, <2>4 DEF Finish, Goes, Queue!Finish
    <3>2. request' = [request EXCEPT ![j] = "failed"]
      BY <1>2, <3>1
    <3>3. Contract!GiveUp(j)
      BY <1>1, <2>2, <3>2 DEF Contract!GiveUp
    <3> QED
      BY <3>3, RequestMoves
  <2> QED
    BY <1>1, <2>3, <2>4
<1> QED
  BY <1>3, <1>4

\* The wallet path implements WalletContract, whatever fails: one creator for each account,
\* success told to no other, every request over once and completed only with an answer.
THEOREM WalletsKeepContract == Spec => KeepsContract
<1>1. Init => Contract!Init /\ OpenInv
  BY DEF Init, Contract!Init, OpenInv, RunsRequested, HeldIsActive, Queue!QueueInit
<1>2. WalletsInv /\ OpenInv /\ [Next]_vars => [Contract!Next]_(Contract!cvars)
  <2> SUFFICES ASSUME WalletsInv, OpenInv, [Next]_vars
               PROVE  [Contract!Next]_(Contract!cvars)
    OBVIOUS
  <2>1. ASSUME NEW w \in Workers, Work(w) PROVE [Contract!Next]_(Contract!cvars)
    <3>1. CASE CreateFinds(w) \/ CreateRejected(w) \/ CreateReturns(w) \/ CreateReplyLost(w)
      BY <3>1, RequestStays DEF CreateFinds, CreateRejected, CreateReturns, CreateReplyLost
    <3>2. CASE Finish(w)
      <4>1. run[w].job \in Jobs
        BY <3>2, BusyTypes DEF Finish, Goes
      <4> QED
        BY <3>2, <4>1, FinishImplements
    <3> QED
      BY <2>1, <3>1, <3>2, LandImplements, ReportImplements DEF Work
  <2>2. ASSUME NEW w \in Workers, Crash(w) PROVE [Contract!Next]_(Contract!cvars)
    BY <2>2, RequestStays DEF Crash
  <2>3. CASE UNCHANGED vars
    BY <2>3, RequestStays DEF vars
  <2> QED
    BY <2>1, <2>2, <2>3, QueueImplements DEF Next, AtRest
<1>3. WalletsInv /\ OpenInv /\ [Next]_vars => OpenInv'
  BY OpenInvStep
<1> QED
  BY <1>1, <1>2, <1>3, WalletsInvariance, PTL DEF Spec, KeepsContract, Contract!Spec

-----------------------------------------------------------------------------
(* When the creator of a wallet is told of success. *)

\* The creator of every account was told of success, or a worker is on its way to tell.
ToldOrTelling ==
    \A a \in Addresses : Exists(a) =>
        \/ \E c \in callbacks : c.job = creator[a].job /\ c.state = "success"
        \/ \E w \in Workers : at[w] \in {"landed", "reporting"} /\ run[w] = creator[a]

\* Without crashes, lost results and failing Redis commands, whoever has created an account
\* goes on until the callback is enqueued.
LEMMA TellingGoes ==
    ASSUME WalletsInv, [Next]_vars, Faults \cap {"crash", "redis", "replyLost"} = {},
           NEW w \in Workers, at[w] \in {"landed", "reporting"}
    PROVE  \/ at'[w] \in {"landed", "reporting"} /\ run'[w] = run[w]
           \/ CallbackOf(w, "success") \in callbacks'
<1> USE DEF WalletsInv, WalletsTypeOK
<1>1. CASE Work(w)
  BY <1>1 DEF Work, Goes, CreateLands, CreateFinds, CreateRejected, CreateReturns,
     CreateReplyLost, Report, ReportFails, ReportFailure, ReportFailureFails, Finish
<1>2. ASSUME NEW v \in Workers, Crash(v) PROVE FALSE
  BY <1>2 DEF Crash
<1>3. ASSUME NEW v \in Workers, v # w, Work(v)
      PROVE  at'[w] = at[w] /\ run'[w] = run[w]
  BY <1>3 DEF Work, Goes, CreateLands, CreateFinds, CreateRejected, CreateReturns,
     CreateReplyLost, Report, ReportFails, ReportFailure, ReportFailureFails, Finish
<1>4. ASSUME NEW v \in Workers, NEW j \in Jobs, Start(v, j)
      PROVE  at'[w] = at[w] /\ run'[w] = run[w]
  BY <1>4 DEF Start, Goes
<1>5. ASSUME NEW j \in Jobs, Enqueue(j) \/ EnqueueFails(j) \/ Redeliver(j)
      PROVE  UNCHANGED <<at, run>>
  BY <1>5 DEF Enqueue, EnqueueFails, Redeliver
<1> QED
  BY <1>1, <1>2, <1>3, <1>4, <1>5 DEF Next, AtRest, vars

\* Accounts get their creator when a transaction lands, and callbacks are not taken back.
LEMMA CreatorFrame ==
    ASSUME WalletsInv, [Next]_vars
    PROVE  /\ callbacks \subseteq callbacks'
           /\ creator' = creator \/ \E w \in Workers : CreateLands(w)
<1>1. ASSUME NEW w \in Workers, Work(w)
      PROVE  callbacks \subseteq callbacks' /\ (creator' = creator \/ CreateLands(w))
  BY <1>1 DEF Work, CreateLands, CreateFinds, CreateRejected, CreateReturns,
     CreateReplyLost, Report, ReportFails, ReportFailure, ReportFailureFails, Finish
<1>2. ASSUME \/ \E w \in Workers : Crash(w) \/ \E j \in Jobs : Start(w, j)
             \/ \E j \in Jobs : Enqueue(j) \/ EnqueueFails(j) \/ Redeliver(j)
             \/ UNCHANGED vars
      PROVE  UNCHANGED <<creator, callbacks>>
  BY <1>2 DEF Crash, Start, Enqueue, EnqueueFails, Redeliver, vars
<1> QED
  BY <1>1, <1>2 DEF Next, AtRest

\* An account's creator stays told, or about to tell.
LEMMA ToldStep ==
    ASSUME WalletsInv, ToldOrTelling, [Next]_vars,
           Faults \cap {"crash", "redis", "replyLost"} = {}
    PROVE  ToldOrTelling'
<1> SUFFICES ASSUME NEW a \in Addresses, creator'[a] # NoRun
             PROVE  \/ \E c \in callbacks' : c.job = creator'[a].job /\ c.state = "success"
                    \/ \E w \in Workers : /\ at'[w] \in {"landed", "reporting"}
                                          /\ run'[w] = creator'[a]
  BY DEF ToldOrTelling, Exists
<1>1. CASE creator'[a] = creator[a]
  <2>1. CASE \E c \in callbacks : c.job = creator[a].job /\ c.state = "success"
    BY <1>1, <2>1, CreatorFrame
  <2>2. ASSUME NEW w \in Workers, at[w] \in {"landed", "reporting"}, run[w] = creator[a]
        PROVE  \/ \E c \in callbacks' : c.job = creator'[a].job /\ c.state = "success"
               \/ \E v \in Workers : /\ at'[v] \in {"landed", "reporting"}
                                     /\ run'[v] = creator'[a]
    <3>1. CallbackOf(w, "success").job = creator[a].job
          /\ CallbackOf(w, "success").state = "success"
      BY <2>2 DEF CallbackOf
    <3>2. CASE CallbackOf(w, "success") \in callbacks'
      BY <1>1, <3>1, <3>2
    <3>3. CASE at'[w] \in {"landed", "reporting"} /\ run'[w] = run[w]
      BY <1>1, <2>2, <3>3
    <3> QED
      BY <2>2, <3>2, <3>3, TellingGoes
  <2> QED
    BY <1>1, <2>1, <2>2 DEF ToldOrTelling, Exists
<1>2. CASE creator'[a] # creator[a]
  <2>1. PICK w \in Workers : CreateLands(w)
    BY <1>2, CreatorFrame
  <2>2. creator'[a] = run[w]
    BY <1>2, <2>1 DEF CreateLands, WalletsInv, WalletsTypeOK
  <2>3. at'[w] = "landed" /\ run'[w] = run[w]
    BY <2>1 DEF CreateLands, Goes, WalletsInv, WalletsTypeOK
  <2> QED
    BY <2>2, <2>3
<1> QED
  BY <1>1, <1>2

\* "wallet already exists - ok" (the log line of create) is true of the creator as long as no
\* worker dies, no result is lost and no Redis command fails: however often Bull hands the job
\* out and however many requests there are for the account, the creator is told of success.
THEOREM CreatorsAreTold ==
    ASSUME Faults \cap {"crash", "redis", "replyLost"} = {}
    PROVE  Spec => []CreatorIsTold
<1>1. Init => ToldOrTelling
  BY DEF Init, ToldOrTelling, Exists
<1>2. WalletsInv /\ ToldOrTelling /\ [Next]_vars => ToldOrTelling'
  BY ToldStep
<1>3. ToldOrTelling => CreatorIsTold
  <2> SUFFICES ASSUME ToldOrTelling, NEW a \in Addresses, Exists(a),
                      \A w \in Workers : run[w].job # creator[a].job
               PROVE  \E c \in callbacks : c.job = creator[a].job /\ c.state = "success"
    BY DEF CreatorIsTold
  <2> QED
    BY DEF ToldOrTelling
<1> QED
  BY <1>1, <1>2, <1>3, WalletsInvariance, PTL DEF Spec
=============================================================================
