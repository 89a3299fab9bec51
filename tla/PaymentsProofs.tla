--------------------------- MODULE PaymentsProofs ---------------------------
(***************************************************************************)
(* Proofs about Payments: type correctness, the inductive invariant IInv   *)
(* with NoDoubleSpend, and the refinement of PaymentContract, for every    *)
(* set of requests, payment ids, workers and faults.                       *)
(***************************************************************************)
EXTENDS Payments, TLAPS

USE ConstantsAssumption

-----------------------------------------------------------------------------
(* Type correctness. *)

\* The initial state is well formed.
LEMMA TypeInit == Init => TypeOK
BY DEF Init, TypeOK, Queue!QueueInit, Queue!QueueTypeOK, Queue!Statuses,
       Locks!LockInit, Locks!LockTypeOK, PostStates, Stages, NoRun, Run

\* A step of the web API keeps the state well formed.
LEMMA WebType ==
    ASSUME TypeOK, NEW j \in Jobs, Web(j)
    PROVE  TypeOK'
<1> USE DEF TypeOK, webVars, workerVars, PostStates, PostGoes
<1>1. Queue!QueueTypeOK'
  BY DEF Queue!QueueTypeOK, Queue!Statuses, Queue!Add, Web, CheckPost, CheckPostFails,
         Accept, Enqueue, EnqueueFails
<1>2. Locks!LockTypeOK'
  BY DEF Locks!LockTypeOK, Web, CheckPost, CheckPostFails, Accept, Enqueue, EnqueueFails
<1>3. post' \in [Jobs -> PostStates]
  BY DEF Web, CheckPost, CheckPostFails, Accept, Enqueue, EnqueueFails
<1>4. UNCHANGED <<at, run, store, ledger, callbacks, disturbed>>
  BY DEF Web, CheckPost, CheckPostFails, Accept, Enqueue, EnqueueFails
<1> QED
  BY <1>1, <1>2, <1>3, <1>4

\* What a worker runs when it pays or reports is a job and one of its deliveries.
LEMMA WorkerType ==
    ASSUME TypeOK, RunsAcceptedJob, NEW w \in Workers, at[w] # "idle"
    PROVE  /\ run[w].job \in Jobs
           /\ run[w].attempt \in 0..MaxStalled
           /\ Id(w) \in Ids
           /\ SuccessCallback(w) \in Callback
           /\ FailCallback(w) \in Callback
<1>1. run[w].job \in Jobs /\ run[w].attempt \in 0..MaxStalled /\ run[w].tx \in Nat
  BY DEF TypeOK, RunsAcceptedJob, Run
<1> QED
  BY <1>1 DEF Id, SuccessCallback, FailCallback, Callback

\* A step of a worker keeps the state well formed.
LEMMA WorkType ==
    ASSUME TypeOK, RunsAcceptedJob, NEW w \in Workers, Work(w)
    PROVE  TypeOK'
<1>1. at[w] # "idle"
  BY DEF Work, Goes, AcquireLock, GiveUpLock, Check, CheckFails, PayLands, PayRejected,
         PayReturns, PayReplyLost, SavePayment, SavePaymentFails, Report, ReportFails,
         ReportFailure, ReportFailureFails, Unlock, UnlockFails, Finish
<1>2. /\ run[w].job \in Jobs /\ run[w].attempt \in 0..MaxStalled /\ Id(w) \in Ids
      /\ SuccessCallback(w) \in Callback /\ FailCallback(w) \in Callback
  BY <1>1, WorkerType
<1>3. run[w].tx \in Nat
  BY DEF TypeOK, Run
<1> USE DEF TypeOK, webVars, Goes, Stages
<1>4. CASE AcquireLock(w) \/ Unlock(w)
  <2>1. Locks!LockTypeOK'
    BY <1>2, <1>4 DEF AcquireLock, Unlock, Locks!LockTypeOK, Locks!Acquire, Locks!Release
  <2> QED
    BY <1>4, <2>1 DEF AcquireLock, Unlock, Queue!QueueTypeOK
<1>5. CASE PayLands(w)
  <2>1. [job |-> run[w].job, attempt |-> run[w].attempt] \in Payment
    BY <1>2 DEF Payment
  <2>2. ledger' \in Seq(Payment)
    BY <1>5, <2>1 DEF PayLands
  <2>3. run' \in [Workers -> Run]
    <3>1. run[w] \in Run /\ Len(ledger) + 1 \in Nat
      OBVIOUS
    <3> QED
      BY <1>5, <3>1 DEF PayLands, Run
  <2> QED
    BY <1>5, <2>2, <2>3 DEF PayLands, Locks!LockTypeOK, Queue!QueueTypeOK
<1>6. CASE PayReplyLost(w) \/ SavePayment(w) \/ SavePaymentFails(w)
  BY <1>2, <1>3, <1>6 DEF PayReplyLost, SavePayment, SavePaymentFails, savePayment,
                    Locks!LockTypeOK, Queue!QueueTypeOK
<1>7. CASE Report(w) \/ ReportFails(w) \/ ReportFailure(w) \/ ReportFailureFails(w)
  BY <1>2, <1>7 DEF Report, ReportFails, ReportFailure, ReportFailureFails,
                    Locks!LockTypeOK, Queue!QueueTypeOK
<1>8. CASE Finish(w)
  <2>1. run' \in [Workers -> Run]
    BY <1>8 DEF Finish, NoRun, Run
  <2> QED
    BY <1>2, <1>8, <2>1 DEF Finish, Queue!Finish, Locks!LockTypeOK, Queue!QueueTypeOK,
                            Queue!Statuses
<1>9. CASE \/ GiveUpLock(w) \/ Check(w) \/ CheckFails(w) \/ PayRejected(w)
           \/ PayReturns(w) \/ UnlockFails(w)
  BY <1>9 DEF GiveUpLock, Check, CheckFails, PayRejected, PayReturns, UnlockFails,
              Locks!LockTypeOK, Queue!QueueTypeOK
<1> QED
  BY <1>4, <1>5, <1>6, <1>7, <1>8, <1>9 DEF Work

\* A step of the queue or of the environment keeps the state well formed.
LEMMA EnvironmentType ==
    ASSUME TypeOK, RunsAcceptedJob,
           \/ \E j \in Jobs : Redeliver(j) \/ \E w \in Workers : Start(w, j)
           \/ \E w \in Workers : Crash(w)
           \/ \E i \in Ids : ExpireLock(i) \/ ExpireRecord(i)
    PROVE  TypeOK'
<1> USE DEF TypeOK, webVars, workerVars, Goes, Stages
<1>1. ASSUME NEW j \in Jobs, Redeliver(j) PROVE TypeOK'
  <2>1. stalls' \in [Jobs -> 0..MaxStalled]
    BY <1>1 DEF Redeliver, Queue!Requeue, Queue!QueueTypeOK
  <2>2. status' \in [Jobs -> Queue!Statuses] /\ runner' \in [Jobs -> Workers \cup {NoWorker}]
    BY <1>1 DEF Redeliver, Queue!Requeue, Queue!QueueTypeOK, Queue!Statuses
  <2> QED
    BY <1>1, <2>1, <2>2 DEF Redeliver, Queue!QueueTypeOK, Locks!LockTypeOK
<1>2. ASSUME NEW j \in Jobs, NEW w \in Workers, Start(w, j) PROVE TypeOK'
  <2>1. run' \in [Workers -> Run]
    BY <1>2 DEF Start, Run, Queue!QueueTypeOK
  <2> QED
    BY <1>2, <2>1 DEF Start, Queue!Take, Queue!QueueTypeOK, Queue!Statuses, Locks!LockTypeOK
<1>3. ASSUME NEW w \in Workers, Crash(w) PROVE TypeOK'
  <2>1. Id(w) \in Ids
    BY <1>3, WorkerType DEF Crash
  <2>2. run' \in [Workers -> Run]
    BY <1>3 DEF Crash, NoRun, Run
  <2> QED
    BY <1>3, <2>1, <2>2 DEF Crash, Queue!QueueTypeOK, Locks!LockTypeOK
<1>4. ASSUME NEW i \in Ids, ExpireLock(i) \/ ExpireRecord(i) PROVE TypeOK'
  <2>1. lock' \in [Ids -> Workers \cup {Free}]
    BY <1>4 DEF ExpireLock, ExpireRecord, Locks!Expire, Locks!LockTypeOK
  <2>2. store' \in [Ids -> Nat]
    BY <1>4 DEF ExpireLock, ExpireRecord
  <2>3. disturbed' \in {disturbed, disturbed \cup {i}}
    BY <1>4 DEF ExpireLock, ExpireRecord
  <2> QED
    BY <1>4, <2>1, <2>2, <2>3 DEF ExpireLock, ExpireRecord, Queue!QueueTypeOK, Locks!LockTypeOK
<1> QED
  BY <1>1, <1>2, <1>3, <1>4

\* Every step keeps the state well formed, as long as workers run jobs.
LEMMA TypeStep == TypeOK /\ RunsAcceptedJob /\ [Next]_vars => TypeOK'
<1> SUFFICES ASSUME TypeOK, RunsAcceptedJob, [Next]_vars PROVE TypeOK'
  OBVIOUS
<1>1. CASE UNCHANGED vars
  BY <1>1 DEF vars, TypeOK, Queue!QueueTypeOK, Locks!LockTypeOK
<1>2. CASE Next
  BY <1>1, <1>2, WebType, WorkType, EnvironmentType DEF Next, AtRest
<1> QED
  BY <1>1, <1>2

-----------------------------------------------------------------------------
(* Workers run accepted requests. *)

\* No request is taken back: what was answered 201 stays accepted.
LEMMA AcceptedStays ==
    ASSUME TypeOK, [Next]_vars, NEW j \in Jobs, Accepted(j)
    PROVE  Accepted(j)'
<1>1. post' = post \/ \E k \in Jobs : Web(k)
  BY DEF Next, vars, AtRest, webVars, Redeliver, Crash, Start, ExpireLock, ExpireRecord,
         Work, AcquireLock, GiveUpLock, Check, CheckFails, PayLands, PayRejected,
         PayReturns, PayReplyLost, SavePayment, SavePaymentFails, Report, ReportFails,
         ReportFailure, ReportFailureFails, Unlock, UnlockFails, Finish
<1>2. ASSUME NEW k \in Jobs, Web(k) PROVE Accepted(j)'
  BY <1>2 DEF Web, CheckPost, CheckPostFails, Accept, Enqueue, EnqueueFails, PostGoes,
              Accepted, TypeOK
<1> QED
  BY <1>1, <1>2 DEF Accepted

\* A job that is in the queue was accepted.
LEMMA QueuedWasAccepted ==
    ASSUME TypeOK, RunsAcceptedJob, [Next]_vars, NEW j \in Jobs, status'[j] # "new"
    PROVE  Accepted(j)'
<1>1. CASE status[j] # "new"
  BY <1>1, AcceptedStays DEF RunsAcceptedJob
<1>2. CASE status[j] = "new"
  <2>1. ASSUME NEW w \in Workers, Finish(w) PROVE Accepted(j)'
    <3>1. run[w].job = j
      BY <2>1, <1>2 DEF Finish, Queue!Finish, TypeOK, Queue!QueueTypeOK
    <3> QED
      BY <3>1, <2>1, AcceptedStays DEF RunsAcceptedJob, Finish, Goes
  <2>2. ASSUME NEW w \in Workers, NEW k \in Jobs, Start(w, k) PROVE FALSE
    BY <2>2, <1>2 DEF Start, Queue!Take, TypeOK, Queue!QueueTypeOK
  <2>3. ASSUME NEW k \in Jobs, Redeliver(k) PROVE FALSE
    BY <2>3, <1>2 DEF Redeliver, Queue!Requeue, TypeOK, Queue!QueueTypeOK
  <2>4. ASSUME NEW k \in Jobs, Web(k) PROVE Accepted(j)'
    BY <2>4, <1>2 DEF Web, CheckPost, CheckPostFails, Accept, Enqueue, EnqueueFails,
         PostGoes, Accepted, Queue!Add, TypeOK, Queue!QueueTypeOK
  <2>5. ASSUME NEW w \in Workers, Work(w), ~Finish(w) PROVE FALSE
    BY <2>5, <1>2 DEF Work, AcquireLock, GiveUpLock, Check, CheckFails, PayLands,
         PayRejected, PayReturns, PayReplyLost, SavePayment, SavePaymentFails, Report,
         ReportFails, ReportFailure, ReportFailureFails, Unlock, UnlockFails
  <2>6. ASSUME NEW w \in Workers, Crash(w) PROVE FALSE
    BY <2>6, <1>2 DEF Crash
  <2>7. ASSUME NEW i \in Ids, ExpireLock(i) \/ ExpireRecord(i) PROVE FALSE
    BY <2>7, <1>2 DEF ExpireLock, ExpireRecord
  <2>8. Next
    BY <1>2 DEF vars
  <2> QED
    BY <1>2, <2>1, <2>2, <2>3, <2>4, <2>5, <2>6, <2>7, <2>8 DEF Next, AtRest, vars
<1> QED
  BY <1>1, <1>2

-----------------------------------------------------------------------------
(* What a step can change: only its own worker, and the ledger, the records, *)
(* the locks and the history only in a few places.                           *)

\* A step leaves a worker alone unless it is a step of this worker.
LEMMA WorkerFrame ==
    ASSUME TypeOK, [Next]_vars, NEW w \in Workers
    PROVE  \/ at'[w] = at[w] /\ run'[w] = run[w]
           \/ Work(w) \/ Crash(w) \/ \E j \in Jobs : Start(w, j)
<1>1. ASSUME NEW v \in Workers, v # w, Work(v) PROVE at'[w] = at[w] /\ run'[w] = run[w]
  BY <1>1 DEF Work, Goes, AcquireLock, GiveUpLock, Check, CheckFails, PayLands,
         PayRejected, PayReturns, PayReplyLost, SavePayment, SavePaymentFails, Report,
         ReportFails, ReportFailure, ReportFailureFails, Unlock, UnlockFails, Finish, TypeOK
<1>2. ASSUME NEW v \in Workers, v # w, Crash(v) \/ \E j \in Jobs : Start(v, j)
      PROVE  at'[w] = at[w] /\ run'[w] = run[w]
  BY <1>2 DEF Crash, Start, Goes, TypeOK
<1>3. ASSUME NEW j \in Jobs, Web(j) \/ Redeliver(j) PROVE UNCHANGED <<at, run>>
  BY <1>3 DEF Web, CheckPost, CheckPostFails, Accept, Enqueue, EnqueueFails, Redeliver,
              workerVars
<1>4. ASSUME NEW i \in Ids, ExpireLock(i) \/ ExpireRecord(i) PROVE UNCHANGED <<at, run>>
  BY <1>4 DEF ExpireLock, ExpireRecord, workerVars
<1>5. ASSUME UNCHANGED vars PROVE UNCHANGED <<at, run>>
  BY <1>5 DEF vars
<1> QED
  BY <1>1, <1>2, <1>3, <1>4, <1>5 DEF Next, AtRest

\* Only Kin.pay extends the ledger; nothing is ever taken out of it.
LEMMA LedgerFrame ==
    ASSUME [Next]_vars
    PROVE  ledger' = ledger \/ \E w \in Workers : PayLands(w)
<1>1. ASSUME NEW w \in Workers, Work(w), ~PayLands(w) PROVE ledger' = ledger
  BY <1>1 DEF Work, AcquireLock, GiveUpLock, Check, CheckFails, PayRejected, PayReturns,
         PayReplyLost, SavePayment, SavePaymentFails, Report, ReportFails,
         ReportFailure, ReportFailureFails, Unlock, UnlockFails, Finish
<1>2. ASSUME NEW j \in Jobs, Web(j) \/ Redeliver(j) \/ \E w \in Workers : Start(w, j)
      PROVE  ledger' = ledger
  BY <1>2 DEF Web, CheckPost, CheckPostFails, Accept, Enqueue, EnqueueFails, Redeliver, Start
<1>3. ASSUME NEW i \in Ids, ExpireLock(i) \/ ExpireRecord(i) PROVE ledger' = ledger
  BY <1>3 DEF ExpireLock, ExpireRecord
<1>4. ASSUME NEW w \in Workers, Crash(w) PROVE ledger' = ledger
  BY <1>4 DEF Crash
<1> QED
  BY <1>1, <1>2, <1>3, <1>4 DEF Next, AtRest, vars

\* An id whose protection was broken stays marked.
LEMMA DisturbedGrows == [Next]_vars => disturbed \subseteq disturbed'
<1> SUFFICES ASSUME [Next]_vars PROVE disturbed \subseteq disturbed'
  OBVIOUS
<1>1. ASSUME NEW w \in Workers, Work(w) PROVE disturbed \subseteq disturbed'
  BY <1>1 DEF Work, AcquireLock, GiveUpLock, Check, CheckFails, PayLands, PayRejected,
         PayReturns, PayReplyLost, SavePayment, SavePaymentFails, Report, ReportFails,
         ReportFailure, ReportFailureFails, Unlock, UnlockFails, Finish
<1>2. ASSUME NEW j \in Jobs, Web(j) \/ Redeliver(j) \/ \E w \in Workers : Start(w, j)
      PROVE  disturbed \subseteq disturbed'
  BY <1>2 DEF Web, CheckPost, CheckPostFails, Accept, Enqueue, EnqueueFails, Redeliver, Start
<1>3. ASSUME NEW i \in Ids, ExpireLock(i) \/ ExpireRecord(i)
      PROVE  disturbed \subseteq disturbed'
  BY <1>3 DEF ExpireLock, ExpireRecord
<1>4. ASSUME NEW w \in Workers, Crash(w) PROVE disturbed \subseteq disturbed'
  BY <1>4 DEF Crash
<1> QED
  BY <1>1, <1>2, <1>3, <1>4 DEF Next, AtRest, vars

\* A payment that lands is the last one of the ledger, and the others stay as they are.
LEMMA PayAppends ==
    ASSUME TypeOK, NEW w \in Workers, PayLands(w)
    PROVE  /\ \A n \in DOMAIN ledger : n \in DOMAIN ledger' /\ ledger'[n] = ledger[n]
           /\ Len(ledger) + 1 \in DOMAIN ledger'
           /\ ledger'[Len(ledger) + 1] = [job |-> run[w].job, attempt |-> run[w].attempt]
           /\ \A n \in DOMAIN ledger' :
                n \notin DOMAIN ledger => n = Len(ledger) + 1 /\ ledger'[n].job = run[w].job
BY DEF PayLands, TypeOK

-----------------------------------------------------------------------------
(* The conjuncts of IInv, one lemma each. *)

\* A busy worker runs an accepted request, and knows the transaction it made.
LEMMA RunsStep ==
    ASSUME TypeOK, RunsAcceptedJob, [Next]_vars
    PROVE  RunsAcceptedJob'
<1>1. \A j \in Jobs : status'[j] # "new" => Accepted(j)'
  BY QueuedWasAccepted
<1>2. ASSUME NEW w \in Workers, at'[w] # "idle"
      PROVE  run'[w].job \in Jobs /\ Accepted(run[w].job)'
  <2>1. CASE at'[w] = at[w] /\ run'[w] = run[w]
    <3>1. run[w].job \in Jobs /\ Accepted(run[w].job)
      BY <1>2, <2>1 DEF RunsAcceptedJob
    <3> QED
      BY <2>1, <3>1, AcceptedStays DEF Accepted
  <2>2. CASE Work(w)
    <3>1. at[w] # "idle" /\ run'[w].job = run[w].job
      BY <1>2, <2>2 DEF Work, Goes, AcquireLock, GiveUpLock, Check, CheckFails, PayLands,
         PayRejected, PayReturns, PayReplyLost, SavePayment, SavePaymentFails, Report,
         ReportFails, ReportFailure, ReportFailureFails, Unlock, UnlockFails, Finish, TypeOK,
         Run
    <3>2. run[w].job \in Jobs /\ Accepted(run[w].job)
      BY <3>1 DEF RunsAcceptedJob
    <3> QED
      BY <3>1, <3>2, AcceptedStays DEF Accepted
  <2>3. CASE Crash(w)
    BY <1>2, <2>3 DEF Crash, TypeOK
  <2>4. ASSUME NEW j \in Jobs, Start(w, j) PROVE run'[w].job \in Jobs /\ Accepted(run[w].job)'
    <3>1. run'[w].job = j /\ Accepted(j)
      BY <2>4 DEF Start, Queue!Take, RunsAcceptedJob, TypeOK
    <3> QED
      BY <3>1, AcceptedStays DEF Accepted
  <2> QED
    BY <2>1, <2>2, <2>3, <2>4, WorkerFrame
<1>3. ASSUME NEW w \in Workers, at'[w] \in {"landed", "saving", "reporting"}
      PROVE  /\ run'[w].tx \in DOMAIN ledger'
             /\ ledger'[run'[w].tx] = [job |-> run'[w].job, attempt |-> run'[w].attempt]
  <2>1. CASE PayLands(w)
    <3>1. run'[w].tx = Len(ledger) + 1 /\ run'[w].job = run[w].job
              /\ run'[w].attempt = run[w].attempt
      BY <2>1 DEF PayLands, TypeOK, Run
    <3> QED
      BY <2>1, <3>1, PayAppends
  <2>2. CASE ~PayLands(w)
    <3>1. at[w] \in {"landed", "saving", "reporting"} /\ run'[w] = run[w]
      <4>1. CASE Work(w)
        BY <1>3, <2>2, <4>1 DEF Work, Goes, AcquireLock, GiveUpLock, Check, CheckFails,
           PayRejected, PayReturns, PayReplyLost, SavePayment, SavePaymentFails, Report,
           ReportFails, ReportFailure, ReportFailureFails, Unlock, UnlockFails, Finish, TypeOK
      <4>2. ASSUME Crash(w) \/ \E j \in Jobs : Start(w, j) PROVE FALSE
        BY <1>3, <4>2 DEF Crash, Start, Goes, TypeOK
      <4> QED
        BY <1>3, <4>1, <4>2, WorkerFrame
    <3>2. run[w].tx \in DOMAIN ledger
            /\ ledger[run[w].tx] = [job |-> run[w].job, attempt |-> run[w].attempt]
      BY <3>1 DEF RunsAcceptedJob
    <3> QED
      BY <3>1, <3>2, LedgerFrame, PayAppends
  <2> QED
    BY <2>1, <2>2
<1> QED
  BY <1>1, <1>2, <1>3 DEF RunsAcceptedJob, Accepted

\* Only Redis gives and takes locks: by a worker's own step, or when one is over.
LEMMA LockFrame ==
    ASSUME TypeOK, [Next]_vars, NEW k \in Ids
    PROVE  \/ lock'[k] = lock[k]
           \/ \E w \in Workers : AcquireLock(w) /\ Id(w) = k
           \/ \E w \in Workers : Unlock(w) /\ Id(w) = k /\ lock[k] = w
           \/ ExpireLock(k)
<1>1. ASSUME NEW w \in Workers, Work(w), ~AcquireLock(w), ~Unlock(w) PROVE lock' = lock
  BY <1>1 DEF Work, GiveUpLock, Check, CheckFails, PayLands, PayRejected, PayReturns,
         PayReplyLost, SavePayment, SavePaymentFails, Report, ReportFails,
         ReportFailure, ReportFailureFails, UnlockFails, Finish
<1>2. ASSUME NEW j \in Jobs, Web(j) \/ Redeliver(j) \/ \E w \in Workers : Start(w, j)
      PROVE  lock' = lock
  BY <1>2 DEF Web, CheckPost, CheckPostFails, Accept, Enqueue, EnqueueFails, Redeliver, Start
<1>3. ASSUME NEW i \in Ids, ExpireRecord(i) \/ (ExpireLock(i) /\ i # k)
      PROVE  lock'[k] = lock[k]
  BY <1>3 DEF ExpireLock, ExpireRecord, Locks!Expire, TypeOK, Locks!LockTypeOK
<1>4. ASSUME NEW w \in Workers, Crash(w) PROVE lock' = lock
  BY <1>4 DEF Crash
<1>5. ASSUME NEW w \in Workers, AcquireLock(w) \/ Unlock(w), Id(w) # k
      PROVE  lock'[k] = lock[k]
  BY <1>5 DEF AcquireLock, Unlock, Locks!Acquire, Locks!Release, TypeOK, Locks!LockTypeOK
<1>6. ASSUME NEW w \in Workers, Unlock(w), Id(w) = k, lock[k] # w PROVE lock'[k] = lock[k]
  BY <1>6 DEF Unlock, Locks!Release, TypeOK, Locks!LockTypeOK
<1> QED
  BY <1>1, <1>2, <1>3, <1>4, <1>5, <1>6 DEF Next, AtRest, vars

\* A worker comes between the check and the record only with a fresh lock.
LEMMA EntersGuarded ==
    ASSUME TypeOK, [Next]_vars, NEW w \in Workers, at'[w] \in Guarded
    PROVE  \/ AcquireLock(w)
           \/ at[w] \in Guarded /\ Id(w)' = Id(w)
<1>1. CASE at'[w] = at[w] /\ run'[w] = run[w]
  BY <1>1 DEF Id
<1>2. CASE Work(w)
  <2>1. at'[w] \in {"idle", "failing", "reporting", "unlocking", "finishing"} => FALSE
    BY DEF Guarded
  <2>2. CASE GiveUpLock(w) \/ Check(w) \/ CheckFails(w) \/ PayRejected(w) \/ PayReplyLost(w)
    BY <2>1, <2>2 DEF Guarded, Id, Goes, GiveUpLock, Check, CheckFails, PayRejected,
       PayReplyLost, TypeOK
  <2>3. CASE PayLands(w) \/ PayReturns(w)
    <3>1. at[w] \in Guarded
      BY <2>3 DEF Guarded, Goes, PayLands, PayReturns
    <3>2. run \in [Workers -> Run] /\ run[w] \in Run
      BY DEF TypeOK
    <3>3. run'[w].job = run[w].job
      BY <2>3, <3>2 DEF PayLands, PayReturns, Run
    <3> QED
      BY <3>1, <3>3 DEF Id
  <2>4. CASE \/ SavePayment(w) \/ SavePaymentFails(w) \/ Report(w) \/ ReportFails(w)
             \/ ReportFailure(w) \/ ReportFailureFails(w) \/ Unlock(w) \/ UnlockFails(w)
             \/ Finish(w)
    BY <2>1, <2>4 DEF Goes, SavePayment, SavePaymentFails, Report, ReportFails,
       ReportFailure, ReportFailureFails, Unlock, UnlockFails, Finish, TypeOK
  <2> QED
    BY <1>2, <2>2, <2>3, <2>4 DEF Work
<1>3. ASSUME Crash(w) \/ \E j \in Jobs : Start(w, j) PROVE FALSE
  BY <1>3 DEF Guarded, Crash, Start, Goes, TypeOK
<1> QED
  BY <1>1, <1>2, <1>3, WorkerFrame

\* Between the check and the record a worker keeps the lock.
LEMMA GuardedStep ==
    ASSUME TypeOK, RunsAcceptedJob, GuardedHoldsLock, [Next]_vars
    PROVE  GuardedHoldsLock'
<1> SUFFICES ASSUME NEW w \in Workers, at'[w] \in Guarded, Id(w)' \notin disturbed'
             PROVE  lock'[Id(w)'] = w
  BY DEF GuardedHoldsLock
<1>1. CASE AcquireLock(w)
  <2>1. at[w] = "locking" /\ Id(w)' = Id(w) /\ Id(w) \in Ids
    BY <1>1, WorkerType DEF AcquireLock, Goes, Id
  <2> QED
    BY <1>1, <2>1 DEF AcquireLock, Locks!Acquire, TypeOK, Locks!LockTypeOK
<1>2. CASE at[w] \in Guarded /\ Id(w)' = Id(w)
  <2>1. Id(w) \in Ids /\ at[w] # "idle"
    BY <1>2, WorkerType DEF Guarded
  <2>2. Id(w) \notin disturbed
    BY <1>2, DisturbedGrows
  <2>3. lock[Id(w)] = w
    BY <1>2, <2>2 DEF GuardedHoldsLock
  <2>4. ASSUME NEW v \in Workers, AcquireLock(v), Id(v) = Id(w) PROVE FALSE
    BY <2>3, <2>4 DEF AcquireLock, Locks!Acquire, Locks!LockIsFree
  <2>5. ASSUME NEW v \in Workers, Unlock(v), Id(v) = Id(w), lock[Id(w)] = v PROVE FALSE
    BY <1>2, <2>3, <2>5 DEF Unlock, Goes, Guarded
  <2>6. ASSUME ExpireLock(Id(w)) PROVE FALSE
    BY <1>2, <2>3, <2>6 DEF ExpireLock, Guards
  <2>7. lock'[Id(w)] = lock[Id(w)]
    BY <2>1, <2>4, <2>5, <2>6, LockFrame
  <2> QED
    BY <1>2, <2>3, <2>7
<1> QED
  BY <1>1, <1>2, EntersGuarded

\* Two workers that guard the same id are the same worker.
LEMMA GuardedIsAlone ==
    ASSUME GuardedHoldsLock,
           NEW v \in Workers, NEW w \in Workers, at[v] \in Guarded, at[w] \in Guarded,
           Id(v) = Id(w), Id(w) \notin disturbed
    PROVE  v = w
BY DEF GuardedHoldsLock

\* A worker only pays what nobody has paid.
LEMMA PayingStep ==
    ASSUME TypeOK, RunsAcceptedJob, GuardedHoldsLock, PaidIsRecorded, PayingIsFirst,
           [Next]_vars
    PROVE  PayingIsFirst'
<1> SUFFICES ASSUME NEW w \in Workers, at'[w] = "paying", Id(w)' \notin disturbed',
                    NEW n \in DOMAIN ledger'
             PROVE  PaymentId[ledger'[n].job] # Id(w)'
  BY DEF PayingIsFirst
<1>1. at[w] \in Guarded /\ Id(w)' = Id(w) /\ Id(w) \notin disturbed /\ Id(w) \in Ids
  <2>1. ~AcquireLock(w)
    BY DEF AcquireLock, Goes, TypeOK
  <2>2. at[w] \in Guarded /\ Id(w)' = Id(w)
    BY <2>1, EntersGuarded DEF Guarded
  <2> QED
    BY <2>2, DisturbedGrows, WorkerType DEF Guarded
<1>2. Check(w) \/ (at[w] = "paying" /\ at'[w] = at[w])
  BY <1>1, WorkerFrame
  DEF Guarded, Work, Goes, AcquireLock, GiveUpLock, CheckFails, PayLands, PayRejected,
      PayReturns, PayReplyLost, SavePayment, SavePaymentFails, Report, ReportFails,
      ReportFailure, ReportFailureFails, Unlock, UnlockFails, Finish, Crash, Start, TypeOK
<1>3. CASE Check(w)
  <2>1. ledger' = ledger /\ at[w] = "checking" /\ ~doesPaymentExist(Id(w))
    BY <1>3 DEF Check, Goes, TypeOK
  <2>2. SUFFICES ASSUME PaymentId[ledger[n].job] = Id(w) PROVE FALSE
    BY <1>1, <2>1
  <2>3. PICK v \in Workers : at[v] \in {"landed", "saving"} /\ Id(v) = Id(w)
    BY <1>1, <2>1, <2>2 DEF PaidIsRecorded
  <2>4. v = w
    BY <1>1, <2>3, GuardedIsAlone DEF Guarded
  <2> QED
    BY <2>1, <2>3, <2>4
<1>4. CASE at[w] = "paying" /\ at'[w] = at[w]
  <2>1. \A m \in DOMAIN ledger : PaymentId[ledger[m].job] # Id(w)
    BY <1>1, <1>4 DEF PayingIsFirst
  <2>2. ASSUME NEW v \in Workers, PayLands(v) PROVE PaymentId[run[v].job] # Id(w)
    <3>1. at[v] = "paying" /\ at'[v] = "landed"
      BY <2>2 DEF PayLands, Goes, TypeOK
    <3>2. v # w
      BY <1>4, <3>1
    <3> QED
      BY <1>1, <3>1, <3>2, GuardedIsAlone DEF Id, Guarded
  <2>3. PaymentId[ledger'[n].job] # Id(w)
    <3>1. CASE ledger' = ledger
      BY <2>1, <3>1
    <3>2. ASSUME NEW v \in Workers, PayLands(v) PROVE PaymentId[ledger'[n].job] # Id(w)
      <4>1. CASE n \in DOMAIN ledger
        BY <2>1, <3>2, <4>1, PayAppends
      <4>2. CASE n \notin DOMAIN ledger
        <5>1. ledger'[n].job = run[v].job
          BY <3>2, <4>2, PayAppends
        <5> QED
          BY <2>2, <3>2, <5>1
      <4> QED
        BY <4>1, <4>2
    <3> QED
      BY <3>1, <3>2, LedgerFrame
  <2> QED
    BY <1>1, <2>3
<1> QED
  BY <1>2, <1>3, <1>4

\* A worker that is about to write the record has written it, or has left its mark in the
\* history when it stops.
LEMMA LandedStep ==
    ASSUME TypeOK, RunsAcceptedJob, [Next]_vars,
           NEW w \in Workers, at[w] \in {"landed", "saving"}
    PROVE  \/ Id(w) \in disturbed'
           \/ store'[Id(w)] # 0
           \/ at'[w] \in {"landed", "saving"} /\ Id(w)' = Id(w)
<1>1. Id(w) \in Ids
  BY WorkerType
<1>2. CASE at'[w] = at[w] /\ run'[w] = run[w]
  BY <1>2 DEF Id
<1>3. CASE Crash(w)
  BY <1>3 DEF Crash
<1>4. ASSUME NEW j \in Jobs, Start(w, j) PROVE FALSE
  BY <1>4 DEF Start, Goes
<1>5. CASE Work(w)
  <2>1. CASE SavePayment(w) \/ SavePaymentFails(w)
    <3>1. run[w].tx \in DOMAIN ledger /\ ledger \in Seq(Payment)
      BY DEF RunsAcceptedJob, TypeOK
    <3>2. run[w].tx # 0
      BY <3>1
    <3> QED
      BY <1>1, <2>1, <3>2 DEF SavePayment, SavePaymentFails, savePayment, TypeOK
  <2>2. CASE PayReplyLost(w)
    BY <2>2 DEF PayReplyLost
  <2>3. CASE PayReturns(w)
    BY <2>3 DEF PayReturns, Goes, Id, TypeOK
  <2> QED
    BY <1>5, <2>1, <2>2, <2>3
    DEF Work, Goes, AcquireLock, GiveUpLock, Check, CheckFails, PayLands, PayRejected,
        Report, ReportFails, ReportFailure, ReportFailureFails, Unlock, UnlockFails, Finish
<1> QED
  BY <1>2, <1>3, <1>4, <1>5, WorkerFrame

\* A record is only lost when it expires, and that leaves a mark in the history.
LEMMA StoreStep ==
    ASSUME TypeOK, RunsAcceptedJob, [Next]_vars, NEW i \in Ids, store[i] # 0
    PROVE  i \in disturbed' \/ store'[i] # 0
<1>1. ASSUME NEW w \in Workers, Work(w) PROVE store'[i] # 0
  <2>1. CASE SavePayment(w) \/ SavePaymentFails(w)
    <3>1. at[w] = "saving"
      BY <2>1 DEF SavePayment, SavePaymentFails, Goes
    <3>2. run[w].tx \in DOMAIN ledger /\ ledger \in Seq(Payment)
      BY <3>1 DEF RunsAcceptedJob, TypeOK
    <3>3. run[w].tx # 0
      BY <3>2
    <3> QED
      BY <2>1, <3>3 DEF SavePayment, SavePaymentFails, savePayment, TypeOK
  <2> QED
    BY <1>1, <2>1
    DEF Work, AcquireLock, GiveUpLock, Check, CheckFails, PayLands, PayRejected, PayReturns,
        PayReplyLost, Report, ReportFails, ReportFailure, ReportFailureFails, Unlock,
        UnlockFails, Finish
<1>2. ASSUME NEW j \in Jobs, Web(j) \/ Redeliver(j) \/ \E w \in Workers : Start(w, j)
      PROVE  store' = store
  BY <1>2 DEF Web, CheckPost, CheckPostFails, Accept, Enqueue, EnqueueFails, Redeliver, Start
<1>3. ASSUME NEW k \in Ids, ExpireLock(k) \/ ExpireRecord(k)
      PROVE  i \in disturbed' \/ store'[i] # 0
  BY <1>3 DEF ExpireLock, ExpireRecord, TypeOK
<1>4. ASSUME NEW w \in Workers, Crash(w) PROVE store' = store
  BY <1>4 DEF Crash
<1> QED
  BY <1>1, <1>2, <1>3, <1>4 DEF Next, AtRest, vars

\* A payment has its record, or a worker that is about to write it.
LEMMA RecordedStep ==
    ASSUME TypeOK, RunsAcceptedJob, PaidIsRecorded, [Next]_vars
    PROVE  PaidIsRecorded'
<1> DEFINE Recorded(i) ==
             \/ i \in disturbed
             \/ doesPaymentExist(i)
             \/ \E w \in Workers : at[w] \in {"landed", "saving"} /\ Id(w) = i
<1>1. ASSUME NEW i \in Ids, Recorded(i) PROVE Recorded(i)'
  <2>1. CASE i \in disturbed
    BY <2>1, DisturbedGrows
  <2>2. CASE doesPaymentExist(i)
    BY <2>2, StoreStep DEF doesPaymentExist
  <2>3. ASSUME NEW w \in Workers, at[w] \in {"landed", "saving"}, Id(w) = i
        PROVE  Recorded(i)'
    BY <2>3, LandedStep DEF doesPaymentExist
  <2> QED
    BY <1>1, <2>1, <2>2, <2>3
<1>2. ASSUME NEW n \in DOMAIN ledger' PROVE Recorded(PaymentId[ledger[n].job])'
  <2>1. \A m \in DOMAIN ledger : Recorded(PaymentId[ledger[m].job])
                                   /\ PaymentId[ledger[m].job] \in Ids
    <3>1. \A m \in DOMAIN ledger : ledger[m] \in Payment
      BY DEF TypeOK
    <3>2. \A m \in DOMAIN ledger : ledger[m].job \in Jobs
      BY <3>1 DEF Payment
    <3> QED
      BY <3>2 DEF PaidIsRecorded
  <2>2. CASE ledger' = ledger
    BY <1>1, <1>2, <2>1, <2>2
  <2>3. ASSUME NEW w \in Workers, PayLands(w) PROVE Recorded(PaymentId[ledger[n].job])'
    <3>1. CASE n \in DOMAIN ledger
      <4>1. PICK i \in Ids : i = PaymentId[ledger[n].job]
        BY <2>1, <3>1
      <4>2. Recorded(i)'
        BY <1>1, <2>1, <3>1, <4>1
      <4>3. PaymentId[ledger'[n].job] = i
        BY <2>3, <3>1, <4>1, PayAppends
      <4> QED
        BY <4>2, <4>3
    <3>2. CASE n \notin DOMAIN ledger
      <4>1. ledger'[n].job = run[w].job
        BY <1>2, <2>3, <3>2, PayAppends
      <4>2. run'[w].job = run[w].job
        BY <2>3 DEF PayLands, TypeOK, Run
      <4>3. at'[w] = "landed"
        BY <2>3 DEF PayLands, Goes, TypeOK
      <4> QED
        BY <4>1, <4>2, <4>3 DEF Id
    <3> QED
      BY <3>1, <3>2
  <2> QED
    BY <2>2, <2>3, LedgerFrame
<1> QED
  BY <1>2 DEF PaidIsRecorded

\* A transaction that lands is the first for its id.
LEMMA NoDoubleSpendStep ==
    ASSUME TypeOK, NoDoubleSpend, PayingIsFirst, [Next]_vars
    PROVE  NoDoubleSpend'
<1> SUFFICES ASSUME NEW m \in DOMAIN ledger', NEW n \in DOMAIN ledger', m # n,
                    PaymentId[ledger'[m].job] = PaymentId[ledger'[n].job],
                    PaymentId[ledger'[m].job] \notin disturbed
             PROVE  FALSE
  BY DisturbedGrows DEF NoDoubleSpend
<1>1. CASE ledger' = ledger
  BY <1>1 DEF NoDoubleSpend
<1>2. ASSUME NEW w \in Workers, PayLands(w) PROVE FALSE
  <2>1. \A k \in DOMAIN ledger : PaymentId[ledger'[k].job] # Id(w) \/ Id(w) \in disturbed
    BY <1>2, PayAppends DEF PayingIsFirst, PayLands, Goes
  <2>2. \A k \in DOMAIN ledger' : k \notin DOMAIN ledger => PaymentId[ledger'[k].job] = Id(w)
    BY <1>2, PayAppends DEF Id
  <2>3. m \in DOMAIN ledger /\ n \in DOMAIN ledger
    BY <1>2, <2>1, <2>2, PayAppends
  <2> QED
    BY <1>2, <2>3, PayAppends DEF NoDoubleSpend
<1> QED
  BY <1>1, <1>2, LedgerFrame

\* What is in the ledger stays there.
LEMMA LedgerGrows ==
    ASSUME TypeOK, [Next]_vars, NEW n \in DOMAIN ledger
    PROVE  n \in DOMAIN ledger' /\ ledger'[n] = ledger[n]
BY LedgerFrame, PayAppends

\* The transaction a worker knows has paid the id of its job.
LEMMA TransactionIsOwn ==
    ASSUME RunsAcceptedJob, NEW w \in Workers, at[w] \in {"landed", "saving", "reporting"}
    PROVE  run[w].tx \in DOMAIN ledger /\ PaymentId[ledger[run[w].tx].job] = Id(w)
<1>1. /\ run[w].tx \in DOMAIN ledger
      /\ ledger[run[w].tx] = [job |-> run[w].job, attempt |-> run[w].attempt]
  BY DEF RunsAcceptedJob
<1>2. ledger[run[w].tx].job = run[w].job
  BY <1>1
<1> QED
  BY <1>1, <1>2 DEF Id

\* A record changes when it expires, or when a worker saves its transaction.
LEMMA StoreFrame ==
    ASSUME TypeOK, [Next]_vars, NEW i \in Ids
    PROVE  \/ store'[i] = store[i]
           \/ store'[i] = 0 /\ i \in disturbed'
           \/ \E w \in Workers : at[w] = "saving" /\ Id(w) = i /\ store'[i] = run[w].tx
<1>1. ASSUME NEW w \in Workers, SavePayment(w) \/ SavePaymentFails(w), store'[i] # store[i]
      PROVE  at[w] = "saving" /\ Id(w) = i /\ store'[i] = run[w].tx
  BY <1>1 DEF SavePayment, SavePaymentFails, savePayment, Goes, TypeOK
<1>2. ASSUME NEW w \in Workers, Work(w), ~SavePayment(w), ~SavePaymentFails(w)
      PROVE  store' = store
  BY <1>2
  DEF Work, AcquireLock, GiveUpLock, Check, CheckFails, PayLands, PayRejected, PayReturns,
      PayReplyLost, Report, ReportFails, ReportFailure, ReportFailureFails, Unlock,
      UnlockFails, Finish
<1>3. ASSUME NEW j \in Jobs, Web(j) \/ Redeliver(j) \/ \E w \in Workers : Start(w, j)
      PROVE  store' = store
  BY <1>3 DEF Web, CheckPost, CheckPostFails, Accept, Enqueue, EnqueueFails, Redeliver, Start
<1>4. ASSUME NEW k \in Ids, ExpireLock(k) \/ ExpireRecord(k), store'[i] # store[i]
      PROVE  store'[i] = 0 /\ i \in disturbed'
  BY <1>4 DEF ExpireLock, ExpireRecord, TypeOK
<1>5. ASSUME NEW w \in Workers, Crash(w) PROVE store' = store
  BY <1>5 DEF Crash
<1> QED
  BY <1>1, <1>2, <1>3, <1>4, <1>5 DEF Next, AtRest, vars

\* A record that is not expired is never overwritten by another transaction.
LEMMA RecordStays ==
    ASSUME TypeOK, RunsAcceptedJob, RecordNamesPayment, NoDoubleSpend, [Next]_vars,
           NEW i \in Ids, store[i] # 0, i \notin disturbed'
    PROVE  store'[i] = store[i]
<1>1. i \notin disturbed
  BY DisturbedGrows
<1>2. ASSUME NEW w \in Workers, at[w] = "saving", Id(w) = i PROVE run[w].tx = store[i]
  <2>1. run[w].tx \in DOMAIN ledger /\ PaymentId[ledger[run[w].tx].job] = i
    BY <1>2, TransactionIsOwn
  <2>2. store[i] \in DOMAIN ledger /\ PaymentId[ledger[store[i]].job] = i
    BY DEF RecordNamesPayment
  <2> QED
    BY <1>1, <2>1, <2>2 DEF NoDoubleSpend
<1> QED
  BY <1>2, StoreFrame

\* A record holds a transaction that paid its id.
LEMMA RecordNamesStep ==
    ASSUME TypeOK, RunsAcceptedJob, RecordNamesPayment, [Next]_vars
    PROVE  RecordNamesPayment'
<1> SUFFICES ASSUME NEW i \in Ids, store'[i] # 0
             PROVE  store'[i] \in DOMAIN ledger' /\ PaymentId[ledger'[store'[i]].job] = i
  BY DEF RecordNamesPayment
<1>1. CASE store'[i] = store[i]
  BY <1>1, LedgerGrows DEF RecordNamesPayment
<1>2. ASSUME NEW w \in Workers, at[w] = "saving", Id(w) = i, store'[i] = run[w].tx
      PROVE  store'[i] \in DOMAIN ledger' /\ PaymentId[ledger'[store'[i]].job] = i
  <2>1. run[w].tx \in DOMAIN ledger /\ PaymentId[ledger[run[w].tx].job] = i
    BY <1>2, TransactionIsOwn
  <2> QED
    BY <1>2, <2>1, LedgerGrows
<1> QED
  BY <1>1, <1>2, StoreFrame

\* A worker about to report has its transaction in the record: it has just saved it, or
\* it has not moved, and the record stays.
LEMMA ReporterStep ==
    ASSUME TypeOK, RunsAcceptedJob, RecordNamesPayment, NoDoubleSpend, ReporterIsRecorded,
           [Next]_vars
    PROVE  ReporterIsRecorded'
<1> SUFFICES ASSUME NEW w \in Workers, at'[w] = "reporting", PaymentId[run'[w].job] \notin disturbed'
             PROVE  store'[PaymentId[run'[w].job]] = run'[w].tx
  BY DEF ReporterIsRecorded, Id
<1>1. CASE at'[w] = at[w] /\ run'[w] = run[w]
  <2>1. Id(w) \in Ids /\ run[w].tx \in DOMAIN ledger /\ ledger \in Seq(Payment)
    BY <1>1, WorkerType DEF RunsAcceptedJob, TypeOK
  <2>2. store[Id(w)] = run[w].tx /\ run[w].tx # 0
    BY <1>1, <2>1, DisturbedGrows DEF ReporterIsRecorded, Id
  <2> QED
    BY <1>1, <2>1, <2>2, RecordStays DEF Id
<1>2. CASE SavePayment(w)
  <2>1. Id(w) \in Ids
    BY <1>2, WorkerType DEF SavePayment, Goes
  <2> QED
    BY <1>2, <2>1 DEF SavePayment, savePayment, Id, TypeOK
<1>3. ASSUME Work(w), ~SavePayment(w) PROVE FALSE
  BY <1>3
  DEF Work, Goes, AcquireLock, GiveUpLock, Check, CheckFails, PayLands, PayRejected,
      PayReturns, PayReplyLost, SavePaymentFails, Report, ReportFails, ReportFailure,
      ReportFailureFails, Unlock, UnlockFails, Finish, TypeOK
<1>4. ASSUME Crash(w) \/ \E j \in Jobs : Start(w, j) PROVE FALSE
  BY <1>4 DEF Crash, Start, Goes, TypeOK
<1> QED
  BY <1>1, <1>2, <1>3, <1>4, WorkerFrame

\* A success callback is enqueued by a worker that reports, and by nobody else.
LEMMA CallbackFrame ==
    ASSUME [Next]_vars, NEW c \in callbacks', c.state = "success", c \notin callbacks
    PROVE  \E w \in Workers : at[w] = "reporting" /\ c = SuccessCallback(w)
<1>1. ASSUME NEW w \in Workers, Report(w) \/ ReportFails(w)
      PROVE  at[w] = "reporting" /\ c = SuccessCallback(w)
  BY <1>1 DEF Report, ReportFails, Goes
<1>2. ASSUME NEW w \in Workers, ReportFailure(w) \/ ReportFailureFails(w) PROVE FALSE
  BY <1>2 DEF ReportFailure, ReportFailureFails, FailCallback
<1>3. ASSUME NEW w \in Workers, Work(w), ~Report(w), ~ReportFails(w), ~ReportFailure(w),
             ~ReportFailureFails(w)
      PROVE  FALSE
  BY <1>3
  DEF Work, AcquireLock, GiveUpLock, Check, CheckFails, PayLands, PayRejected, PayReturns,
      PayReplyLost, SavePayment, SavePaymentFails, Unlock, UnlockFails, Finish
<1>4. ASSUME NEW j \in Jobs, Web(j) \/ Redeliver(j) \/ \E w \in Workers : Start(w, j)
      PROVE  FALSE
  BY <1>4 DEF Web, CheckPost, CheckPostFails, Accept, Enqueue, EnqueueFails, Redeliver, Start
<1>5. ASSUME NEW i \in Ids, ExpireLock(i) \/ ExpireRecord(i) PROVE FALSE
  BY <1>5 DEF ExpireLock, ExpireRecord
<1>6. ASSUME NEW w \in Workers, Crash(w) PROVE FALSE
  BY <1>6 DEF Crash
<1> QED
  BY <1>1, <1>2, <1>3, <1>4, <1>5, <1>6 DEF Next, AtRest, vars

\* A success callback names the transaction of its own delivery.
LEMMA SuccessStep ==
    ASSUME TypeOK, RunsAcceptedJob, SuccessNamesPayment, [Next]_vars
    PROVE  SuccessNamesPayment'
<1> SUFFICES ASSUME NEW c \in callbacks', c.state = "success"
             PROVE  /\ c.tx \in DOMAIN ledger'
                    /\ ledger'[c.tx] = [job |-> c.job, attempt |-> c.attempt]
  BY DEF SuccessNamesPayment
<1>1. /\ c.tx \in DOMAIN ledger
      /\ ledger[c.tx] = [job |-> c.job, attempt |-> c.attempt]
  BY CallbackFrame DEF SuccessNamesPayment, SuccessCallback, RunsAcceptedJob
<1> QED
  BY <1>1, LedgerGrows

\* Who was told of a payment finds it: the worker saved it before it reported, and the
\* record stays as it is.
LEMMA FoundStep ==
    ASSUME TypeOK, RunsAcceptedJob, NoDoubleSpend, RecordNamesPayment, ReporterIsRecorded,
           SuccessNamesPayment, ReportedIsFound, [Next]_vars
    PROVE  ReportedIsFound'
<1> SUFFICES ASSUME NEW c \in callbacks', c.state = "success",
                    PaymentId[c.job] \notin disturbed'
             PROVE  store'[PaymentId[c.job]] = c.tx
  BY DEF ReportedIsFound, getPayment
<1>1. PaymentId[c.job] \notin disturbed
  BY DisturbedGrows
<1>2. /\ store[PaymentId[c.job]] = c.tx
      /\ c.tx \in DOMAIN ledger
      /\ PaymentId[c.job] \in Ids
  <2>1. CASE c \in callbacks
    <3>1. c.job \in Jobs
      BY <2>1 DEF TypeOK, Callback
    <3> QED
      BY <1>1, <2>1, <3>1 DEF ReportedIsFound, SuccessNamesPayment, getPayment
  <2>2. ASSUME NEW w \in Workers, at[w] = "reporting", c = SuccessCallback(w)
        PROVE  /\ store[PaymentId[c.job]] = c.tx
               /\ c.tx \in DOMAIN ledger
               /\ PaymentId[c.job] \in Ids
    <3>1. c.job = run[w].job /\ c.tx = run[w].tx
      BY <2>2 DEF SuccessCallback
    <3> QED
      BY <1>1, <2>2, <3>1, WorkerType DEF ReporterIsRecorded, RunsAcceptedJob, Id
  <2> QED
    BY <2>1, <2>2, CallbackFrame
<1>3. c.tx # 0
  BY <1>2 DEF TypeOK
<1> QED
  BY <1>2, <1>3, RecordStays

-----------------------------------------------------------------------------
(* The theorems. *)

\* IInv holds at the start and is kept by every step.
LEMMA IInvInit == Init => IInv
<1> SUFFICES ASSUME Init PROVE IInv
  OBVIOUS
<1>1. ledger = <<>> /\ \A w \in Workers : at[w] = "idle"
  BY DEF Init
<1>2. RunsAcceptedJob
  BY <1>1 DEF Init, Queue!QueueInit, RunsAcceptedJob
<1>3. GuardedHoldsLock /\ PayingIsFirst
  BY <1>1 DEF GuardedHoldsLock, PayingIsFirst, Guarded
<1>4. PaidIsRecorded /\ NoDoubleSpend
  BY <1>1 DEF PaidIsRecorded, NoDoubleSpend
<1>5. RecordNamesPayment /\ ReporterIsRecorded
  BY <1>1 DEF Init, RecordNamesPayment, ReporterIsRecorded
<1>6. SuccessNamesPayment /\ ReportedIsFound
  BY DEF Init, SuccessNamesPayment, ReportedIsFound
<1> QED
  BY <1>2, <1>3, <1>4, <1>5, <1>6, TypeInit DEF IInv

\* Every step preserves the inductive invariant: one step for each of its conjuncts, each
\* shown by the lemmas above for the web API, the workers, the queue and the environment.
LEMMA IInvStep == IInv /\ [Next]_vars => IInv'
BY TypeStep, RunsStep, GuardedStep, PayingStep, RecordedStep, NoDoubleSpendStep,
   RecordNamesStep, ReporterStep, SuccessStep, FoundStep DEF IInv

\* In every reachable state of the payment path, with any faults: the lock, the record
\* and the ledger stand in the relation that keeps payments from being made twice.
THEOREM Invariance == Spec => []IInv
BY IInvInit, IInvStep, PTL DEF Spec

\* The payment path never leaves its state space.
THEOREM TypeCorrect == Spec => []TypeOK
<1>1. IInv => TypeOK
  BY DEF IInv
<1> QED
  BY <1>1, Invariance, PTL

\* No payment id is paid by two transactions unless its protection was broken from
\* outside: a lock or a record that expired, a result that was lost.
THEOREM PaysOnce == Spec => []NoDoubleSpend
<1>1. IInv => NoDoubleSpend
  BY DEF IInv
<1> QED
  BY <1>1, Invariance, PTL

\* Who was told that a payment was made finds that very payment under its id, until the
\* record expires: workers save before they report, and never overwrite a record.
THEOREM ToldIsFound == Spec => []ReportedIsFound
<1>1. IInv => ReportedIsFound
  BY DEF IInv
<1> QED
  BY <1>1, Invariance, PTL

-----------------------------------------------------------------------------
(* The payment path implements PaymentContract. *)

\* A step of the web API accepts a request or changes nothing the contract speaks of.
LEMMA WebImplements ==
    ASSUME TypeOK, NEW j \in Jobs, Web(j)
    PROVE  [Contract!Next]_(Contract!cvars)
<1> DEFINE Answered == {k \in Jobs : Accepted(k)}
<1>1. UNCHANGED <<ledger, callbacks, disturbed>>
  BY DEF Web, CheckPost, CheckPostFails, Accept, Enqueue, EnqueueFails, workerVars
<1>2. Answered' = Answered \/ Answered' = Answered \cup {j}
  BY DEF Web, CheckPost, CheckPostFails, Accept, Enqueue, EnqueueFails, PostGoes, Accepted,
         TypeOK
<1>3. CASE Answered' = Answered
  BY <1>1, <1>3 DEF Contract!cvars
<1>4. CASE Answered' = Answered \cup {j}
  BY <1>1, <1>4 DEF Contract!Next, Contract!Accept
<1> QED
  BY <1>2, <1>3, <1>4

\* What a step outside the web API leaves alone.
LEMMA AnswersStay ==
    ASSUME post' = post
    PROVE  {k \in Jobs : Accepted(k)}' = {k \in Jobs : Accepted(k)}
BY DEF Accepted

\* A step of a worker pays, reports, leaves a mark, or shows nothing.
LEMMA WorkImplements ==
    ASSUME IInv, NEW w \in Workers, Work(w)
    PROVE  [Contract!Next]_(Contract!cvars)
<1> DEFINE Answered == {k \in Jobs : Accepted(k)}
<1>1. TypeOK /\ RunsAcceptedJob /\ PayingIsFirst
  BY DEF IInv
<1>2. post' = post
  BY DEF Work, webVars, AcquireLock, GiveUpLock, Check, CheckFails, PayLands, PayRejected,
         PayReturns, PayReplyLost, SavePayment, SavePaymentFails, Report, ReportFails,
         ReportFailure, ReportFailureFails, Unlock, UnlockFails, Finish
<1>3. Answered' = Answered
  BY <1>2, AnswersStay
<1>4. at[w] # "idle"
  BY DEF Work, Goes, AcquireLock, GiveUpLock, Check, CheckFails, PayLands, PayRejected,
         PayReturns, PayReplyLost, SavePayment, SavePaymentFails, Report, ReportFails,
         ReportFailure, ReportFailureFails, Unlock, UnlockFails, Finish
<1>5. run[w].job \in Answered /\ run[w].attempt \in 0..MaxStalled /\ Id(w) \in Ids
  BY <1>1, <1>4, WorkerType DEF RunsAcceptedJob
<1>6. CASE PayLands(w)
  <2>1. Contract!Unpaid(PaymentId[run[w].job]) \/ PaymentId[run[w].job] \in disturbed
    BY <1>1, <1>6 DEF Contract!Unpaid, PayingIsFirst, PayLands, Goes, Id
  <2>2. /\ ledger' = Append(ledger, [job |-> run[w].job, attempt |-> run[w].attempt])
        /\ UNCHANGED <<callbacks, disturbed>>
    BY <1>6 DEF PayLands
  <2>3. Contract!Pay(run[w].job, run[w].attempt)
    BY <1>3, <1>5, <2>1, <2>2 DEF Contract!Pay
  <2> QED
    BY <1>5, <2>3 DEF Contract!Next
<1>7. CASE PayReplyLost(w) \/ SavePaymentFails(w)
  <2>1. UNCHANGED <<ledger, callbacks>>
    BY <1>7 DEF PayReplyLost, SavePaymentFails
  <2>2. disturbed' = disturbed \/ disturbed' = disturbed \cup {Id(w)}
    BY <1>7 DEF PayReplyLost, SavePaymentFails
  <2> QED
    BY <1>3, <1>5, <2>1, <2>2 DEF Contract!Next, Contract!Expose, Contract!cvars
<1>8. CASE Report(w) \/ ReportFails(w)
  <2>1. UNCHANGED <<ledger, disturbed>>
    BY <1>8 DEF Report, ReportFails
  <2>2. callbacks' = callbacks \/ callbacks' = callbacks \cup {SuccessCallback(w)}
    BY <1>8 DEF Report, ReportFails
  <2>3. /\ run[w].tx \in DOMAIN ledger
        /\ ledger[run[w].tx] = [job |-> run[w].job, attempt |-> run[w].attempt]
    BY <1>1, <1>8 DEF Report, ReportFails, Goes, RunsAcceptedJob
  <2>4. CASE callbacks' = callbacks \cup {SuccessCallback(w)}
    <3>1. Contract!ReportSuccess(run[w].tx)
      BY <1>3, <2>1, <2>3, <2>4 DEF Contract!ReportSuccess, SuccessCallback
    <3> QED
      BY <2>3, <3>1 DEF Contract!Next
  <2> QED
    BY <1>3, <2>1, <2>2, <2>4 DEF Contract!cvars
<1>9. CASE ReportFailure(w) \/ ReportFailureFails(w)
  <2>1. UNCHANGED <<ledger, disturbed>>
    BY <1>9 DEF ReportFailure, ReportFailureFails
  <2>2. callbacks' = callbacks \/ callbacks' = callbacks \cup {FailCallback(w)}
    BY <1>9 DEF ReportFailure, ReportFailureFails
  <2>3. CASE callbacks' = callbacks \cup {FailCallback(w)}
    <3>1. Contract!ReportFailure(run[w].job, run[w].attempt)
      BY <1>3, <1>5, <2>1, <2>3 DEF Contract!ReportFailure, FailCallback
    <3> QED
      BY <1>5, <3>1 DEF Contract!Next
  <2> QED
    BY <1>3, <2>1, <2>2, <2>3 DEF Contract!cvars
<1>10. ASSUME ~PayLands(w), ~PayReplyLost(w), ~SavePaymentFails(w), ~Report(w),
              ~ReportFails(w), ~ReportFailure(w), ~ReportFailureFails(w)
       PROVE  UNCHANGED <<ledger, callbacks, disturbed>>
  BY <1>10 DEF Work, AcquireLock, GiveUpLock, Check, CheckFails, PayRejected,
         PayReturns, SavePayment, Unlock, UnlockFails, Finish
<1> QED
  BY <1>3, <1>6, <1>7, <1>8, <1>9, <1>10 DEF Contract!cvars

\* A step of the queue or of the environment leaves a mark, or shows nothing.
LEMMA EnvironmentImplements ==
    ASSUME IInv,
           \/ \E j \in Jobs : Redeliver(j) \/ \E w \in Workers : Start(w, j)
           \/ \E w \in Workers : Crash(w)
           \/ \E i \in Ids : ExpireLock(i) \/ ExpireRecord(i)
           \/ AtRest
    PROVE  [Contract!Next]_(Contract!cvars)
<1> DEFINE Answered == {k \in Jobs : Accepted(k)}
<1>1. UNCHANGED <<post, ledger, callbacks>>
  BY DEF Redeliver, Start, Crash, ExpireLock, ExpireRecord, AtRest, vars, webVars
<1>2. Answered' = Answered
  BY <1>1, AnswersStay
<1>3. disturbed' = disturbed \/ \E i \in Ids : disturbed' = disturbed \cup {i}
  <2>1. ASSUME NEW w \in Workers, Crash(w) PROVE Id(w) \in Ids
    BY <2>1, WorkerType DEF Crash, IInv
  <2> QED
    BY <2>1 DEF Redeliver, Start, Crash, ExpireLock, ExpireRecord, AtRest, vars
<1> QED
  BY <1>1, <1>2, <1>3 DEF Contract!Next, Contract!Expose, Contract!cvars

\* Every behaviour of the payment path is one the contract allows: only accepted requests
\* are paid, an unbroken id at most once, a success names its transaction.
THEOREM Implementation == Spec => KeepsContract
<1>1. Init => Contract!Init
  BY DEF Init, Contract!Init, Accepted
<1>2. IInv /\ [Next]_vars => [Contract!Next]_(Contract!cvars)
  <2> SUFFICES ASSUME IInv, [Next]_vars PROVE [Contract!Next]_(Contract!cvars)
    OBVIOUS
  <2>1. CASE UNCHANGED vars
    BY <2>1, AnswersStay DEF vars, Contract!cvars
  <2>2. TypeOK
    BY DEF IInv
  <2> QED
    BY <2>1, <2>2, WebImplements, WorkImplements, EnvironmentImplements DEF Next
<1> QED
  BY <1>1, <1>2, Invariance, PTL DEF Spec, KeepsContract, Contract!Spec
-----------------------------------------------------------------------------
(* What the requester hears of a delivery: the invariant behind FailedIsFound. *)

\* The delivery that callback c reports.
ReportedBy(c) == [job |-> c.job, attempt |-> c.attempt]

\* The queue has handed out delivery d.
HandedOver(d) ==
    /\ status[d.job] # "new"
    /\ d.attempt <= stalls[d.job]
    /\ status[d.job] = "waiting" => d.attempt < stalls[d.job]

HasPaid(d) == \E n \in DOMAIN ledger : ledger[n] = d

HasFailed(d) == \E c \in callbacks : c.state = "fail" /\ ReportedBy(c) = d

\* The stages of a delivery that has reported no failure.
Unfailed == {"locking", "checking", "paying", "landed", "saving", "reporting"}

\* Workers, the ledger and callbacks only know of deliveries that were made.
DeliveriesWereMade ==
    /\ \A w \in Workers : at[w] # "idle" => HandedOver(Delivery(w))
    /\ \A n \in DOMAIN ledger : HandedOver(ledger[n])
    /\ \A c \in callbacks : HandedOver(ReportedBy(c))

\* No two workers are at the same delivery of a job.
DeliveriesAreAlone ==
    \A v, w \in Workers :
        at[v] # "idle" /\ at[w] # "idle" /\ Delivery(v) = Delivery(w) => v = w

\* A worker that has not come to the catch block is at a delivery that reported no failure.
StagesAreTrue == \A w \in Workers : at[w] \in Unfailed => ~HasFailed(Delivery(w))

FailureInv == DeliveriesWereMade /\ DeliveriesAreAlone /\ StagesAreTrue

\* Payment n was reported, or the worker that made it is on its way to report it.
ReportIsDue ==
    \A n \in DOMAIN ledger :
        \/ \E c \in callbacks : c.state = "success" /\ c.tx = n
        \/ \E w \in Workers : /\ at[w] \in {"landed", "saving", "reporting"}
                              /\ Delivery(w) = ledger[n] /\ run[w].tx = n

\* What the queue does to a job: the states it goes through.
LEMMA QueueFrame ==
    ASSUME TypeOK, [Next]_vars, NEW j \in Jobs
    PROVE  /\ stalls[j] \in Nat /\ stalls'[j] \in {stalls[j], stalls[j] + 1}
           /\ status'[j] \in {status[j], "waiting", "active", "completed", "failed"}
           /\ status'[j] = "waiting" /\ status[j] # "waiting" =>
                  status[j] = "new" \/ stalls'[j] = stalls[j] + 1
<1> USE DEF TypeOK, Queue!QueueTypeOK
<1>1. stalls[j] \in Nat
  OBVIOUS
<1>2. ASSUME NEW k \in Jobs, Web(k)
      PROVE  /\ stalls' = stalls
             /\ status'[j] = status[j] \/ (status[j] = "new" /\ status'[j] = "waiting")
  BY <1>2 DEF Web, CheckPost, CheckPostFails, Accept, Enqueue, EnqueueFails, Queue!Add
<1>3. ASSUME NEW k \in Jobs, Redeliver(k)
      PROVE  \/ status'[j] = status[j] /\ stalls'[j] = stalls[j]
             \/ status'[j] = "waiting" /\ stalls'[j] = stalls[j] + 1
             \/ status'[j] = "failed" /\ stalls'[j] = stalls[j]
  BY <1>3 DEF Redeliver, Queue!Requeue
<1>4. ASSUME NEW w \in Workers, NEW k \in Jobs, Start(w, k)
      PROVE  stalls' = stalls /\ status'[j] \in {status[j], "active"}
  BY <1>4 DEF Start, Queue!Take
<1>5. ASSUME NEW w \in Workers, Work(w) \/ Crash(w)
      PROVE  stalls' = stalls /\ status'[j] \in {status[j], "completed"}
  BY <1>5
  DEF Work, Crash, AcquireLock, GiveUpLock, Check, CheckFails, PayLands, PayRejected,
      PayReturns, PayReplyLost, SavePayment, SavePaymentFails, Report, ReportFails,
      ReportFailure, ReportFailureFails, Unlock, UnlockFails, Finish, Queue!Finish
<1>6. ASSUME NEW i \in Ids, ExpireLock(i) \/ ExpireRecord(i)
      PROVE  stalls' = stalls /\ status' = status
  BY <1>6 DEF ExpireLock, ExpireRecord
<1>7. ASSUME UNCHANGED vars PROVE stalls' = stalls /\ status' = status
  BY <1>7 DEF vars
<1> QED
  BY <1>1, <1>2, <1>3, <1>4, <1>5, <1>6, <1>7 DEF Next, AtRest

\* A delivery that was made stays made: a job never returns to the delivery it was at.
LEMMA MadeStays ==
    ASSUME TypeOK, [Next]_vars, NEW d, d.job \in Jobs, d.attempt \in Nat, HandedOver(d)
    PROVE  HandedOver(d)'
<1>1. /\ stalls[d.job] \in Nat /\ stalls'[d.job] \in {stalls[d.job], stalls[d.job] + 1}
      /\ status'[d.job] \in {status[d.job], "waiting", "active", "completed", "failed"}
      /\ status'[d.job] = "waiting" /\ status[d.job] # "waiting" =>
             status[d.job] = "new" \/ stalls'[d.job] = stalls[d.job] + 1
  BY QueueFrame
<1> QED
  BY <1>1 DEF HandedOver

\* The delivery that a worker starts was not made before.
LEMMA StartsAfresh ==
    ASSUME TypeOK, NEW w \in Workers, NEW j \in Jobs, Start(w, j)
    PROVE  /\ Delivery(w)' = [job |-> j, attempt |-> stalls[j]]
           /\ ~HandedOver([job |-> j, attempt |-> stalls[j]])
           /\ HandedOver([job |-> j, attempt |-> stalls[j]])'
           /\ UNCHANGED <<stalls, ledger, callbacks>>
           /\ \A v \in Workers : v # w => at'[v] = at[v]
<1>1. stalls[j] \in Nat /\ stalls' = stalls /\ status[j] = "waiting" /\ status'[j] = "active"
  BY DEF Start, Queue!Take, TypeOK, Queue!QueueTypeOK
<1>2. run'[w] = [job |-> j, attempt |-> stalls[j], tx |-> 0]
  BY DEF Start, TypeOK
<1>3. UNCHANGED <<ledger, callbacks>> /\ \A v \in Workers : v # w => at'[v] = at[v]
  BY DEF Start, Goes, TypeOK
<1> QED
  BY <1>1, <1>2, <1>3 DEF Delivery, HandedOver

\* A worker is at the delivery it was at, or starts another.
LEMMA DeliveryFrame ==
    ASSUME TypeOK, [Next]_vars, NEW w \in Workers, at'[w] # "idle"
    PROVE  \/ at[w] # "idle" /\ Delivery(w)' = Delivery(w)
           \/ at[w] = "idle" /\ \E j \in Jobs : Start(w, j)
<1>1. CASE at'[w] = at[w] /\ run'[w] = run[w]
  BY <1>1 DEF Delivery
<1>2. CASE Work(w)
  <2>1. /\ at[w] # "idle" /\ run'[w].job = run[w].job /\ run'[w].attempt = run[w].attempt
    BY <1>2 DEF Work, Goes, AcquireLock, GiveUpLock, Check, CheckFails, PayLands,
       PayRejected, PayReturns, PayReplyLost, SavePayment, SavePaymentFails, Report,
       ReportFails, ReportFailure, ReportFailureFails, Unlock, UnlockFails, Finish, TypeOK,
       Run
  <2> QED
    BY <2>1 DEF Delivery
<1>3. CASE Crash(w)
  BY <1>3 DEF Crash, TypeOK
<1>4. ASSUME NEW j \in Jobs, Start(w, j) PROVE at[w] = "idle"
  BY <1>4 DEF Start, Goes
<1> QED
  BY <1>1, <1>2, <1>3, <1>4, WorkerFrame

\* Callbacks are enqueued by a worker that reports a payment or its failure.
LEMMA FailureFrame ==
    ASSUME [Next]_vars, NEW c \in callbacks', c \notin callbacks
    PROVE  /\ ledger' = ledger
           /\ \E w \in Workers : \/ at[w] = "reporting" /\ c = SuccessCallback(w)
                                 \/ at[w] = "failing" /\ c = FailCallback(w)
<1>1. ASSUME NEW w \in Workers, Work(w)
      PROVE  \/ Report(w) \/ ReportFails(w) \/ ReportFailure(w) \/ ReportFailureFails(w)
  BY <1>1
  DEF Work, AcquireLock, GiveUpLock, Check, CheckFails, PayLands, PayRejected, PayReturns,
      PayReplyLost, SavePayment, SavePaymentFails, Unlock, UnlockFails, Finish
<1>2. ASSUME NEW w \in Workers, Work(w)
      PROVE  /\ ledger' = ledger
             /\ \/ at[w] = "reporting" /\ c = SuccessCallback(w)
                \/ at[w] = "failing" /\ c = FailCallback(w)
  BY <1>1, <1>2 DEF Report, ReportFails, ReportFailure, ReportFailureFails, Goes
<1>3. ASSUME NEW j \in Jobs, Web(j) \/ Redeliver(j) \/ \E w \in Workers : Start(w, j)
      PROVE  FALSE
  BY <1>3 DEF Web, CheckPost, CheckPostFails, Accept, Enqueue, EnqueueFails, Redeliver, Start
<1>4. ASSUME NEW i \in Ids, ExpireLock(i) \/ ExpireRecord(i) PROVE FALSE
  BY <1>4 DEF ExpireLock, ExpireRecord
<1>5. ASSUME NEW w \in Workers, Crash(w) PROVE FALSE
  BY <1>5 DEF Crash
<1> QED
  BY <1>2, <1>3, <1>4, <1>5 DEF Next, AtRest, vars

\* A callback reports the delivery of the worker that enqueues it.
LEMMA CallbackIsOwn ==
    ASSUME NEW w \in Workers
    PROVE  /\ ReportedBy(SuccessCallback(w)) = Delivery(w)
           /\ ReportedBy(FailCallback(w)) = Delivery(w)
           /\ SuccessCallback(w).state = "success" /\ FailCallback(w).state = "fail"
BY DEF ReportedBy, SuccessCallback, FailCallback, Delivery

\* The deliveries that workers, the ledger and callbacks know of are well formed.
LEMMA DeliveryTypes ==
    ASSUME TypeOK, RunsAcceptedJob
    PROVE  /\ \A w \in Workers : at[w] # "idle" =>
                  Delivery(w).job \in Jobs /\ Delivery(w).attempt \in Nat
           /\ \A n \in DOMAIN ledger : ledger[n].job \in Jobs /\ ledger[n].attempt \in Nat
           /\ \A c \in callbacks : ReportedBy(c).job \in Jobs /\ ReportedBy(c).attempt \in Nat
<1>1. ASSUME NEW w \in Workers, at[w] # "idle"
      PROVE  Delivery(w).job \in Jobs /\ Delivery(w).attempt \in Nat
  BY <1>1, WorkerType DEF Delivery
<1>2. ASSUME NEW n \in DOMAIN ledger PROVE ledger[n].job \in Jobs /\ ledger[n].attempt \in Nat
  <2>1. ledger[n] \in Payment
    BY <1>2 DEF TypeOK
  <2> QED
    BY <2>1 DEF Payment
<1>3. ASSUME NEW c \in callbacks
      PROVE  ReportedBy(c).job \in Jobs /\ ReportedBy(c).attempt \in Nat
  BY <1>3 DEF TypeOK, Callback, ReportedBy
<1> QED
  BY <1>1, <1>2, <1>3

\* Only deliveries that were made are worked at, pay or are reported.
LEMMA MadeStep ==
    ASSUME TypeOK, RunsAcceptedJob, DeliveriesWereMade, [Next]_vars
    PROVE  DeliveriesWereMade'
<1>1. ASSUME NEW w \in Workers, at'[w] # "idle" PROVE HandedOver(Delivery(w))'
  <2>1. CASE at[w] # "idle" /\ Delivery(w)' = Delivery(w)
    BY <2>1, MadeStays, DeliveryTypes DEF DeliveriesWereMade, HandedOver
  <2>2. ASSUME NEW j \in Jobs, Start(w, j) PROVE HandedOver(Delivery(w))'
    <3>1. Delivery(w)' = [job |-> j, attempt |-> stalls[j]]
      BY <2>2, StartsAfresh
    <3>2. HandedOver([job |-> j, attempt |-> stalls[j]])' /\ stalls' = stalls
      BY <2>2, StartsAfresh
    <3> QED
      BY <3>1, <3>2 DEF HandedOver
  <2> QED
    BY <1>1, <2>1, <2>2, DeliveryFrame
<1>2. ASSUME NEW n \in DOMAIN ledger' PROVE HandedOver(ledger[n])'
  <2>1. CASE n \in DOMAIN ledger
    BY <2>1, MadeStays, LedgerGrows, DeliveryTypes DEF DeliveriesWereMade, HandedOver
  <2>2. CASE n \notin DOMAIN ledger
    <3>1. PICK w \in Workers : PayLands(w)
      BY <1>2, <2>2, LedgerFrame
    <3>2. ledger'[n] = Delivery(w) /\ at[w] # "idle"
      BY <1>2, <2>2, <3>1, PayAppends DEF Delivery, PayLands, Goes
    <3> QED
      BY <3>2, MadeStays, DeliveryTypes DEF DeliveriesWereMade, HandedOver
  <2> QED
    BY <2>1, <2>2
<1>3. ASSUME NEW c \in callbacks' PROVE HandedOver(ReportedBy(c))'
  <2>1. CASE c \in callbacks
    BY <2>1, MadeStays, DeliveryTypes DEF DeliveriesWereMade, HandedOver
  <2>2. CASE c \notin callbacks
    <3>1. PICK w \in Workers : at[w] # "idle" /\ ReportedBy(c) = Delivery(w)
      BY <1>3, <2>2, FailureFrame, CallbackIsOwn
    <3> QED
      BY <3>1, MadeStays, DeliveryTypes DEF DeliveriesWereMade, HandedOver
  <2> QED
    BY <2>1, <2>2
<1> QED
  BY <1>1, <1>2, <1>3 DEF DeliveriesWereMade

\* A job that is handed out again is another delivery.
LEMMA AloneStep ==
    ASSUME TypeOK, RunsAcceptedJob, DeliveriesWereMade, DeliveriesAreAlone, [Next]_vars
    PROVE  DeliveriesAreAlone'
<1> SUFFICES ASSUME NEW v \in Workers, NEW w \in Workers, at'[v] # "idle", at'[w] # "idle",
                    Delivery(v)' = Delivery(w)', v # w
             PROVE  FALSE
  BY DEF DeliveriesAreAlone
<1>1. ASSUME NEW x \in Workers, NEW y \in Workers, x # y, NEW j \in Jobs, Start(x, j),
             at'[y] # "idle", Delivery(x)' = Delivery(y)'
      PROVE  FALSE
  <2>1. at[y] # "idle" /\ Delivery(y)' = Delivery(y)
    BY <1>1, StartsAfresh, DeliveryFrame
  <2>2. HandedOver(Delivery(y)) /\ ~HandedOver(Delivery(y))
    <3>1. HandedOver(Delivery(y))
      BY <2>1 DEF DeliveriesWereMade
    <3>2. Delivery(y) = [job |-> j, attempt |-> stalls[j]]
      BY <1>1, <2>1, StartsAfresh
    <3>3. ~HandedOver([job |-> j, attempt |-> stalls[j]])
      BY <1>1, StartsAfresh
    <3> QED
      BY <3>1, <3>2, <3>3
  <2> QED
    BY <2>2
<1>2. CASE at[v] # "idle" /\ at[w] # "idle" /\ Delivery(v)' = Delivery(v)
           /\ Delivery(w)' = Delivery(w)
  BY <1>2 DEF DeliveriesAreAlone
<1> QED
  BY <1>1, <1>2, DeliveryFrame

\* No worker comes back from the catch block.
LEMMA StagesGo ==
    ASSUME TypeOK, [Next]_vars, NEW w \in Workers, at[w] # "idle", at'[w] \in Unfailed
    PROVE  at[w] \in Unfailed
<1>1. CASE at'[w] = at[w]
  BY <1>1
<1>2. CASE Work(w)
  BY <1>2 DEF Work, Goes, AcquireLock, GiveUpLock, Check, CheckFails, PayLands,
     PayRejected, PayReturns, PayReplyLost, SavePayment, SavePaymentFails, Report,
     ReportFails, ReportFailure, ReportFailureFails, Unlock, UnlockFails, Finish, TypeOK,
     Unfailed
<1>3. ~Crash(w) /\ ~ \E j \in Jobs : Start(w, j)
  BY DEF Crash, Start, Goes, TypeOK, Unfailed
<1> QED
  BY <1>1, <1>2, <1>3, WorkerFrame

\* A failure is reported by the only worker that is at the delivery.
LEMMA StagesStep ==
    ASSUME TypeOK, FailureInv, [Next]_vars
    PROVE  StagesAreTrue'
<1>1. DeliveriesWereMade /\ DeliveriesAreAlone /\ StagesAreTrue
  BY DEF FailureInv
<1>2. ASSUME NEW w \in Workers, NEW j \in Jobs, Start(w, j)
      PROVE  ~HasFailed(Delivery(w))'
  <2> DEFINE d == [job |-> j, attempt |-> stalls[j]]
  <2>1. Delivery(w)' = d /\ ~HandedOver(d) /\ UNCHANGED callbacks
    BY <1>2, StartsAfresh
  <2>2. ~HasFailed(d)
    BY <1>1, <2>1 DEF DeliveriesWereMade, HasFailed
  <2> HIDE DEF d
  <2> QED
    BY <2>1, <2>2 DEF HasFailed
<1>3. ASSUME NEW w \in Workers, at[w] # "idle", Delivery(w)' = Delivery(w),
             at'[w] \in Unfailed
      PROVE  ~HasFailed(Delivery(w))'
  <2>1. at[w] \in Unfailed /\ ~HasFailed(Delivery(w))
    BY <1>1, <1>3, StagesGo DEF StagesAreTrue
  <2>2. ASSUME NEW c \in callbacks', c.state = "fail", ReportedBy(c) = Delivery(w)
        PROVE  FALSE
    <3>1. c \notin callbacks
      BY <2>1, <2>2 DEF HasFailed
    <3>2. PICK v \in Workers : at[v] = "failing" /\ ReportedBy(c) = Delivery(v)
      BY <2>2, <3>1, FailureFrame, CallbackIsOwn
    <3> QED
      BY <1>1, <1>3, <2>1, <2>2, <3>2 DEF DeliveriesAreAlone, Unfailed
  <2> QED
    BY <1>3, <2>2 DEF HasFailed, ReportedBy
<1>4. ASSUME NEW w \in Workers, at'[w] \in Unfailed PROVE ~HasFailed(Delivery(w))'
  <2>1. at'[w] # "idle"
    BY <1>4 DEF Unfailed
  <2> QED
    BY <1>2, <1>3, <1>4, <2>1, DeliveryFrame
<1> QED
  BY <1>4 DEF StagesAreTrue

\* A payment of a delivery that reported a failure has left the hands of its worker, which
\* has saved it.
LEMMA FailedWasSaved ==
    ASSUME IInv, StagesAreTrue
    PROVE  FailedIsFound
<1> SUFFICES ASSUME NEW c \in callbacks, NEW n \in DOMAIN ledger, c.state = "fail",
                    ledger[n] = ReportedBy(c), PaymentId[c.job] \notin disturbed
             PROVE  store[PaymentId[c.job]] = n
  BY DEF FailedIsFound, ReportedBy, getPayment
<1> DEFINE i == PaymentId[c.job]
<1>1. TypeOK /\ RunsAcceptedJob /\ PaidIsRecorded /\ NoDoubleSpend /\ RecordNamesPayment
  BY DEF IInv
<1>2. PaymentId[ledger[n].job] = i /\ i \in Ids
  <2>1. ledger[n] \in Payment
    BY <1>1 DEF TypeOK
  <2> QED
    BY <2>1 DEF ReportedBy, Payment
<1>3. ASSUME NEW m \in DOMAIN ledger, PaymentId[ledger[m].job] = i PROVE m = n
  BY <1>1, <1>2, <1>3 DEF NoDoubleSpend
<1>4. CASE doesPaymentExist(i)
  BY <1>1, <1>2, <1>3, <1>4 DEF doesPaymentExist, RecordNamesPayment
<1>5. ASSUME NEW w \in Workers, at[w] \in {"landed", "saving"}, Id(w) = i PROVE FALSE
  <2>1. run[w].tx \in DOMAIN ledger /\ ledger[run[w].tx] = Delivery(w)
    BY <1>1, <1>5 DEF RunsAcceptedJob, Delivery
  <2>2. ledger[n] = Delivery(w)
    BY <1>3, <1>5, <2>1 DEF Id, Delivery
  <2> QED
    BY <1>5, <2>2 DEF StagesAreTrue, Unfailed, HasFailed
<1> QED
  BY <1>1, <1>2, <1>4, <1>5 DEF PaidIsRecorded

\* Whatever fails: who is told of a failure although the delivery paid finds the payment under
\* its id, unless its protection was broken; a repeated request is answered 409 and not paid.
\* Only a rejected payment, a lost reply or what comes after the record leads to the catch
\* block, and no two workers are at one delivery.
THEOREM FailuresAreFound == Spec => []FailedIsFound
<1>1. Init => FailureInv
  BY DEF Init, FailureInv, DeliveriesWereMade, DeliveriesAreAlone, StagesAreTrue, Unfailed
<1>2. IInv /\ FailureInv /\ [Next]_vars => FailureInv'
  BY MadeStep, AloneStep, StagesStep DEF FailureInv, IInv
<1>3. IInv /\ FailureInv => FailedIsFound
  BY FailedWasSaved DEF FailureInv
<1> QED
  BY <1>1, <1>2, <1>3, Invariance, PTL DEF Spec

-----------------------------------------------------------------------------
(* Payments are reported. *)

\* Without failing Redis commands, lost replies and crashes, a worker that has paid reports it.
LEMMA PaidIsDue ==
    ASSUME TypeOK, [Next]_vars, Faults \cap {"redis", "replyLost", "crash"} = {},
           NEW w \in Workers, at[w] \in {"landed", "saving", "reporting"}
    PROVE  \/ /\ at'[w] \in {"landed", "saving", "reporting"}
              /\ Delivery(w)' = Delivery(w) /\ run'[w].tx = run[w].tx
           \/ SuccessCallback(w) \in callbacks'
<1>1. CASE at'[w] = at[w] /\ run'[w] = run[w]
  BY <1>1 DEF Delivery
<1>2. CASE Work(w)
  BY <1>2 DEF Work, Goes, AcquireLock, GiveUpLock, Check, CheckFails, PayLands,
     PayRejected, PayReturns, PayReplyLost, SavePayment, SavePaymentFails, Report,
     ReportFails, ReportFailure, ReportFailureFails, Unlock, UnlockFails, Finish, TypeOK,
     Delivery
<1>3. ~Crash(w) /\ ~ \E j \in Jobs : Start(w, j)
  BY DEF Crash, Start, Goes
<1> QED
  BY <1>1, <1>2, <1>3, WorkerFrame

\* No callback is taken back.
LEMMA CallbacksGrow ==
    ASSUME [Next]_vars
    PROVE  callbacks \subseteq callbacks'
<1>1. ASSUME NEW w \in Workers, Work(w) PROVE callbacks \subseteq callbacks'
  BY <1>1 DEF Work, AcquireLock, GiveUpLock, Check, CheckFails, PayLands, PayRejected,
     PayReturns, PayReplyLost, SavePayment, SavePaymentFails, Report, ReportFails,
     ReportFailure, ReportFailureFails, Unlock, UnlockFails, Finish
<1>2. ASSUME NEW j \in Jobs, Web(j) \/ Redeliver(j) \/ \E w \in Workers : Start(w, j)
      PROVE  callbacks' = callbacks
  BY <1>2 DEF Web, CheckPost, CheckPostFails, Accept, Enqueue, EnqueueFails, Redeliver, Start
<1>3. ASSUME NEW i \in Ids, ExpireLock(i) \/ ExpireRecord(i) PROVE callbacks' = callbacks
  BY <1>3 DEF ExpireLock, ExpireRecord
<1>4. ASSUME NEW w \in Workers, Crash(w) PROVE callbacks' = callbacks
  BY <1>4 DEF Crash
<1> QED
  BY <1>1, <1>2, <1>3, <1>4 DEF Next, AtRest, vars

\* A payment stays reported, or due to be.
LEMMA DueStep ==
    ASSUME TypeOK, ReportIsDue, [Next]_vars,
           Faults \cap {"redis", "replyLost", "crash"} = {}
    PROVE  ReportIsDue'
<1> DEFINE Reported(n) == \E c \in callbacks' : c.state = "success" /\ c.tx = n
           Due(n) == \E w \in Workers : /\ at'[w] \in {"landed", "saving", "reporting"}
                                        /\ Delivery(w)' = ledger'[n] /\ run'[w].tx = n
<1>1. ASSUME NEW n \in DOMAIN ledger' PROVE Reported(n) \/ Due(n)
  <2>1. CASE n \notin DOMAIN ledger
    <3>1. PICK w \in Workers : PayLands(w)
      BY <1>1, <2>1, LedgerFrame
    <3>2. ledger'[n] = Delivery(w) /\ n = Len(ledger) + 1
      BY <1>1, <2>1, <3>1, PayAppends DEF Delivery
    <3>3. /\ at'[w] = "landed" /\ Delivery(w)' = Delivery(w)
          /\ run'[w].tx = Len(ledger) + 1
      BY <3>1 DEF PayLands, Goes, Delivery, TypeOK, Run
    <3> QED
      BY <3>2, <3>3
  <2>2. CASE n \in DOMAIN ledger
    <3>1. ledger'[n] = ledger[n]
      BY <2>2, LedgerGrows
    <3>2. CASE \E c \in callbacks : c.state = "success" /\ c.tx = n
      BY <3>2, CallbacksGrow
    <3>3. ASSUME NEW w \in Workers, at[w] \in {"landed", "saving", "reporting"},
                 Delivery(w) = ledger[n], run[w].tx = n
          PROVE  Reported(n) \/ Due(n)
      <4>1. CASE SuccessCallback(w) \in callbacks'
        <5>1. SuccessCallback(w).tx = n /\ SuccessCallback(w).state = "success"
          BY <3>3 DEF SuccessCallback
        <5> QED
          BY <4>1, <5>1
      <4>2. CASE /\ at'[w] \in {"landed", "saving", "reporting"}
                 /\ Delivery(w)' = Delivery(w) /\ run'[w].tx = run[w].tx
        BY <3>1, <3>3, <4>2
      <4> QED
        BY <3>3, <4>1, <4>2, PaidIsDue
    <3> QED
      BY <2>2, <3>2, <3>3 DEF ReportIsDue
  <2> QED
    BY <2>1, <2>2
<1> QED
  BY <1>1 DEF ReportIsDue

\* As long as no worker dies, no Redis command fails and no reply to a submission is lost,
\* each payment is reported by a callback of its own before its delivery is over, however
\* often Bull hands the job out and however often it pays.
THEOREM PaymentsAreReported ==
    ASSUME Faults \cap {"redis", "replyLost", "crash"} = {}
    PROVE  Spec => []PaidIsReported
<1>1. Init => ReportIsDue
  BY DEF Init, ReportIsDue
<1>2. IInv /\ ReportIsDue /\ [Next]_vars => ReportIsDue'
  BY DueStep DEF IInv
<1>3. ReportIsDue => PaidIsReported
  BY DEF ReportIsDue, PaidIsReported
<1> QED
  BY <1>1, <1>2, <1>3, Invariance, PTL DEF Spec

-----------------------------------------------------------------------------
(* What a delivery pays, whatever fails. *)

\* The stages of a delivery that has not got to its payment yet.
Before == {"locking", "checking", "paying"}

\* A worker that has not got to its payment is at a delivery that has not paid.
PaysLater == \A w \in Workers : at[w] \in Before => ~HasPaid(Delivery(w))

OnceInv == DeliveriesWereMade /\ DeliveriesAreAlone /\ PaysLater /\ DeliveryPaysOnce

\* No worker goes back to the stages before the payment.
LEMMA BeforeGoes ==
    ASSUME TypeOK, [Next]_vars, NEW w \in Workers, at[w] # "idle", at'[w] \in Before
    PROVE  at[w] \in Before /\ ~PayLands(w)
<1>1. CASE at'[w] = at[w]
  <2>1. ~PayLands(w)
    BY <1>1 DEF PayLands, Goes, TypeOK
  <2> QED
    BY <1>1, <2>1
<1>2. CASE Work(w)
  BY <1>2 DEF Work, Goes, AcquireLock, GiveUpLock, Check, CheckFails, PayLands,
     PayRejected, PayReturns, PayReplyLost, SavePayment, SavePaymentFails, Report,
     ReportFails, ReportFailure, ReportFailureFails, Unlock, UnlockFails, Finish, TypeOK,
     Before
<1>3. ~Crash(w) /\ ~ \E j \in Jobs : Start(w, j)
  BY DEF Crash, Start, Goes, TypeOK, Before
<1> QED
  BY <1>1, <1>2, <1>3, WorkerFrame

\* The payment that a step makes is that of a delivery that has not paid.
LEMMA LandsOnce ==
    ASSUME TypeOK, PaysLater, [Next]_vars, NEW n \in DOMAIN ledger', n \notin DOMAIN ledger
    PROVE  \E w \in Workers : /\ PayLands(w) /\ at[w] = "paying"
                              /\ ledger'[n] = Delivery(w) /\ ~HasPaid(Delivery(w))
                              /\ n = Len(ledger) + 1
<1>1. PICK w \in Workers : PayLands(w)
  BY LedgerFrame
<1>2. ledger'[n] = Delivery(w) /\ at[w] = "paying"
  BY <1>1, PayAppends DEF Delivery, PayLands, Goes
<1>3. ~HasPaid(Delivery(w))
  BY <1>2 DEF PaysLater, Before
<1>4. n = Len(ledger) + 1
  BY <1>1, PayAppends
<1> QED
  BY <1>1, <1>2, <1>3, <1>4

\* Who is about to pay stays without a payment: no other worker is at its delivery.
LEMMA LaterStep ==
    ASSUME TypeOK, OnceInv, [Next]_vars
    PROVE  PaysLater'
<1>1. DeliveriesWereMade /\ DeliveriesAreAlone /\ PaysLater
  BY DEF OnceInv
<1>2. ASSUME NEW w \in Workers, NEW j \in Jobs, Start(w, j)
      PROVE  ~HasPaid(Delivery(w))'
  <2> DEFINE d == [job |-> j, attempt |-> stalls[j]]
  <2>1. Delivery(w)' = d /\ ~HandedOver(d) /\ UNCHANGED ledger
    BY <1>2, StartsAfresh
  <2>2. ~HasPaid(d)
    BY <1>1, <2>1 DEF DeliveriesWereMade, HasPaid
  <2> HIDE DEF d
  <2> QED
    BY <2>1, <2>2 DEF HasPaid
<1>3. ASSUME NEW w \in Workers, at[w] # "idle", Delivery(w)' = Delivery(w), at'[w] \in Before
      PROVE  ~HasPaid(Delivery(w))'
  <2>1. ~HasPaid(Delivery(w)) /\ ~PayLands(w)
    BY <1>1, <1>3, BeforeGoes DEF PaysLater
  <2>2. ASSUME NEW n \in DOMAIN ledger', ledger'[n] = Delivery(w) PROVE FALSE
    <3>1. n \notin DOMAIN ledger
      BY <2>1, <2>2, LedgerGrows DEF HasPaid
    <3>2. PICK v \in Workers : PayLands(v) /\ at[v] = "paying" /\ ledger'[n] = Delivery(v)
      BY <1>1, <2>2, <3>1, LandsOnce
    <3> QED
      BY <1>1, <1>3, <2>1, <2>2, <3>2 DEF DeliveriesAreAlone
  <2> QED
    BY <1>3, <2>2 DEF HasPaid
<1>4. ASSUME NEW w \in Workers, at'[w] \in Before PROVE ~HasPaid(Delivery(w))'
  <2>1. at'[w] # "idle"
    BY <1>4 DEF Before
  <2> QED
    BY <1>2, <1>3, <1>4, <2>1, DeliveryFrame
<1> QED
  BY <1>4 DEF PaysLater

\* A payment that a step makes has no like in the ledger.
LEMMA OnceStep ==
    ASSUME TypeOK, OnceInv, [Next]_vars
    PROVE  DeliveryPaysOnce'
<1> SUFFICES ASSUME NEW m \in DOMAIN ledger', NEW n \in DOMAIN ledger',
                    ledger'[m] = ledger'[n], m # n
             PROVE  FALSE
  BY DEF DeliveryPaysOnce
<1>1. PaysLater /\ DeliveryPaysOnce
  BY DEF OnceInv
<1>2. ASSUME NEW k \in DOMAIN ledger, NEW l \in DOMAIN ledger', l \notin DOMAIN ledger
      PROVE  ledger'[k] # ledger'[l]
  <2>1. PICK w \in Workers : ledger'[l] = Delivery(w) /\ ~HasPaid(Delivery(w))
    BY <1>1, <1>2, LandsOnce
  <2> QED
    BY <1>2, <2>1, LedgerGrows DEF HasPaid
<1>3. CASE m \in DOMAIN ledger /\ n \in DOMAIN ledger
  BY <1>1, <1>3, LedgerGrows DEF DeliveryPaysOnce
<1>4. CASE m \notin DOMAIN ledger /\ n \notin DOMAIN ledger
  <2>1. m = Len(ledger) + 1 /\ n = Len(ledger) + 1
    BY <1>1, <1>4, LandsOnce
  <2> QED
    BY <2>1
<1> QED
  BY <1>2, <1>3, <1>4

\* One delivery of a job pays once at most, under all faults: no error path leads back to
\* the payment (performPay), and no two workers are at one delivery.
THEOREM DeliveriesPayOnce == Spec => []DeliveryPaysOnce
<1>1. Init => OnceInv
  BY DEF Init, OnceInv, DeliveriesWereMade, DeliveriesAreAlone, PaysLater, Before,
     DeliveryPaysOnce
<1>2. IInv /\ OnceInv /\ [Next]_vars => OnceInv'
  <2> SUFFICES ASSUME IInv, OnceInv, [Next]_vars PROVE OnceInv'
    OBVIOUS
  <2>1. TypeOK /\ RunsAcceptedJob /\ DeliveriesWereMade /\ DeliveriesAreAlone
    BY DEF IInv, OnceInv
  <2> QED
    BY <2>1, MadeStep, AloneStep, LaterStep, OnceStep DEF OnceInv
<1>3. OnceInv => DeliveryPaysOnce
  BY DEF OnceInv
<1> QED
  BY <1>1, <1>2, <1>3, Invariance, PTL DEF Spec

-----------------------------------------------------------------------------
(* When no id is ever paid twice. *)

\* Nothing but these faults marks an id: lock and record that expire, and a payment that is
\* forgotten because its worker died, its result was lost or its record was not written.
LEMMA NothingDisturbs ==
    ASSUME disturbed = {}, [Next]_vars,
           Faults \cap {"lockExpiry", "recordExpiry", "crash", "replyLost", "redis"} = {}
    PROVE  disturbed' = {}
<1>1. ASSUME NEW w \in Workers, Work(w) PROVE disturbed' = {}
  BY <1>1 DEF Work, AcquireLock, GiveUpLock, Check, CheckFails, PayLands, PayRejected,
     PayReturns, PayReplyLost, SavePayment, SavePaymentFails, Report, ReportFails,
     ReportFailure, ReportFailureFails, Unlock, UnlockFails, Finish
<1>2. ASSUME NEW j \in Jobs, Web(j) \/ Redeliver(j) \/ \E w \in Workers : Start(w, j)
      PROVE  disturbed' = {}
  BY <1>2 DEF Web, CheckPost, CheckPostFails, Accept, Enqueue, EnqueueFails, Redeliver, Start
<1>3. ASSUME NEW i \in Ids, ExpireLock(i) \/ ExpireRecord(i) PROVE disturbed' = {}
  BY <1>3 DEF ExpireLock, ExpireRecord
<1>4. ASSUME NEW w \in Workers, Crash(w) PROVE disturbed' = {}
  BY <1>4 DEF Crash
<1> QED
  BY <1>1, <1>2, <1>3, <1>4 DEF Next, AtRest, vars

\* "not double spending" (the log line of performPay) is true as long as lock and record
\* outlive what they protect and no payment is forgotten: then stalls, redeliveries, Redlock
\* giving up and any number of requests with one id do not lead to a second payment.
THEOREM NobodyIsPaidTwice ==
    ASSUME Faults \cap {"lockExpiry", "recordExpiry", "crash", "replyLost", "redis"} = {}
    PROVE  Spec => []NeverPaidTwice
<1>1. Init => disturbed = {}
  BY DEF Init
<1>2. disturbed = {} /\ [Next]_vars => (disturbed = {})'
  BY NothingDisturbs
<1>3. NoDoubleSpend /\ disturbed = {} => NeverPaidTwice
  BY DEF NoDoubleSpend, NeverPaidTwice
<1> QED
  BY <1>1, <1>2, <1>3, PaysOnce, PTL DEF Spec

-----------------------------------------------------------------------------
(* What "already complete" rests on: the invariant behind IdleIsSettled. *)

\* The worker of a job that was not handed out again runs it under Bull's job lock, and a
\* job lock is on an active job.
RunnerHolds ==
    \A w \in Workers : LET j == run[w].job IN
        at[w] # "idle" /\ stalls[j] = 0 /\ status[j] # "failed" =>
            status[j] = "active" /\ runner[j] = w

HeldIsActive == \A j \in Jobs : runner[j] # NoWorker => status[j] = "active"

\* Somebody was told of id i.
Told(i) == \E c \in callbacks : PaymentId[c.job] = i

\* A job of id i has its callback to come: it is active, and whoever runs it is about to report.
Owing(i) ==
    \E k \in Jobs :
        /\ PaymentId[k] = i /\ status[k] = "active"
        /\ \A w \in Workers : at[w] # "idle" /\ run[w].job = k => at[w] \in {"reporting", "failing"}

\* No job of id i has come to its end or is past the check, and none can find a record.
Unsaid(i) ==
    /\ store[i] = 0
    /\ \A w \in Workers : at[w] \in {"unlocking", "finishing"} => Id(w) # i
    /\ \A j \in Jobs : PaymentId[j] = i => status[j] # "completed"

AllIsOwed == \A i \in Ids : Told(i) \/ HandedOut(i) \/ Owing(i) \/ Unsaid(i)

\* What a step does to a job.
LEMMA JobMoves ==
    ASSUME TypeOK, [Next]_vars, NEW j \in Jobs
    PROVE  \/ status'[j] = status[j] /\ runner'[j] = runner[j] /\ stalls'[j] = stalls[j]
           \/ /\ status[j] = "new" /\ status'[j] = "waiting"
              /\ runner'[j] = runner[j] /\ stalls'[j] = stalls[j]
           \/ \E w \in Workers :
                 /\ Start(w, j) /\ status[j] = "waiting" /\ status'[j] = "active"
                 /\ runner'[j] = w /\ stalls'[j] = stalls[j]
           \/ /\ status[j] = "active" /\ runner'[j] = NoWorker
              /\ \/ status'[j] = "waiting" /\ stalls'[j] = stalls[j] + 1
                 \/ status'[j] = "failed" /\ stalls'[j] = stalls[j]
           \/ \E w \in Workers :
                 /\ Finish(w) /\ run[w].job = j /\ runner[j] = w /\ status'[j] = "completed"
                 /\ runner'[j] = NoWorker /\ stalls'[j] = stalls[j]
<1> USE DEF TypeOK, Queue!QueueTypeOK
<1> DEFINE Same == status'[j] = status[j] /\ runner'[j] = runner[j] /\ stalls'[j] = stalls[j]
<1>1. ASSUME NEW k \in Jobs, Web(k)
      PROVE  \/ Same
             \/ /\ status[j] = "new" /\ status'[j] = "waiting"
                /\ runner'[j] = runner[j] /\ stalls'[j] = stalls[j]
  BY <1>1 DEF Web, CheckPost, CheckPostFails, Accept, Enqueue, EnqueueFails, Queue!Add
<1>2. ASSUME NEW k \in Jobs, Redeliver(k)
      PROVE  \/ Same
             \/ /\ status[j] = "active" /\ runner'[j] = NoWorker
                /\ \/ status'[j] = "waiting" /\ stalls'[j] = stalls[j] + 1
                   \/ status'[j] = "failed" /\ stalls'[j] = stalls[j]
  BY <1>2 DEF Redeliver, Queue!Requeue
<1>3. ASSUME NEW w \in Workers, NEW k \in Jobs, Start(w, k)
      PROVE  \/ Same
             \/ /\ Start(w, j) /\ status[j] = "waiting" /\ status'[j] = "active"
                /\ runner'[j] = w /\ stalls'[j] = stalls[j]
  <2>1. CASE k = j
    BY <1>3, <2>1 DEF Start, Queue!Take
  <2>2. CASE k # j
    BY <1>3, <2>2 DEF Start, Queue!Take
  <2> QED
    BY <2>1, <2>2
<1>4. ASSUME NEW w \in Workers, Finish(w)
      PROVE  \/ Same
             \/ /\ run[w].job = j /\ runner[j] = w /\ status'[j] = "completed"
                /\ runner'[j] = NoWorker /\ stalls'[j] = stalls[j]
  BY <1>4 DEF Finish, Queue!Finish
<1>5. ASSUME \/ \E w \in Workers : Crash(w) \/ (Work(w) /\ ~Finish(w))
             \/ \E i \in Ids : ExpireLock(i) \/ ExpireRecord(i)
             \/ UNCHANGED vars
      PROVE  UNCHANGED <<status, runner, stalls>>
  BY <1>5 DEF Crash, ExpireLock, ExpireRecord, vars, Work, AcquireLock, GiveUpLock, Check,
     CheckFails, PayLands, PayRejected, PayReturns, PayReplyLost, SavePayment,
     SavePaymentFails, Report, ReportFails, ReportFailure, ReportFailureFails, Unlock,
     UnlockFails
<1> HIDE DEF TypeOK, Queue!QueueTypeOK
<1> QED
  BY <1>1, <1>2, <1>3, <1>4, <1>5 DEF Next, AtRest

\* Job locks and their holders stay together.
LEMMA RunnerStep ==
    ASSUME TypeOK, RunsAcceptedJob, RunnerHolds, HeldIsActive, [Next]_vars
    PROVE  RunnerHolds' /\ HeldIsActive'
<1>1. ASSUME NEW j \in Jobs, runner'[j] # NoWorker PROVE status'[j] = "active"
  BY <1>1, JobMoves DEF HeldIsActive
<1>2. ASSUME NEW w \in Workers, at'[w] # "idle", stalls'[run'[w].job] = 0,
             status'[run'[w].job] # "failed"
      PROVE  status'[run'[w].job] = "active" /\ runner'[run'[w].job] = w
  <2>1. ASSUME NEW j \in Jobs, Start(w, j)
        PROVE  status'[run'[w].job] = "active" /\ runner'[run'[w].job] = w
    BY <2>1 DEF Start, Queue!Take, TypeOK, Queue!QueueTypeOK
  <2>2. ASSUME at[w] # "idle", NEW j \in Jobs, run[w].job = j, run'[w].job = j
        PROVE  status'[j] = "active" /\ runner'[j] = w
    <3>1. stalls[j] \in Nat /\ stalls'[j] = 0 /\ status'[j] # "failed"
      BY <1>2, <2>2, QueueFrame
    <3>2. ~Finish(w)
      BY <1>2 DEF Finish, Goes, TypeOK
    <3>3. stalls[j] = 0 /\ status[j] # "failed" => status[j] = "active" /\ runner[j] = w
      BY <2>2 DEF RunnerHolds
    <3>4. CASE stalls'[j] = stalls[j]
      <4>1. status[j] = "active" /\ runner[j] = w
        BY <3>1, <3>3, <3>4, JobMoves DEF HeldIsActive
      <4> QED
        BY <3>1, <3>2, <3>4, <4>1, JobMoves
    <3>5. CASE stalls'[j] = stalls[j] + 1
      BY <3>1, <3>5
    <3> QED
      BY <3>1, <3>4, <3>5, QueueFrame
  <2>3. CASE at[w] # "idle" /\ Delivery(w)' = Delivery(w)
    <3>1. run'[w].job = run[w].job /\ run[w].job \in Jobs
      BY <2>3 DEF Delivery, RunsAcceptedJob
    <3> QED
      BY <2>2, <2>3, <3>1
  <2> QED
    BY <1>2, <2>1, <2>3, DeliveryFrame
<1> QED
  BY <1>1, <1>2 DEF RunnerHolds, HeldIsActive

\* Who was told stays told, and a job that was handed out again stays so.
LEMMA SettledStays ==
    ASSUME TypeOK, HeldIsActive, [Next]_vars, NEW i \in Ids, Told(i) \/ HandedOut(i)
    PROVE  Told(i)' \/ HandedOut(i)'
<1>1. CASE Told(i)
  BY <1>1, CallbacksGrow DEF Told
<1>2. CASE HandedOut(i)
  <2>1. PICK k \in Jobs : PaymentId[k] = i /\ (stalls[k] > 0 \/ status[k] = "failed")
    BY <1>2 DEF HandedOut
  <2>2. stalls[k] > 0 => stalls'[k] > 0
    BY QueueFrame
  <2>3. status[k] = "failed" => status'[k] = "failed"
    BY JobMoves DEF HeldIsActive
  <2> QED
    BY <2>1, <2>2, <2>3 DEF HandedOut
<1> QED
  BY <1>1, <1>2

\* A worker about to report does so, unless it dies.
LEMMA ReporterTells ==
    ASSUME TypeOK, [Next]_vars, NEW w \in Workers, at[w] \in {"reporting", "failing"},
           Faults \cap {"redis", "noLock"} = {}
    PROVE  \/ at'[w] = at[w] /\ run'[w] = run[w]
           \/ at'[w] = "idle"
           \/ at'[w] = "unlocking" /\ run'[w] = run[w]
              /\ \E c \in callbacks' : c.job = run[w].job
<1>1. CASE Work(w)
  <2>1. Report(w) \/ ReportFailure(w)
    BY <1>1 DEF Work, Goes, AcquireLock, GiveUpLock, Check, CheckFails, PayLands,
       PayRejected, PayReturns, PayReplyLost, SavePayment, SavePaymentFails, ReportFails,
       ReportFailureFails, Unlock, UnlockFails, Finish
  <2>2. run' = run /\ at'[w] = "unlocking"
    BY <2>1 DEF Report, ReportFailure, Goes, TypeOK
  <2>3. SuccessCallback(w) \in callbacks' \/ FailCallback(w) \in callbacks'
    BY <2>1 DEF Report, ReportFailure
  <2>4. SuccessCallback(w).job = run[w].job /\ FailCallback(w).job = run[w].job
    BY DEF SuccessCallback, FailCallback
  <2> QED
    BY <2>2, <2>3, <2>4
<1>2. CASE Crash(w) \/ \E j \in Jobs : Start(w, j)
  BY <1>2 DEF Crash, Start, Goes, TypeOK
<1> QED
  BY <1>1, <1>2, WorkerFrame

\* A callback to come stays to come until it is enqueued, or its job is handed out again.
LEMMA OwingStep ==
    ASSUME TypeOK, RunsAcceptedJob, HeldIsActive, [Next]_vars, NEW i \in Ids, Owing(i),
           Faults \cap {"redis", "noLock"} = {}
    PROVE  Told(i)' \/ HandedOut(i)' \/ Owing(i)'
<1>1. PICK k \in Jobs :
        /\ PaymentId[k] = i /\ status[k] = "active"
        /\ \A w \in Workers : at[w] # "idle" /\ run[w].job = k => at[w] \in {"reporting", "failing"}
  BY DEF Owing
<1>2. CASE status'[k] = "failed" \/ stalls'[k] = stalls[k] + 1
  BY <1>1, <1>2, QueueFrame DEF HandedOut
<1>3. ASSUME NEW w \in Workers, Finish(w), run[w].job = k PROVE FALSE
  BY <1>1, <1>3 DEF Finish, Goes
<1>4. status'[k] = "active" \/ status'[k] = "failed" \/ stalls'[k] = stalls[k] + 1
  BY <1>1, <1>3, JobMoves
<1>5. ASSUME NEW w \in Workers, at'[w] # "idle", run'[w].job = k, ~Told(i)'
      PROVE  at'[w] \in {"reporting", "failing"}
  <2>1. ~ \E j \in Jobs : Start(w, j)
    BY <1>1, <1>5 DEF Start, Queue!Take, TypeOK
  <2>2. at[w] # "idle" /\ run[w].job = k
    BY <1>5, <2>1, DeliveryFrame DEF Delivery
  <2>3. at[w] \in {"reporting", "failing"}
    BY <1>1, <2>2
  <2>4. ~ \E c \in callbacks' : c.job = run[w].job
    BY <1>1, <1>5, <2>2 DEF Told
  <2> QED
    BY <1>5, <2>3, <2>4, ReporterTells
<1> QED
  BY <1>1, <1>2, <1>4, <1>5 DEF Owing
\* A worker that ends its job found a record, or has reported.
LEMMA EndsAfterWord ==
    ASSUME TypeOK, [Next]_vars, NEW w \in Workers, at'[w] \in {"unlocking", "finishing"},
           Faults \cap {"redis", "noLock"} = {}
    PROVE  /\ run'[w].job = run[w].job
           /\ \/ at[w] \in {"unlocking", "finishing"}
              \/ at[w] = "checking" /\ doesPaymentExist(Id(w))
              \/ \E c \in callbacks' : c.job = run[w].job
<1>1. CASE at[w] \in {"reporting", "failing"}
  BY <1>1, ReporterTells
<1>2. CASE Work(w) /\ at[w] \notin {"reporting", "failing"}
  <2>1. Check(w) \/ Unlock(w)
    BY <1>2 DEF Work, Goes, AcquireLock, GiveUpLock, Check, CheckFails, PayLands,
       PayRejected, PayReturns, PayReplyLost, SavePayment, SavePaymentFails, Report,
       ReportFails, ReportFailure, ReportFailureFails, Unlock, UnlockFails, Finish, TypeOK
  <2> QED
    BY <2>1 DEF Check, Unlock, Goes, TypeOK
<1>3. CASE Crash(w) \/ \E j \in Jobs : Start(w, j)
  BY <1>3 DEF Crash, Start, Goes, TypeOK
<1> QED
  BY <1>1, <1>2, <1>3, WorkerFrame

\* Whoever writes the record has the callback to come.
LEMMA SaverOwes ==
    ASSUME TypeOK, RunsAcceptedJob, RunnerHolds, NEW w \in Workers, SavePayment(w)
    PROVE  HandedOut(Id(w)) \/ Owing(Id(w))'
<1> DEFINE k == run[w].job
<1>1. at[w] # "idle" /\ k \in Jobs /\ PaymentId[k] = Id(w)
  BY WorkerType DEF SavePayment, Goes, Id
<1>2. stalls[k] \in Nat
  BY <1>1 DEF TypeOK, Queue!QueueTypeOK
<1>3. CASE stalls[k] > 0 \/ status[k] = "failed"
  BY <1>1, <1>3 DEF HandedOut
<1>4. CASE stalls[k] = 0 /\ status[k] # "failed"
  <2>1. status' = status /\ run' = run /\ at' = [at EXCEPT ![w] = "reporting"]
    BY DEF SavePayment, Goes
  <2>2. ASSUME NEW v \in Workers, at'[v] # "idle", run'[v].job = k PROVE at'[v] = "reporting"
    <3>1. at[v] # "idle" /\ run[v].job = k
      BY <1>1, <2>1, <2>2 DEF TypeOK
    <3>2. v = w
      BY <1>1, <1>4, <3>1 DEF RunnerHolds
    <3> QED
      BY <2>1, <3>2 DEF TypeOK
  <2>3. status'[k] = "active"
    BY <1>1, <1>4, <2>1 DEF RunnerHolds
  <2>4. Id(w)' = Id(w)
    BY <2>1 DEF Id
  <2>5. PaymentId[k] = Id(w)
    BY <1>1
  <2> HIDE DEF k
  <2> QED
    BY <1>1, <2>2, <2>3, <2>4, <2>5 DEF Owing
<1> QED
  BY <1>2, <1>3, <1>4

\* Only writing a record ends a record's absence.
LEMMA RecordAppears ==
    ASSUME TypeOK, [Next]_vars, NEW i \in Ids, store[i] = 0, store'[i] # 0,
           Faults \cap {"redis", "noLock"} = {}
    PROVE  \E w \in Workers : SavePayment(w) /\ Id(w) = i
<1>1. ASSUME NEW w \in Workers, Work(w) PROVE SavePayment(w) /\ Id(w) = i
  <2>1. SavePayment(w)
    BY <1>1
    DEF Work, AcquireLock, GiveUpLock, Check, CheckFails, PayLands, PayRejected, PayReturns,
        PayReplyLost, SavePaymentFails, Report, ReportFails, ReportFailure,
        ReportFailureFails, Unlock, UnlockFails, Finish
  <2> QED
    BY <2>1 DEF SavePayment, savePayment, TypeOK
<1>2. ASSUME NEW j \in Jobs, Web(j) \/ Redeliver(j) \/ \E w \in Workers : Start(w, j)
      PROVE  FALSE
  BY <1>2 DEF Web, CheckPost, CheckPostFails, Accept, Enqueue, EnqueueFails, Redeliver, Start
<1>3. ASSUME NEW k \in Ids, ExpireLock(k) \/ ExpireRecord(k) PROVE FALSE
  BY <1>3 DEF ExpireLock, ExpireRecord, TypeOK
<1>4. ASSUME NEW w \in Workers, Crash(w) PROVE FALSE
  BY <1>4 DEF Crash
<1> QED
  BY <1>1, <1>2, <1>3, <1>4 DEF Next, AtRest, vars
\* While there is no record, a job ends in silence of nobody: the first to write it owes the
\* callback, and who ends without a record has reported.
LEMMA UnsaidStep ==
    ASSUME TypeOK, RunsAcceptedJob, RunnerHolds, HeldIsActive, [Next]_vars,
           NEW i \in Ids, Unsaid(i), Faults \cap {"redis", "noLock"} = {}
    PROVE  Told(i)' \/ HandedOut(i)' \/ Owing(i)' \/ Unsaid(i)'
<1>1. CASE store'[i] # 0
  <2>1. PICK w \in Workers : SavePayment(w) /\ Id(w) = i
    BY <1>1, RecordAppears DEF Unsaid
  <2>2. CASE HandedOut(i)
    BY <2>2, SettledStays
  <2>3. CASE Owing(Id(w))'
    <3>1. Id(w)' = i
      BY <2>1 DEF SavePayment, Id
    <3> QED
      BY <2>3, <3>1 DEF Owing
  <2> QED
    BY <2>1, <2>2, <2>3, SaverOwes
<1>2. ASSUME NEW w \in Workers, at'[w] \in {"unlocking", "finishing"}, Id(w)' = i, ~Told(i)'
      PROVE  FALSE
  <2>1. run'[w].job = run[w].job
    BY <1>2, EndsAfterWord
  <2>2. PaymentId[run[w].job] = i
    BY <1>2, <2>1 DEF Id
  <2>3. ~ \E c \in callbacks' : c.job = run[w].job
    BY <1>2, <2>2 DEF Told
  <2>4. at[w] \in {"unlocking", "finishing"} \/ (at[w] = "checking" /\ doesPaymentExist(Id(w)))
    BY <1>2, <2>3, EndsAfterWord
  <2> QED
    BY <2>2, <2>4 DEF Unsaid, Id, doesPaymentExist
<1>3. ASSUME NEW j \in Jobs, PaymentId[j] = i, status'[j] = "completed" PROVE FALSE
  <2>1. PICK w \in Workers : Finish(w) /\ run[w].job = j
    BY <1>3, JobMoves DEF Unsaid
  <2> QED
    BY <1>3, <2>1 DEF Finish, Goes, Unsaid, Id
<1> QED
  BY <1>1, <1>2, <1>3 DEF Unsaid

LEMMA OwedStep ==
    ASSUME TypeOK, RunsAcceptedJob, RunnerHolds, HeldIsActive, AllIsOwed, [Next]_vars,
           Faults \cap {"redis", "noLock"} = {}
    PROVE  AllIsOwed'
<1>1. ASSUME NEW i \in Ids PROVE Told(i)' \/ HandedOut(i)' \/ Owing(i)' \/ Unsaid(i)'
  BY SettledStays, OwingStep, UnsaidStep DEF AllIsOwed
<1> QED
  BY <1>1 DEF AllIsOwed

\* As long as Redis answers and Redlock does not give up, whatever workers crash, jobs stall
\* and locks expire: when all jobs of an id are over, its requester was told or Bull had to
\* hand out a job again.
THEOREM IdleAreSettled ==
    ASSUME Faults \cap {"redis", "noLock"} = {}
    PROVE  Spec => []IdleIsSettled
<1> DEFINE Owed == RunnerHolds /\ HeldIsActive /\ AllIsOwed
<1>1. Init => Owed
  BY DEF Init, Queue!QueueInit, RunnerHolds, HeldIsActive, AllIsOwed, Unsaid
<1>2. TypeOK /\ RunsAcceptedJob /\ Owed /\ [Next]_vars => Owed'
  BY RunnerStep, OwedStep
<1>3. Owed => IdleIsSettled
  <2> SUFFICES ASSUME Owed, NEW i \in Ids,
                      NEW j \in Jobs, PaymentId[j] = i, status[j] = "completed",
                      \A k \in Jobs : PaymentId[k] = i => status[k] \notin {"waiting", "active"}
               PROVE  (\E c \in callbacks : PaymentId[c.job] = i) \/ HandedOut(i)
    BY DEF IdleIsSettled
  <2>1. ~Owing(i) /\ ~Unsaid(i)
    BY DEF Owing, Unsaid
  <2> QED
    BY <2>1 DEF AllIsOwed, Told
<1>4. IInv => TypeOK /\ RunsAcceptedJob
  BY DEF IInv
<1> HIDE DEF Owed
<1> QED
  BY <1>1, <1>2, <1>3, <1>4, Invariance, PTL DEF Spec
=============================================================================
