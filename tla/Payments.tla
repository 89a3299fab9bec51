------------------------------ MODULE Payments ------------------------------
(***************************************************************************)
(* The payment path: POST /payments (PaymentService.pay), the job queue,   *)
(* the workers (WorkerApp, PaymentSender, Locker), the payment records in  *)
(* Redis (RedisDb), the blockchain ledger (Kin.pay), and the callback jobs *)
(* that end a payment. One action per stretch of code between two awaits.  *)
(*                                                                         *)
(* A POST and the job it enqueues have the same name, a member of Jobs.    *)
(* Several of them may carry the same payment id: a client that retries.   *)
(***************************************************************************)
EXTENDS Naturals, Sequences

CONSTANTS
    Jobs, Workers, MaxStalled,   \* see JobQueue
    Ids,          \* payment ids
    PaymentId,    \* PaymentId[j]: request.id of j
    External,     \* the jobs with request.is_external
    KnownApp,     \* the jobs whose app_id has seeds in the configuration
    NoJob, NoWorker, Free,       \* null values
    Faults        \* what the environment may do in this instance

FaultKinds ==
  { "crash",        \* a worker process dies and is restarted
    "stall",        \* Bull takes a job away from a worker that is still at it
    "lockExpiry",   \* a payment takes longer than the lock's time to live
    "recordExpiry", \* a payment record gets older than paymentStoreExpirationSec
    "redis",        \* a Redis command fails, with or without taking effect
    "replyLost",    \* the transaction lands but its submission reports an error
    "noLock" }      \* Redlock gives up: its retries are over, or Redis is away

ASSUME ConstantsAssumption ==
    /\ PaymentId \in [Jobs -> Ids]
    /\ NoJob \notin Jobs
    /\ NoWorker \notin Workers
    /\ Free \notin Workers
    /\ MaxStalled \in Nat
    /\ Faults \subseteq FaultKinds

VARIABLES
    status, runner, stalls,   \* the queue (JobQueue)
    lock,        \* the locks "lock:payment:<id>" (Locker)
    post,        \* post[j]: how far the HTTP request is
    at,          \* at[w]: where worker w is
    run,         \* run[w]: the job w runs, which delivery of it, and its transaction
    store,       \* store[i]: transaction in the record "payment:<i>", 0 for no record
    ledger,      \* the payments on the blockchain: which delivery of which job paid
    callbacks,   \* the callback jobs that were enqueued
    disturbed    \* history: ids whose double-spend protection was broken from outside

Queue == INSTANCE JobQueue
Locks == INSTANCE Locker WITH Owners <- Workers, Keys <- Ids

webVars == post
workerVars == <<at, run>>
vars == <<status, runner, stalls, lock, post, at, run,
          store, ledger, callbacks, disturbed>>

-----------------------------------------------------------------------------
PostStates == {"unsent", "checked", "adding", "queued", "lost",
               "conflict", "noService", "error"}

Stages == {"idle", "locking", "checking", "paying", "landed", "saving",
           "reporting", "failing", "unlocking", "finishing"}

\* The stages that only the lock protects: between reading that there is no record
\* and writing it.
Guarded == {"checking", "paying", "landed", "saving"}

Payment == [job : Jobs, attempt : 0..MaxStalled]

Callback == [job : Jobs, attempt : 0..MaxStalled, state : {"success", "fail"}, tx : Nat]

NoRun == [job |-> NoJob, attempt |-> 0, tx |-> 0]

Run == [job : Jobs \cup {NoJob}, attempt : 0..MaxStalled, tx : Nat]

Id(w) == PaymentId[run[w].job]

\* The response of POST /payments is 201: enqueueSendPayment is not awaited.
Accepted(j) == post[j] \in {"adding", "queued", "lost"}

TypeOK ==
    /\ Queue!QueueTypeOK
    /\ Locks!LockTypeOK
    /\ post \in [Jobs -> PostStates]
    /\ at \in [Workers -> Stages]
    /\ run \in [Workers -> Run]
    /\ store \in [Ids -> Nat]
    /\ ledger \in Seq(Payment)
    /\ callbacks \subseteq Callback
    /\ disturbed \subseteq Ids

Init ==
    /\ Queue!QueueInit
    /\ Locks!LockInit
    /\ post = [j \in Jobs |-> "unsent"]
    /\ at = [w \in Workers |-> "idle"]
    /\ run = [w \in Workers |-> NoRun]
    /\ store = [i \in Ids |-> 0]
    /\ ledger = <<>>
    /\ callbacks = {}
    /\ disturbed = {}

-----------------------------------------------------------------------------
(* Payment records, RedisDb. *)

\* Variant for the mutation check: the record is never found.
neverExists(i) == FALSE

doesPaymentExist(i) == store[i] # 0

\* The payment in the answer of GET /payments/<i>, 0 for 404 (PaymentService.getPayment).
getPayment(i) == store[i]

savePayment(i, n) == store' = [store EXCEPT ![i] = n]

-----------------------------------------------------------------------------
(* PaymentService.pay, in the web API. *)

PostGoes(j, from, to) ==
    /\ post[j] = from
    /\ post' = [post EXCEPT ![j] = to]

\* await doesPaymentExist: 409 if there is a record.
CheckPost(j) ==
    /\ PostGoes(j, "unsent", IF doesPaymentExist(PaymentId[j]) THEN "conflict" ELSE "checked")
    /\ UNCHANGED <<status, runner, stalls, lock, workerVars, store, ledger, callbacks, disturbed>>

\* The read fails: GeneralErrorMiddleware answers 500.
CheckPostFails(j) ==
    /\ "redis" \in Faults
    /\ PostGoes(j, "unsent", "error")
    /\ UNCHANGED <<status, runner, stalls, lock, workerVars, store, ledger, callbacks, disturbed>>

\* After the await: 404 for an external payment of an unknown app, else 201 with the
\* job on its way to Redis.
Accept(j) ==
    /\ PostGoes(j, "checked", IF j \in External \ KnownApp THEN "noService" ELSE "adding")
    /\ UNCHANGED <<status, runner, stalls, lock, workerVars, store, ledger, callbacks, disturbed>>

\* enqueueSendPayment takes effect.
Enqueue(j) ==
    /\ PostGoes(j, "adding", "queued")
    /\ Queue!Add(j)
    /\ UNCHANGED <<lock, workerVars, store, ledger, callbacks, disturbed>>

\* enqueueSendPayment is rejected: nobody awaits the promise.
EnqueueFails(j) ==
    /\ "redis" \in Faults
    /\ PostGoes(j, "adding", "lost")
    /\ UNCHANGED <<status, runner, stalls, lock, workerVars, store, ledger, callbacks, disturbed>>

-----------------------------------------------------------------------------
(* WorkerApp.run, PaymentSender.pay and performPay, in a worker. *)

Goes(w, from, to) ==
    /\ at[w] = from
    /\ at' = [at EXCEPT ![w] = to]

\* The job processor is called with a SendPayment job and asks for the lock.
Start(w, j) ==
    /\ Goes(w, "idle", "locking")
    /\ Queue!Take(w, j)
    /\ run' = [run EXCEPT ![w] = [job |-> j, attempt |-> stalls[j], tx |-> 0]]
    /\ UNCHANGED <<lock, webVars, store, ledger, callbacks, disturbed>>

AcquireLock(w) ==
    /\ Goes(w, "locking", "checking")
    /\ Locks!Acquire(w, Id(w))
    /\ UNCHANGED <<status, runner, stalls, webVars, run, store, ledger, callbacks, disturbed>>

\* acquire is rejected; Locker.lock swallows the error and pay returns normally.
GiveUpLock(w) ==
    /\ "noLock" \in Faults
    /\ Goes(w, "locking", "finishing")
    /\ UNCHANGED <<status, runner, stalls, lock, webVars, run, store, ledger, callbacks, disturbed>>

\* Variant for the mutation check: the test of the record is the wrong way round.
CheckInverted(w) ==
    /\ Goes(w, "checking", IF doesPaymentExist(Id(w)) THEN "paying" ELSE "unlocking")
    /\ UNCHANGED <<status, runner, stalls, lock, webVars, run, store, ledger, callbacks, disturbed>>

\* performPay: "payment is already complete - not double spending".
Check(w) ==
    /\ Goes(w, "checking", IF doesPaymentExist(Id(w)) THEN "unlocking" ELSE "paying")
    /\ UNCHANGED <<status, runner, stalls, lock, webVars, run, store, ledger, callbacks, disturbed>>

\* The read throws out of performPay: Locker.lock skips the unlock.
CheckFails(w) ==
    /\ "redis" \in Faults
    /\ Goes(w, "checking", "finishing")
    /\ UNCHANGED <<status, runner, stalls, lock, webVars, run, store, ledger, callbacks, disturbed>>

\* Kin.pay: the transaction is in the ledger.
PayLands(w) ==
    /\ Goes(w, "paying", "landed")
    /\ ledger' = Append(ledger, [job |-> run[w].job, attempt |-> run[w].attempt])
    /\ run' = [run EXCEPT ![w].tx = Len(ledger) + 1]
    /\ UNCHANGED <<status, runner, stalls, lock, webVars, store, callbacks, disturbed>>

\* Variant for the mutation check: a rejected payment is tried again.
PayRejectedAgain(w) ==
    /\ Goes(w, "paying", "checking")
    /\ UNCHANGED <<status, runner, stalls, lock, webVars, run, store, ledger, callbacks, disturbed>>

\* Kin.pay throws and nothing was paid: no fee, no channel, no account, no funds.
PayRejected(w) ==
    /\ Goes(w, "paying", "failing")
    /\ UNCHANGED <<status, runner, stalls, lock, webVars, run, store, ledger, callbacks, disturbed>>

\* Variant for the mutation check: the payment is not saved.
PayReturnsUnsaved(w) ==
    /\ Goes(w, "landed", "reporting")
    /\ UNCHANGED <<status, runner, stalls, lock, webVars, run, store, ledger, callbacks, disturbed>>

\* Kin.pay returns the transaction hash.
PayReturns(w) ==
    /\ Goes(w, "landed", "saving")
    /\ UNCHANGED <<status, runner, stalls, lock, webVars, run, store, ledger, callbacks, disturbed>>

\* Kin.pay throws although the transaction landed.
PayReplyLost(w) ==
    /\ "replyLost" \in Faults
    /\ Goes(w, "landed", "failing")
    /\ disturbed' = disturbed \cup {Id(w)}
    /\ UNCHANGED <<status, runner, stalls, lock, webVars, run, store, ledger, callbacks>>

\* Variant for the mutation check: the callback is forgotten.
SavePaymentSilently(w) ==
    /\ Goes(w, "saving", "unlocking")
    /\ savePayment(Id(w), run[w].tx)
    /\ UNCHANGED <<status, runner, stalls, lock, webVars, run, ledger, callbacks, disturbed>>

SavePayment(w) ==
    /\ Goes(w, "saving", "reporting")
    /\ savePayment(Id(w), run[w].tx)
    /\ UNCHANGED <<status, runner, stalls, lock, webVars, run, ledger, callbacks, disturbed>>

\* Variant for the mutation check: when the write throws, all of performPay is tried again.
SavePaymentFailsAgain(w) ==
    /\ "redis" \in Faults
    /\ Goes(w, "saving", "checking")
    /\ \/ savePayment(Id(w), run[w].tx) /\ UNCHANGED disturbed
       \/ UNCHANGED store /\ disturbed' = disturbed \cup {Id(w)}
    /\ UNCHANGED <<status, runner, stalls, lock, webVars, run, ledger, callbacks>>

\* The write throws, with or without having been done: into the catch block.
SavePaymentFails(w) ==
    /\ "redis" \in Faults
    /\ Goes(w, "saving", "failing")
    /\ \/ savePayment(Id(w), run[w].tx) /\ UNCHANGED disturbed
       \/ UNCHANGED store /\ disturbed' = disturbed \cup {Id(w)}
    /\ UNCHANGED <<status, runner, stalls, lock, webVars, run, ledger, callbacks>>

-----------------------------------------------------------------------------
(* The end of performPay and of the job. *)

SuccessCallback(w) ==
    [job |-> run[w].job, attempt |-> run[w].attempt, state |-> "success", tx |-> run[w].tx]

FailCallback(w) ==
    [job |-> run[w].job, attempt |-> run[w].attempt, state |-> "fail", tx |-> 0]

\* Variant for the mutation check: nobody is told of a second payment of a job.
ReportUnlessTold(w) ==
    /\ Goes(w, "reporting", "unlocking")
    /\ callbacks' = IF \E c \in callbacks : c.job = run[w].job /\ c.state = "success"
                      THEN callbacks ELSE callbacks \cup {SuccessCallback(w)}
    /\ UNCHANGED <<status, runner, stalls, lock, webVars, run, store, ledger, disturbed>>

\* enqueuePaymentCallback.
Report(w) ==
    /\ Goes(w, "reporting", "unlocking")
    /\ callbacks' = callbacks \cup {SuccessCallback(w)}
    /\ UNCHANGED <<status, runner, stalls, lock, webVars, run, store, ledger, disturbed>>

\* enqueuePaymentCallback throws, with or without having enqueued: into the catch block.
ReportFails(w) ==
    /\ "redis" \in Faults
    /\ Goes(w, "reporting", "failing")
    /\ callbacks' \in {callbacks, callbacks \cup {SuccessCallback(w)}}
    /\ UNCHANGED <<status, runner, stalls, lock, webVars, run, store, ledger, disturbed>>

\* The catch block: enqueuePaymentFailedCallback.
ReportFailure(w) ==
    /\ Goes(w, "failing", "unlocking")
    /\ callbacks' = callbacks \cup {FailCallback(w)}
    /\ UNCHANGED <<status, runner, stalls, lock, webVars, run, store, ledger, disturbed>>

\* The catch block throws: Locker.lock swallows it and skips the unlock.
ReportFailureFails(w) ==
    /\ "redis" \in Faults
    /\ Goes(w, "failing", "finishing")
    /\ callbacks' \in {callbacks, callbacks \cup {FailCallback(w)}}
    /\ UNCHANGED <<status, runner, stalls, lock, webVars, run, store, ledger, disturbed>>

Unlock(w) ==
    /\ Goes(w, "unlocking", "finishing")
    /\ Locks!Release(w, Id(w))
    /\ UNCHANGED <<status, runner, stalls, webVars, run, store, ledger, callbacks, disturbed>>

\* unlock does not reach Redis; Locker.lock swallows the error.
UnlockFails(w) ==
    /\ "redis" \in Faults
    /\ Goes(w, "unlocking", "finishing")
    /\ UNCHANGED <<status, runner, stalls, lock, webVars, run, store, ledger, callbacks, disturbed>>

\* done(): PaymentSender.pay never throws, so the job always completes.
Finish(w) ==
    /\ Goes(w, "finishing", "idle")
    /\ Queue!Finish(w, run[w].job, "completed")
    /\ run' = [run EXCEPT ![w] = NoRun]
    /\ UNCHANGED <<lock, webVars, store, ledger, callbacks, disturbed>>

-----------------------------------------------------------------------------
(* The environment. *)

\* The worker's process dies; a new one takes its place. The job stays active and the
\* lock stays in Redis. A payment that landed and was not saved is forgotten.
Crash(w) ==
    /\ "crash" \in Faults
    /\ at[w] # "idle"
    /\ at' = [at EXCEPT ![w] = "idle"]
    /\ run' = [run EXCEPT ![w] = NoRun]
    /\ disturbed' = IF at[w] \in {"landed", "saving"} THEN disturbed \cup {Id(w)} ELSE disturbed
    /\ UNCHANGED <<status, runner, stalls, lock, webVars, store, ledger, callbacks>>

\* Some worker runs j under Bull's job lock.
Running(j) == \E w \in Workers : runner[j] = w /\ run[w].job = j

\* Bull hands out j again: its worker died, or lives but failed to renew the job lock.
Redeliver(j) ==
    /\ Running(j) => "stall" \in Faults
    /\ Queue!Requeue(j)
    /\ UNCHANGED <<lock, webVars, workerVars, store, ledger, callbacks, disturbed>>

\* Worker w relies on the lock of id i at this moment.
Guards(w, i) == at[w] \in Guarded /\ Id(w) = i

\* The time to live of the lock on i is over, 120 milliseconds after it was taken.
ExpireLock(i) ==
    /\ Locks!Expire(i)
    /\ LET broken == Guards(lock[i], i)
       IN  /\ broken => "lockExpiry" \in Faults
           /\ disturbed' = IF broken THEN disturbed \cup {i} ELSE disturbed
    /\ UNCHANGED <<status, runner, stalls, webVars, workerVars, store, ledger, callbacks>>

\* The record of i is dropped, 500 seconds after it was written.
ExpireRecord(i) ==
    /\ "recordExpiry" \in Faults
    /\ doesPaymentExist(i)
    /\ store' = [store EXCEPT ![i] = 0]
    /\ disturbed' = disturbed \cup {i}
    /\ UNCHANGED <<status, runner, stalls, lock, webVars, workerVars, ledger, callbacks>>

\* Every request was answered and every job is over: the system is at rest.
AtRest ==
    /\ \A j \in Jobs : /\ post[j] \notin {"unsent", "checked", "adding"}
                       /\ status[j] \notin {"waiting", "active"}
    /\ \A w \in Workers : at[w] = "idle"
    /\ UNCHANGED vars

Web(j) ==
    \/ CheckPost(j) \/ CheckPostFails(j) \/ Accept(j) \/ Enqueue(j) \/ EnqueueFails(j)

Work(w) ==
    \/ AcquireLock(w) \/ GiveUpLock(w) \/ Check(w) \/ CheckFails(w)
    \/ PayLands(w) \/ PayRejected(w) \/ PayReturns(w) \/ PayReplyLost(w)
    \/ SavePayment(w) \/ SavePaymentFails(w) \/ Report(w) \/ ReportFails(w)
    \/ ReportFailure(w) \/ ReportFailureFails(w) \/ Unlock(w) \/ UnlockFails(w)
    \/ Finish(w)

Next ==
    \/ \E j \in Jobs : Web(j) \/ Redeliver(j)
    \/ \E w \in Workers : Work(w) \/ Crash(w)
    \/ \E w \in Workers, j \in Jobs : Start(w, j)
    \/ \E i \in Ids : ExpireLock(i) \/ ExpireRecord(i)
    \/ AtRest

Spec == Init /\ [][Next]_vars

-----------------------------------------------------------------------------
(* Properties. *)

\* No payment id is paid by two transactions unless its protection was broken from
\* outside (PaymentSender.pay and performPay: lock, record, and their order).
NoDoubleSpend ==
    \A m, n \in DOMAIN ledger :
        m # n /\ PaymentId[ledger[m].job] = PaymentId[ledger[n].job]
            => PaymentId[ledger[m].job] \in disturbed

\* Whatever fails and expires, one delivery of a job makes one payment at most, so that Bull's
\* limit on redeliveries bounds what a request can cost (performPay pays in one place and does
\* not go back to it; a job that is handed out again is another delivery).
DeliveryPaysOnce ==
    \A m, n \in DOMAIN ledger : ledger[m] = ledger[n] => m = n

\* Who was told of a failure although the delivery paid finds that payment with
\* GET /payments/<id>, and is not paid again for a repeated request, unless the payment was
\* forgotten: "failed to pay transaction" is also said when saving or reporting it failed
\* (performPay saves as soon as Kin.pay returns; what its catch block covers).
FailedIsFound ==
    \A c \in callbacks, n \in DOMAIN ledger :
        c.state = "fail" /\ ledger[n] = [job |-> c.job, attempt |-> c.attempt] =>
            \/ PaymentId[c.job] \in disturbed
            \/ getPayment(PaymentId[c.job]) = n

\* The delivery that worker w is at.
Delivery(w) == [job |-> run[w].job, attempt |-> run[w].attempt]

\* Each payment is reported by the delivery that made it before that delivery is over, also
\* the second one of a payment id or of a job: "callback: a webhook to call when a payment is
\* complete" (PaymentRequest; performPay).
PaidIsReported ==
    \A n \in DOMAIN ledger :
        (\A w \in Workers : Delivery(w) # ledger[n])
        => \E c \in callbacks : c.state = "success" /\ c.tx = n

\* Who was told of a payment finds that very payment with GET /payments/<id>, until its
\* record expires (performPay saves before it reports; getPayment).
ReportedIsFound ==
    \A c \in callbacks : c.state = "success" =>
        \/ PaymentId[c.job] \in disturbed
        \/ getPayment(PaymentId[c.job]) = c.tx

\* No payment id is ever paid twice: "payment is already complete - not double spending"
\* (performPay).
NeverPaidTwice ==
    \A m, n \in DOMAIN ledger :
        PaymentId[ledger[m].job] = PaymentId[ledger[n].job] => m = n

\* The inductive invariant behind NoDoubleSpend, ReportedIsFound and KeepsContract.

\* A worker beyond "idle" runs a job that was accepted, and knows its transaction.
RunsAcceptedJob ==
    /\ \A j \in Jobs : status[j] # "new" => Accepted(j)
    /\ \A w \in Workers : at[w] # "idle" => run[w].job \in Jobs /\ Accepted(run[w].job)
    /\ \A w \in Workers : at[w] \in {"landed", "saving", "reporting"} =>
         /\ run[w].tx \in DOMAIN ledger
         /\ ledger[run[w].tx] = [job |-> run[w].job, attempt |-> run[w].attempt]

\* A worker between the check and the record holds the lock.
GuardedHoldsLock ==
    \A w \in Workers : at[w] \in Guarded /\ Id(w) \notin disturbed => lock[Id(w)] = w

\* A worker only pays what nobody has paid.
PayingIsFirst ==
    \A w \in Workers : at[w] = "paying" /\ Id(w) \notin disturbed =>
        \A n \in DOMAIN ledger : PaymentId[ledger[n].job] # Id(w)

\* A payment has its record, or a worker that is about to write it.
PaidIsRecorded ==
    \A n \in DOMAIN ledger : LET i == PaymentId[ledger[n].job] IN
        \/ i \in disturbed
        \/ doesPaymentExist(i)
        \/ \E w \in Workers : at[w] \in {"landed", "saving"} /\ Id(w) = i

\* A record holds a transaction that paid its id.
RecordNamesPayment ==
    \A i \in Ids : store[i] # 0 =>
        store[i] \in DOMAIN ledger /\ PaymentId[ledger[store[i]].job] = i

\* A worker about to report has its transaction in the record.
ReporterIsRecorded ==
    \A w \in Workers : at[w] = "reporting" /\ Id(w) \notin disturbed =>
        store[Id(w)] = run[w].tx

\* A success callback names the transaction of its own delivery.
SuccessNamesPayment ==
    \A c \in callbacks : c.state = "success" =>
        c.tx \in DOMAIN ledger /\ ledger[c.tx] = [job |-> c.job, attempt |-> c.attempt]

IInv == /\ TypeOK /\ RunsAcceptedJob /\ GuardedHoldsLock /\ PayingIsFirst
        /\ PaidIsRecorded /\ NoDoubleSpend
        /\ RecordNamesPayment /\ ReporterIsRecorded /\ SuccessNamesPayment
        /\ ReportedIsFound

\* The payment path keeps the contract of PaymentContract.
Contract == INSTANCE PaymentContract WITH
    accepted <- {j \in Jobs : Accepted(j)},
    exposed <- disturbed,
    Attempts <- 0..MaxStalled

KeepsContract == Contract!Spec

\* A worker that is not idle gets on: every promise it awaits is settled, an HTTP
\* request or a Redis command by its result or its error. A free worker takes a waiting
\* job, Bull checks for stalled jobs all the time, and locks expire.
Fairness ==
    /\ \A j \in Jobs : /\ WF_vars(Accept(j)) /\ WF_vars(Enqueue(j) \/ EnqueueFails(j))
                       /\ WF_vars(\E w \in Workers : Start(w, j))
                       /\ WF_vars(~Running(j) /\ Redeliver(j))
    /\ \A w \in Workers : WF_vars(Work(w))
    /\ \A i \in Ids : WF_vars(ExpireLock(i))

LiveSpec == Spec /\ Fairness

\* Bull had to hand out a job with payment id i again, or gave it up.
HandedOut(i) == \E k \in Jobs : PaymentId[k] = i /\ (stalls[k] > 0 \/ status[k] = "failed")

\* A request that was answered 201 is settled: a callback for its payment id is on its
\* way, whichever of the requests with this id it belongs to, unless a worker died.
AcceptedIsSettled ==
    \A j \in Jobs : Accepted(j) ~>
        \/ \E c \in callbacks : PaymentId[c.job] = PaymentId[j]
        \/ HandedOut(PaymentId[j])

\* When no job of a payment id waits or runs any more, somebody was told of the id, unless one
\* of its jobs was handed out again: "already complete" ends a job in silence only on behalf of
\* one that still has its callback to come (performPay; deliveries that die are found by Bull).
IdleIsSettled ==
    \A i \in Ids :
        /\ \E j \in Jobs : PaymentId[j] = i /\ status[j] = "completed"
        /\ \A j \in Jobs : PaymentId[j] = i => status[j] \notin {"waiting", "active"}
        => (\E c \in callbacks : PaymentId[c.job] = i) \/ HandedOut(i)

\* No job is stuck for good, not even behind the lock of a worker that died.
JobsDrain ==
    \A j \in Jobs : status[j] = "waiting" ~> status[j] \in {"completed", "failed"}

=============================================================================
