# A TLA+ model of payment-service-node

payment-service-node pays, creates wallets and watches wallets on the Kin
blockchain on behalf of other services. It is three Node.js programs that share
one Redis and one blockchain. This directory models what they do when they run at
the same time, when processes die and when Redis, Horizon (the HTTP interface of
the blockchain) or the requesters' servers fail.

Paths below are relative to the implementation, `src/src/`.

## 1. Inventory

| Part | Source | State it keeps | Operations |
|---|---|---|---|
| Web API | `web_api/server.ts`, `app.ts`, `routes/`, `services/`, `middleware.ts` | the listening server, none of its own behind it | POST /payments, /wallets, /watchers/:id; DELETE /watchers/:id; POST /whitelist; the GETs |
| Payment service | `web_api/services/paymentService.ts` | reads the payment records | `pay`, `getPayment` |
| Wallet service | `web_api/services/walletService.ts` | none | `createWallet`, `getWallet`, `getWalletPayments` |
| Watcher service | `web_api/services/watcherService.ts` | the watcher keys in Redis | `addWatcher`, `deleteWatcher` |
| Whitelist service | `web_api/services/whitelistService.ts` | none | `whitelistTransaction` |
| Job queue | `common/message_queue/redisMessageBroker.ts` over Bull | the jobs in Redis | six `enqueue...`, `registerJobProcessor` |
| Worker | `worker/app.ts` | none | the job processor, `concurrent_jobs` jobs at once |
| Payment sender | `worker/paymentSender.ts` | writes the payment records | `pay`, `performPay` |
| Locker | `common/message_queue/locker.ts` over Redlock | the lock keys in Redis | `lock` |
| Wallet creator | `worker/walletCreator.ts` | none | `create` |
| Callback caller | `worker/callbackCaller.ts` | none | `call` |
| Watcher process | `watcher/app.ts`, `watcher/watcherProcessor.ts` | the cursor in Redis | `processPayments`, once a second |
| Redis store | `common/db/redisDb.ts` | payment records (500 s), services, watchers, cursor | one operation per key type |
| Blockchain access | `common/blockchain/kin.ts` | channel pools, cached minimum fee | `pay`, `createWallet`, `getLatestPaymentTransactions`, ... |
| Channel creation | `common/blockchain/channelCreation.ts` | the channel accounts on the blockchain | a script that creates those that are missing |

How a payment travels: POST /payments looks for a record of the id, enqueues a
SendPayment job *without waiting for it* and answers 201. A worker takes the job,
takes a Redlock lock on the id, looks for the record again, pays, writes the record,
enqueues a PaymentCallback job, and unlocks. Some worker takes that job and posts it
to the requester. A wallet travels the same way, without lock and record. The watcher
reads who is watched, asks Horizon for the transactions behind its cursor, enqueues a
PaymentCallback job for every service that watches a wallet of a payment, and saves
the cursor.

A transaction goes through a channel: an account whose sequence number it uses, so that
several can be under way at once. `Kin` takes a channel from the pool of the paying
account, asks for the minimum fee if it has none yet, loads the channel's sequence number,
submits and gives the channel back. Every account of every process has a pool of its own,
all over the same channels; two pools can therefore use one number, and the blockchain
takes only one of the two transactions.

What is hard: every `await` lets every other handler, job and process run; a job may be
delivered again after a crash or a stall; the lock has a time to live that is shorter
than the work it protects; the record expires; an error may be reported for what took
effect; some errors are swallowed; channels, fees and sequence numbers are cached
or shared without anybody's consent. Each of these, at its line, is under `hazards` in
PROJECT.json together with the properties that watch it.

What makes each part correct:

* payments: an id is not paid twice; each payment is reported; who is told of a failure
  although it was paid finds the payment; what was accepted is settled; no lock or job hangs; what is reported can be read;
* wallets: the requester always learns something, and of success only if its own
  request created the account;
* registry: watched wallets have a callback URL, adds are complete, deletes say what
  they did, however requests interleave and fail;
* server: a stop lets the requests finish, and comes to its end;
* channels: sequence numbers do not collide within a pool, the fee is one the blockchain
  had, channels are given back, and a refusal means that nothing was paid;
* watcher: the cursor never overtakes the callbacks, is never stuck, and repeats
  callbacks only after failures;
* callbacks: bounded repetition, no job ends untried, all jobs end;
* whitelist and views: what is compared, reported and listed is one and the same payment,
  and so is its record, the time and the app of internal payments excepted.

## 2. Modules

| Module | Models | Uses |
|---|---|---|
| `JobQueue` | Bull: add, take, finish, re-deliver stalled jobs. External; only what the code relies on | |
| `Locker` | `locker.ts`: acquire, compare-and-delete unlock, time to live | |
| `Payments` | the payment path from POST to the enqueued callback | instances of `JobQueue`, `Locker`, `PaymentContract` |
| `PaymentContract` | what that path promises, in four variables and five actions | |
| `Channels` | `Kin.pay`, `Kin.createWallet`, the fee, the channel pools, the script that creates channels, and the blockchain's rules for sequence numbers and fees | instance of `Submission` |
| `Submission` | what those calls promise: one transaction at most, returned only when it is there, refused only when it never will be | |
| `Wallets` | the wallet path from POST to the enqueued callback | instances of `JobQueue`, `WalletContract` |
| `WalletContract` | what that path promises: an account is created once, success is told to its creator only, a request is completed only after it was answered | |
| `WatcherRegistry` | adding and deleting watchers, await by await | |
| `WebServer` | the process of the API around those requests: start, signal, close, exit, crash, restart | extends `WatcherRegistry`; instance of `WatchlistContract` |
| `WatchlistContract` | what those requests promise of the list of who watches what: an add puts its addresses one by one, a delete takes one at one moment and says what was there | |
| `Watcher` | the watcher process over a growing ledger and a changing registry | extends `WatcherRegistry`; instance of `Notifier` |
| `Notifier` | what the watcher promises: no gap, no way back, and who is told before a payment is passed | |
| `CallbackDelivery` | callback jobs and the retrying HTTP client | instance of `JobQueue` |
| `PaymentViews` | memos, the whitelist, and what is shown of a payment in different places | |
| `MC...` | the values TLC needs for each of them | |
| `PaymentsProofs`, `WalletsProofs`, `ChannelsProofs`, `CallbackDeliveryProofs`, `PaymentViewsProofs` | the theorems about these modules | each extends its module |
| `RegistryProofs` | lemmas about the steps of a request to the registry | extends `WatcherRegistry` |
| `WebServerProofs`, `WatcherProofs` | the theorems about the server with its registry, and about the watcher with its registry | extend their module and `RegistryProofs` |

One action stands for the code between two awaits. The stage of a handler is a state:
`post[j]` for a POST, `at[w]` for a job slot of a worker, `stage[r]` for a request to the
registry, `at` for the beat of the watcher. What an `await` returns is decided when the
action after it happens: success, an error without effect, or, for Redis and Horizon, an
error although the command took effect.

How the state of `Payments` corresponds to the code:

| Variable | In the system |
|---|---|
| `status`, `runner`, `stalls` | Bull's lists, its job locks, its count of stalls |
| `lock` | keys `lock:payment:<id>` |
| `store` | keys `payment:<id>`; the value is the number of the transaction |
| `ledger` | the blockchain: which delivery of which job made each payment |
| `callbacks` | PaymentCallback jobs that were enqueued |
| `post`, `at`, `run` | the HTTP handlers and the job slots |
| `disturbed` | history only: the ids whose protection was broken from outside |

An id becomes `disturbed` when its lock expires while a worker is between looking for
the record and having written it, when its record expires, when a worker dies between
paying and recording, and when a payment lands whose result is reported as an error.
`NoDoubleSpend` and the contract say that nothing else leads to a second payment.

A POST and its job have one name. Amounts, addresses, seeds, log lines and metrics are
left out: no property tells them apart. `Jobs` with one payment id between them are a
requester that repeats its request, the case all the protection is there for.

In the watcher a page starts at what Horizon takes as the position when it is asked
("now" without a cursor) and ends at what has landed when it answers, at most `Limit`
later. `steady` (who has watched since the beat began) is history: who comes later in a
beat is passed over, because the addresses are read before the page, and the properties
promise nothing to them for this beat. `Notifier` is this promise without the beat: its
position is the cursor, and "who has watched ever since the watcher last looked" is
`steady`.

`Channels` is the inside of what `Payments` and `Wallets` have as one step. Its outcomes
are theirs: "ok" is `PayLands` and `PayReturns`, the refusals ("failed", "missing",
"badSeq", "lowFee") are `PayRejected` and `CreateRejected`, and a call that was lost is
`PayReplyLost` and `CreateReplyLost`. `Submission` states what those steps rely on:
nothing lands after a refusal, nothing lands twice. What they leave out is that a
transaction whose result was lost may land *later*; `PayReplyLost` has it land at once,
which marks the id as disturbed either way. A transaction that is taken and fails (no
funds, account exists) spends its sequence number and pays nothing; it is an entry of the
ledger with `ok` false, and a call that gave up on it never learns.

A call in `Submission` has no transactions of its own; `landed` counts, for each call, how
often it landed with an effect. In `Channels` that is the number of its good entries in the
ledger (`Cardinality(LandedAt(c))`), so that "once at most" is said of the ledger itself.

`DeletedWasWatched` counts: for every service, address and order, no more deletes were
answered 200 than adds put the order there. (Redis answers the SREM of a delete with 0 when
nothing was taken away, and that is the 404.) An add that lists an address twice puts it
there twice, and a delete between the two makes room for a second delete; counting places in
the lists, and not adds, is what makes the property true of such lists too.

The registry has no lock and no transaction. `WatchlistContract` says what is left of
atomicity: every address is put, and every delete decides and takes, in one step; an answer
is a word about that step, never about what the request had read before; and an answer of
200 may become an error on its way, because the command took effect and its reply got lost.
A request that is cut off by the end of the process has done a prefix of its steps and is
never answered. `WalletContract` is about requests, creators and callbacks only; deliveries
are numbers there, and the queue is gone.

`CallbackDelivery` counts what a requester hears per *delivery* of a callback job: each
delivery, in whichever worker, has its own retries.

`WebServer` runs the handlers of `WatcherRegistry` only while the server is up. A request
that was called and has not answered when the process ends is `cut`: what it has done
stays in Redis. The requests to the registry are the handlers with several awaits, the
ones that can be cut in two; the others have one Redis command or job at most.

`PaymentViews` has no concurrency; it is about what becomes of one payment's id, app and
addresses on their way through memo, record, callback, history and whitelist. A string
that `parseMemo` splits at the dashes is modelled as the sequence of its parts, so that
an id with a dash in it loses its tail as it does in the code. `Pay` is a payment without
the faults that `Payments` has; `Submit` is the client's.

## 3. Runs

| Run | Question | Result |
|---|---|---|
| `payments_contract` | With crashes, failing Redis commands, expiring locks: is `IInv` an invariant, does no delivery pay twice (`DeliveryPaysOnce`), is a payment that was reported as a failure found under its id (`FailedIsFound`), and does the path implement `PaymentContract`? | yes |
| `payments_reported` | With stalls, expiring locks and records, Redlock giving up, a request for an unknown app: is every single payment reported by a callback of its own (`PaidIsReported`), and `NoDoubleSpend`, `ReportedIsFound`? | yes |
| `payments_settle` | With crashes and lost results: does every accepted request lead to a callback unless its job was handed out again (`AcceptedIsSettled`), was somebody told of an id when all its jobs are over (`IdleIsSettled`), and does every job end (`JobsDrain`)? | yes |
| `payments_double_spend` | Is an id never paid twice, as the log line of `performPay` says? | no: the lock expires during the payment |
| `wallets` | With crashes, Redis errors, lost results: does a completed job have an answer, is success told only to the creator, does every accepted request end, and does the path implement `WalletContract`? | yes |
| `wallets_creator` | Is the creator of an account told of success? | no: crash after creation, "account exists" |
| `channels` | With a rising fee, lost answers, a crash, and the script still at work: collisions only with other pools or what was given up (`CollidesOnlyOutside`), `FeeWasMinimum`, all calls end, also those that get a channel that is missing (`CallsEnd`), and do the calls implement `Submission`? | yes |
| `registry` | Interleaved adds and deletes that fail anywhere, under a server that stops, dies and comes back: `WatchedHasUrl`, `AddedIsWatched`, `DeletedWasWatched`; does a stop cut nothing off (`StopCutsNothing`) and end (`StopEnds`), and do the requests implement `WatchlistContract`? | yes |
| `watcher` | Callbacks before cursor, bounded repetition, progress, and does the watcher implement `Notifier`? | yes |
| `watcher_memo` | Does the cursor get past every payment? | no: not past one without a memo |
| `callbacks` | Bounded calls, no untried job, termination? | yes |
| `views` | Is a payment one and the same in the watcher's callback and the histories of both wallets, and does its record differ from that in nothing but the time, which it lacks, and the app of an internal payment (`ViewsAgree`)? Is what was whitelisted reported as the order it was for, and is every order of a known app whitelisted? | yes, for ids without a dash |

Some properties hold only without certain faults, and the runs are honest about it:

* That a delivery whose failure is reported has not paid is false when a Redis command fails
  or the result of a payment is lost: the catch block of `performPay` covers saving and
  reporting too. What holds, with any faults, is `FailedIsFound`: the payment is in the record of its id, where
  GET finds it and a repeated request meets it, unless it was forgotten (the id is disturbed:
  the result or the record was lost).
* `PaidIsReported` speaks of each payment, also of the second one of a job whose lock
  expired. It is false with crashes: a worker that dies between the record and the
  callback leaves a record that the next delivery finds, and it completes the job in
  silence (`Check`). It is false with failing Redis commands, for the same catch block.
* `CollidesOnlyOutside` does not say that calls never collide. They do, in the run, with a
  call of another account, with one whose process died, and with one that timed out.
* `FeeWasMinimum` does not say that the fee is the minimum *now*: after a rise a process
  sends the old fee, and is refused, until it is started again.
* `AcceptedIsSettled` needs Redis to work and Redlock not to give up: an enqueue that
  fails after the 201 is lost, and a job that gets no lock completes without a trace.
  Redlock gives up after ten tries in two seconds; a lock lives 120 ms.
  `IdleIsSettled`, its safety half, needs the same. Both speak of an id: that *somebody* was
  told, by whichever request; a second request that ends at "already complete" is answered
  by the callback of the first.
* `ToldOncePerFailure` and `CursorGetsOn` are about ledgers without a payment that no
  beat gets past (`Blocking`), the case of run `watcher_memo`.

### Bounds

* Two requests for one id and two job slots: the races of the payment path are between
  two deliveries, of two jobs or of one that stalled. `payments_reported` has a third
  request, for an app without seeds. `MaxStalled` is 1, as in Bull.
* Wallets: two requests for one address, two slots, one redelivery. Stalls of live
  workers are left to the two requests, which race in the same way.
* Registry: two adds of one order (one with two addresses), two deletes of it, one add
  of another service. Two requests of each kind are what a race needs.
  One stop and one crash of the server, which may fall between any two of their awaits.
* Channels: one process, one channel, two calls of one account and one of another, so that
  the channel is waited for in one pool and shared by two. A second process would be two
  more pools, as foreign to these as they are to each other; a second channel takes the
  waiting away. The channel is missing until the script has created it, at any moment before,
  between and after the calls. The fee rises once; the process dies once.
* Watcher: three transactions and pages of two, so that a page can be full, partly full
  and empty, and have payments of both kinds; one beat that fails; two services, one of
  which stops watching. `MaxTold` caps the count of callbacks just above its limit.
* Callbacks: two jobs, two slots, one retry instead of three. `MaxHeard` caps the count of
  calls a requester has heard just above its limit.
* Views: one payment and one order; two apps, one of them unknown, ids with and without
  a dash, transactions that differ from their order in each place that is compared.

Workers are interchangeable, and runs without liveness use that symmetry where it makes
a difference.

The type invariants are checked in one run per module; that of `Payments` is part of `IInv`, that
of the registry part of `ServerTypeOK`. That of `CallbackDelivery` is in no run, it is proved
(`DeliveryTypeCorrect`).

Deadlock is checked in every run. `AtRest` lets the systems stop when
all requests are answered and all jobs over, and nowhere else.

### Fairness

`LiveSpec` asks no more than the scheduling of the programs gives: an `await` ends, with
a result or an error (all clients have timeouts), so the next action of a worker or a
beat happens; a free job slot takes a waiting job; Bull's stalled-job check runs all the
time, so a job whose worker died is handed out again; keys with a time to live expire;
the watcher's timer is set again in a `finally`. In `Channels`
each step of a call is such an await (`Work`; the SDK times a submission out), and a pool
with a free channel gives it to one of those that wait. In `WebServer` handlers
that were called go on (`Serve` of a busy request) and a closed server exits (`Exit`). Nothing is asked of requesters, of the
blockchain (a payment may always be rejected), or of faults.

## 4. Proofs

TLAPS checks all theorems. They hold for any sets of jobs, requests, workers, processes,
services and ids, any bounds, and any set of faults, except where it is said otherwise. Every
invariant and every action property of a passing run is a theorem, and so is each of the
five refinements; what is left to TLC alone is at the end of this section.

Every proof has the same shape. The property of interest is seldom inductive: it speaks of
what has happened, and a worker that is about to make it happen is only found among the
stages. So each module has an invariant (`IInv`, `WalletsInv`, ...) that says of every stage
what has been established before it; a lemma per conjunct shows that every action keeps it,
one step per action that can disturb it, over lemmas that say what a step leaves alone. Each of
these invariants was checked on the module's run before it was proved; `IInv`
is an invariant of `payments_contract`.

### Payments

Assumption: `ConstantsAssumption` - ids are ids, and the null values are not members of the
sets.

* `TypeCorrect`: `Spec => []TypeOK`
* `Invariance`: `Spec => []IInv`
* `PaysOnce`: `Spec => []NoDoubleSpend`
* `ToldIsFound`: `Spec => []ReportedIsFound`
* `Implementation`: `Spec => KeepsContract`, the refinement of `PaymentContract`
* `FailuresAreFound`: `Spec => []FailedIsFound`
* `PaymentsAreReported`: `Spec => []PaidIsReported`, without crashes, failing Redis and lost results
* `DeliveriesPayOnce`: `Spec => []DeliveryPaysOnce`
* `NobodyIsPaidTwice`: `Spec => []NeverPaidTwice`, without expiring locks and records, crashes,
  lost results and failing Redis
* `IdleAreSettled`: `Spec => []IdleIsSettled`, without failing Redis and Redlock giving up

`NoDoubleSpend` is not inductive: it says nothing about a worker that is about to pay;
nor is `ReportedIsFound`, which says nothing about one that is about to save or report.
`IInv` adds, for ids that are not disturbed,

* `RunsAcceptedJob`: jobs in the queue and in the slots were accepted, and a worker that
  has paid knows its entry in the ledger;
* `GuardedHoldsLock`: a worker between looking for the record and having written it
  holds the lock of the id, so there is at most one (`GuardedIsAlone`);
* `PayingIsFirst`: a worker that is about to pay finds no payment of the id in the
  ledger;
* `PaidIsRecorded`: a payment in the ledger has its record, or a worker that holds the
  lock is about to write it;
* `ReporterIsRecorded`: what a worker is about to report is in the record.

Two more parts hold for every id: `RecordNamesPayment` and `SuccessNamesPayment`, by
which records and success callbacks name payments of their own id.

The step that matters is `Check`: it reads that there is no record; by `PaidIsRecorded`
a payment of the id would have its record or a second guarded worker, which
`GuardedHoldsLock` excludes; so `PayingIsFirst` holds after it, and `PayLands` pays
first. The step that matters for `ReportedIsFound` is `SavePayment`: a record that is
already there holds the same transaction, because two of one id would contradict
`NoDoubleSpend` (`RecordStays`). Every action that breaks this chain marks the id. The
refinement uses `PayingIsFirst` for the abstract guard of paying.

`FailedIsFound` is about single deliveries, and needs no hypothesis on the faults. `FailureInv`
says that only deliveries that were made are known anywhere (`DeliveriesWereMade`), that no two
workers are at one delivery (`DeliveriesAreAlone`: a job that is handed out again has a new count
of stalls), and that a worker that has not come to the catch block is at a delivery that has
reported no failure (`StagesAreTrue`). So the payment of a delivery that reported one has left the
hands of its worker; by `PaidIsRecorded` the id has a record then, and by `NoDoubleSpend` the
record can only name this payment (`FailedWasSaved`).

`PaidIsReported` holds of disturbed ids too and owes nothing to the lock. `ReportIsDue` says that
payment n has a success callback that names n, or a worker that remembers n as its transaction and
is on its way to report it. The hypothesis on `Faults` excludes what keeps a delivery from its
report in the code; stalls, expired locks and records, and Redlock giving up are still among the
faults, and they are what makes a job pay twice. Without the hypothesis it is false (section 3).

`DeliveryPaysOnce` needs no hypothesis. It is what remains of "not double spending" when the
protection fails: with lock and record gone, a request costs at most one payment for each time
Bull hands its job out. `OnceInv` adds to it that a worker at a stage before paying is at a
delivery that has not paid (`PaysLater`; performPay never goes back), that no two workers are at one
delivery, and that a delivery which was not made yet is known nowhere.

`NobodyIsPaidTwice` is about the claim of the log line itself, which run
`payments_double_spend` refutes: it is true if nothing marks an id as disturbed
(`NothingDisturbs`), that is, if lock and record outlive what they protect and no payment is
forgotten. Stalls, redeliveries and Redlock giving up do not endanger it.

`IdleIsSettled` is the safety half of `AcceptedIsSettled`, and the question is whom "already
complete" may silence. `AllIsOwed` is its invariant: for each id, somebody was told, or a job was
handed out again, or a job of the id is active and whoever runs it is about to report (`Owing`), or
there is no record and no job of the id is at its end (`Unsaid`). It is kept together with
`RunnerHolds` (the worker of a job that was not handed out again holds the job lock) and
`HeldIsActive`. The step that matters is `SavePayment`: the first record of an id appears in the
hands of a worker that still runs its job under Bull's job lock and so owes the callback
(`SaverOwes`). If that worker dies, the job stays active until Bull hands it out again; there
the promise ends, and in the code too.

### Wallets

Assumption: `WalletsAssumption`. `WalletsTypeCorrect`, `WalletsInvariance`,
`SuccessIsTheCreators` (`SuccessIsOwn`), `CompletedAreAnswered` (`CompletedIsAnswered`), with any
faults. `WalletsInv` adds that a busy worker runs a delivery, that one whose transaction landed
or that is about to report success is the creator of its account (`ReporterCreated`), and that one
that is about to complete its job has enqueued a callback (`FinisherAnswered`). An account is
created once and stays, so the creator never changes; a stall may have the job completed by
another worker, which has enqueued its own callback.

`WalletsKeepContract` is the refinement of `WalletContract` (`KeepsContract`), for any faults. It needs
`WalletsInv` for the guards of `ReportSuccess` and `Complete`, and `OpenInv`: whoever runs a job has
a request, and a job lock is on an active job, so that no job ends twice.

`CreatorsAreTold` is `Spec => []CreatorIsTold` without crashes, failing Redis and lost results; the
run `wallets_creator` refutes it with a crash. `ToldOrTelling` says that a creator has been told of
success or is the delivery of a worker that is on its way to do so. Stalls are among its faults: the
worker that lost its job to another one still reports what it has created.

### Channels

Assumption: `ChannelsAssumption` - there is a channel, and fees are positive.
`ChannelsTypeCorrect`, `ChannelsInvariance`, `FeesWereMinimum` (`FeeWasMinimum`),
`CollisionsComeFromOutside` (`CollidesOnlyOutside`), and `SubmissionIsKept`, the refinement of
`Submission`.

* `FeesAreRecent`: the fees that a process keeps, or a call was told, lie between the minimum
  when the process started and the minimum now. This is what survives answers that overtake one
  another.
* `PoolExclusive`: two calls of one pool do not hold one channel; this is the pool's lock.
* `SentIsWaitedFor`, `LandedIsKnown`: a call has one transaction at most, in the mempool or in the
  ledger, and what the call may say of its end follows from where that is. This is what
  `Submission` asks for: nothing lands after a refusal.
* `SpentByLanded`: a sequence number below the next one was spent by an entry of the ledger,
  which is how a refusal for a bad sequence leads to the call to blame.
* `OnlyOutsideSpends`: the number of a call that waits was not spent by a call of its own pool
  whose end the process knows. A channel's number is loaded after the channel was taken, and
  whoever had it before has landed, was refused, or was given up.

### Registry and server

Assumptions: `RegistryAssumption` (a delete is about one address) and `ServerAssumption`.
`ServerTypeCorrect`, `ServerInvariance`, `WatchersHaveUrls` (`WatchedHasUrl`), `AddsAreComplete`
(`AddedIsWatched`), `DeletesAreTrue` (`DeletedWasWatched`), `StopsAreClean` (`StopCutsNothing`), with
or without failing Redis. `RegistryInv` adds what holds half way through a request, which is also
what a crash leaves behind: the URL is known before the first address is added (`AddingHasUrl`),
what was added so far is there or was taken by a delete (`AddedSoFar`), and the books of every
address balance (`AllBalanced`: successful deletes, and one if the order is there, are no more than
what was put there). The steps of one request are proved about in `RegistryProofs`, once for
`WebServer` and `Watcher`. `OnlyUpIsBusy` is what the server adds: a process that exits has no handler
under way, so only `Crash` cuts.

`RegistryKeepsContract` is the refinement of `WatchlistContract` (`KeepsContract`), with or without
failing Redis, under a server that stops, dies and is started again. The steps of a request are
matched by kind: reading or storing the URL is `Learn`, each SADD is `Put`, the SREM is `Take`. It
needs `AddingHasUrl`, for the URL that is known before the first address is put.

### Watcher

Assumptions: `RegistryAssumption` and `WatcherAssumption` (pages are not empty).
`WatcherTypeCorrect`, `WatcherInvariance`, `ServicesAreToldSparingly` (`ToldOncePerFailure`),
`CursorPassesTold` (`CursorPassesOnlyTold`), and `PromiseIsKept`, the refinement of `Notifier`.

* `PageLies`: page, loop and cursor are in order; the page starts at the cursor if there is one.
* `SteadyWatches`: who watches ever since the beat began, watches now.
* `ToldBehind`: these were told of everything that the loop has passed, or are in its list. At the
  end of the page the loop has passed all of it; this is the guard of the abstract step.
* `ToldSparingly`: what the cursor has not passed was told once per failed beat, and once more
  if this beat's loop has passed it. `ToldOncePerFailure` alone says nothing of how much of it a
  beat that is under way has used up.

### Callbacks

Assumption: `DeliveryAssumption`. `DeliveryTypeCorrect`, `DeliveryInvariance`,
`RequestersHearLittle` (`HeardIsBounded`), `CompletedWasTried` (`UnheardWasTried`), with crashes and
stalls. `RunsDelivery`, `WaitingIsFresh` and `OneWorkerEach` say that each delivery has one worker at
most, and that the next one has been heard of by nobody; then `HeardByRetries` bounds what was heard
of a delivery by the retries its worker has used, and `SentOrVain` says that a worker at the end
has sent something that was heard, or tried in vain.

### Views

Assumption: `ViewsAssumption` - app ids are texts without a dash, order and payment ids are texts,
accounts have addresses. `ViewsTypeCorrect`, `ViewsInvariance`, `ViewsAlwaysAgree` (`ViewsAgree`),
`WhitelistedAreOrders` (`WhitelistedIsOrder`), `OrdersAreWhitelisted` (`OrderIsWhitelisted`).
`ViewsInv` says which transactions are on the chain, in either order (`ChainHolds`), and that a
whitelisted one was compared in all places with its order (`OrderWasVerified`). `ViewsAlwaysAgree`
is about ids without a dash; the record it speaks of may lack the time, as it always does, and have
an app that nobody else sees if the root account paid. The proofs rest on
lemmas about memos: `parseMemo` takes apart what `memoOf` has put together if neither part has a
dash in it.

### Only model-checked

Liveness: `AcceptedIsSettled`, `JobsDrain`, `AcceptedIsAnswered`, `StopEnds`, `CursorGetsOn`, and `CallsEnd`
of channels and of callbacks. TLAPS does not reason about ENABLED, and so not about weak or strong
fairness; these rest on the runs and their bounds. Of `AcceptedIsSettled` and `AcceptedIsAnswered` the
safety halves are theorems (`IdleAreSettled`, `CompletedAreAnswered`): what TLC alone says is that the
jobs come to their end. The three properties that the code violates (section 5) are counterexamples
of TLC.

## 5. Where code and words part

PROJECT.json lists under `findings`, each with the run that shows it: the payment
that is made twice, the wallet whose creation is
reported as a failure, and the payment without a memo that stops the watcher.

Two of the three claims are theorems under hypotheses on the faults, which say how far the words can
be trusted: `NobodyIsPaidTwice` and `CreatorsAreTold` (section 4).

Two more places have no run that refutes the words; the models have what the code does, and
the properties say what is left of the words:

* `worker/paymentSender.ts:49` logs "failed to pay transaction", and a failure is reported, also
  when the payment was made and saving or reporting it failed (`SavePaymentFails`, `ReportFails`).
  `FailedIsFound` is what then holds.
* `common/blockchain/kin.ts:154` leaves the timestamp of the record empty and says that it is
  extracted only "when payment is being query from the outside world (web-api)".
  `PaymentService.getPayment` answers with the record as it is, so that GET /payments/<id> shows no
  time, while callback and history do. `ViewsAgree` says that the time is missing and never a wrong one.

## 6. Plan

Done: the payment path and the wallet path with their contracts, the channels and the
fee with their contract, the registry with its contract and the server around it, the watcher with
its contract, the delivery of callbacks, the whitelist and the views of a payment.

The invariants, action properties and refinements of all passing runs are proved.

Open: proofs where two modules meet. `Payments` and `Wallets` take a payment for one
step that ends as `Submission` promises (section 2 says how their outcomes correspond), and they end
where `CallbackDelivery` begins, with a job in the queue; both steps are argued in words. What
`JobQueue` and `Locker` promise is used through their definitions, not as contracts of their own.

Not modelled: containers, configuration, logging and metrics; they have no state the
behaviour depends on, and what they set are constants of the modules. The HTTP framework
(routing table, body parser, status codes) is not modelled beyond which kind of answer
ends a request. The GET handlers change nothing; `getPayment` and `getWalletPayments` are
there as what they answer, `getWallet` only passes on what the SDK says. Connections that
clients keep open without a request, which `server.close` waits for too, are left out of `WebServer`.
That `createChannels` creates all channels is the SDK's affair. Service ids with
a colon, which `redisDb.ts` takes apart, are left out.
That the first callback URL of a service stays for good (`addWatcher`) and that a
whitelist request for an unknown app ends in a TypeError (`WhitelistThrows`) are in the
models; no document says what should happen instead.
