------------------------------- MODULE Wallets -------------------------------
(***************************************************************************)
(* The wallet path: POST /wallets (WalletService.createWallet), the job    *)
(* queue, the workers (WorkerApp, WalletCreator), the accounts on the      *)
(* blockchain (Kin.createWallet) and the callback jobs that end a request. *)
(* There is no lock and no record: the blockchain refuses to create an     *)
(* account twice, and that is all the protection there is.                 *)
(***************************************************************************)
EXTENDS Naturals

CONSTANTS
    Jobs, Workers, MaxStalled, NoWorker,   \* see JobQueue
    NoJob,
    Addresses,
    Address,      \* Address[j]: request.wallet_address
    KnownApp,     \* the jobs whose app_id has seeds in the configuration
    Faults        \* "crash", "stall", "redis", "replyLost", as in Payments

ASSUME WalletsAssumption ==
    /\ Address \in [Jobs -> Addresses]
    /\ NoJob \notin Jobs /\ NoWorker \notin Workers
    /\ MaxStalled \in Nat
    /\ Faults \subseteq {"crash", "stall", "redis", "replyLost"}

VARIABLES
    status, runner, stalls,   \* the queue (JobQueue)
    post,        \* post[j]: how far the HTTP request is
    at,          \* at[w]: where worker w is
    run,         \* run[w]: the job w runs, and which delivery of it
    creator,     \* creator[a]: the delivery whose transaction created account a
    callbacks    \* the callback jobs that were enqueued

Queue == INSTANCE JobQueue

vars == <<status, runner, stalls, post, at, run, creator, callbacks>>

Stages == {"idle", "creating", "landed", "reporting", "existing", "failing",
           "finishing", "throwing"}

Delivery == [job : Jobs, attempt : 0..MaxStalled]

NoRun == [job |-> NoJob, attempt |-> 0]

Callback == [job : Jobs, attempt : 0..MaxStalled, state : {"success", "fail"}]

WalletsTypeOK ==
    /\ Queue!QueueTypeOK
    /\ post \in [Jobs -> {"unsent", "accepted", "error"}]
    /\ at \in [Workers -> Stages]
    /\ run \in [Workers -> Delivery \cup {NoRun}]
    /\ creator \in [Addresses -> Delivery \cup {NoRun}]
    /\ callbacks \subseteq Callback

Init ==
    /\ Queue!QueueInit
    /\ post = [j \in Jobs |-> "unsent"]
    /\ at = [w \in Workers |-> "idle"]
    /\ run = [w \in Workers |-> NoRun]
    /\ creator = [a \in Addresses |-> NoRun]
    /\ callbacks = {}

-----------------------------------------------------------------------------
(* WalletService.createWallet, in the web API. *)

\* enqueueCreateWallet is awaited: 202.
Enqueue(j) ==
    /\ post[j] = "unsent"
    /\ post' = [post EXCEPT ![j] = "accepted"]
    /\ Queue!Add(j)
    /\ UNCHANGED <<at, run, creator, callbacks>>

\* It is rejected, with or without having enqueued: 500.
EnqueueFails(j) ==
    /\ "redis" \in Faults
    /\ post[j] = "unsent"
    /\ post' = [post EXCEPT ![j] = "error"]
    /\ Queue!Add(j) \/ UNCHANGED <<status, runner, stalls>>
    /\ UNCHANGED <<at, run, creator, callbacks>>

-----------------------------------------------------------------------------
(* WorkerApp.run and WalletCreator.create, in a worker. *)

Goes(w, from, to) ==
    /\ at[w] = from
    /\ at' = [at EXCEPT ![w] = to]

Wallet(w) == Address[run[w].job]

Exists(a) == creator[a] # NoRun

Start(w, j) ==
    /\ Goes(w, "idle", "creating")
    /\ Queue!Take(w, j)
    /\ run' = [run EXCEPT ![w] = [job |-> j, attempt |-> stalls[j]]]
    /\ UNCHANGED <<post, creator, callbacks>>

\* Kin.createWallet: the transaction is in the ledger.
CreateLands(w) ==
    /\ Goes(w, "creating", "landed")
    /\ run[w].job \in KnownApp
    /\ ~Exists(Wallet(w))
    /\ creator' = [creator EXCEPT ![Wallet(w)] = run[w]]
    /\ UNCHANGED <<status, runner, stalls, post, run, callbacks>>

\* Variant for the mutation check: an account that exists counts as created.
CreateFindsOk(w) ==
    /\ Goes(w, "creating", "reporting")
    /\ run[w].job \in KnownApp
    /\ Exists(Wallet(w))
    /\ UNCHANGED <<status, runner, stalls, post, run, creator, callbacks>>

\* It throws AccountExistsError.
CreateFinds(w) ==
    /\ Goes(w, "creating", "existing")
    /\ run[w].job \in KnownApp
    /\ Exists(Wallet(w))
    /\ UNCHANGED <<status, runner, stalls, post, run, creator, callbacks>>

\* Variant for the mutation check: the job just returns.
CreateRejectedSilently(w) ==
    /\ Goes(w, "creating", "finishing")
    /\ UNCHANGED <<status, runner, stalls, post, run, creator, callbacks>>

\* It throws anything else and nothing was created: no wallet for the app, no fee, no
\* channel, a transaction that is refused.
CreateRejected(w) ==
    /\ Goes(w, "creating", "failing")
    /\ UNCHANGED <<status, runner, stalls, post, run, creator, callbacks>>

\* It returns.
CreateReturns(w) ==
    /\ Goes(w, "landed", "reporting")
    /\ UNCHANGED <<status, runner, stalls, post, run, creator, callbacks>>

\* It throws although the transaction landed.
CreateReplyLost(w) ==
    /\ "replyLost" \in Faults
    /\ Goes(w, "landed", "failing")
    /\ UNCHANGED <<status, runner, stalls, post, run, creator, callbacks>>

-----------------------------------------------------------------------------
(* The callback of the request and the end of the job. *)

\* Variant for the mutation check: a state that no requester knows.
CallbackOfUnknown(w, state) ==
    [job |-> run[w].job, attempt |-> run[w].attempt, state |-> "create"]

CallbackOf(w, state) == [job |-> run[w].job, attempt |-> run[w].attempt, state |-> state]

\* enqueueWalletCreatedCallback
Report(w) ==
    /\ Goes(w, "reporting", "finishing")
    /\ callbacks' = callbacks \cup {CallbackOf(w, "success")}
    /\ UNCHANGED <<status, runner, stalls, post, run, creator>>

\* It throws, with or without having enqueued: into the catch block, as any other error.
ReportFails(w) ==
    /\ "redis" \in Faults
    /\ Goes(w, "reporting", "failing")
    /\ callbacks' \in {callbacks, callbacks \cup {CallbackOf(w, "success")}}
    /\ UNCHANGED <<status, runner, stalls, post, run, creator>>

\* The catch block: enqueueWalletFailedCallback, with "account exists" or the message.
ReportFailure(w) ==
    /\ Goes(w, "existing", "finishing") \/ Goes(w, "failing", "finishing")
    /\ callbacks' = callbacks \cup {CallbackOf(w, "fail")}
    /\ UNCHANGED <<status, runner, stalls, post, run, creator>>

\* Variant for the mutation check: the error of the catch block is swallowed.
ReportFailureSwallowed(w) ==
    /\ "redis" \in Faults
    /\ Goes(w, "existing", "finishing") \/ Goes(w, "failing", "finishing")
    /\ callbacks' \in {callbacks, callbacks \cup {CallbackOf(w, "fail")}}
    /\ UNCHANGED <<status, runner, stalls, post, run, creator>>

\* The catch block throws: up to the job processor.
ReportFailureFails(w) ==
    /\ "redis" \in Faults
    /\ Goes(w, "existing", "throwing") \/ Goes(w, "failing", "throwing")
    /\ callbacks' \in {callbacks, callbacks \cup {CallbackOf(w, "fail")}}
    /\ UNCHANGED <<status, runner, stalls, post, run, creator>>

\* Variant for the mutation check: done() whatever the job has thrown.
FinishAlways(w) ==
    /\ Goes(w, "finishing", "idle") \/ Goes(w, "throwing", "idle")
    /\ Queue!Finish(w, run[w].job, "completed")
    /\ run' = [run EXCEPT ![w] = NoRun]
    /\ UNCHANGED <<post, creator, callbacks>>

\* done() or done(e)
Finish(w) ==
    /\ \/ Goes(w, "finishing", "idle") /\ Queue!Finish(w, run[w].job, "completed")
       \/ Goes(w, "throwing", "idle") /\ Queue!Finish(w, run[w].job, "failed")
    /\ run' = [run EXCEPT ![w] = NoRun]
    /\ UNCHANGED <<post, creator, callbacks>>

-----------------------------------------------------------------------------
(* The environment. *)

\* The worker's process dies and a new one takes its place.
Crash(w) ==
    /\ "crash" \in Faults
    /\ at[w] # "idle"
    /\ at' = [at EXCEPT ![w] = "idle"]
    /\ run' = [run EXCEPT ![w] = NoRun]
    /\ UNCHANGED <<status, runner, stalls, post, creator, callbacks>>

Running(j) == \E w \in Workers : runner[j] = w /\ run[w].job = j

\* Bull hands out j again.
Redeliver(j) ==
    /\ Running(j) => "stall" \in Faults
    /\ Queue!Requeue(j)
    /\ UNCHANGED <<post, at, run, creator, callbacks>>

AtRest ==
    /\ \A j \in Jobs : post[j] # "unsent" /\ status[j] \notin {"waiting", "active"}
    /\ \A w \in Workers : at[w] = "idle"
    /\ UNCHANGED vars

Work(w) ==
    \/ CreateLands(w) \/ CreateFinds(w) \/ CreateRejected(w) \/ CreateReturns(w)
    \/ CreateReplyLost(w) \/ Report(w) \/ ReportFails(w) \/ ReportFailure(w)
    \/ ReportFailureFails(w) \/ Finish(w)

Next ==
    \/ \E j \in Jobs : Enqueue(j) \/ EnqueueFails(j) \/ Redeliver(j)
    \/ \E w \in Workers : Work(w) \/ Crash(w)
    \/ \E w \in Workers, j \in Jobs : Start(w, j)
    \/ AtRest

Spec == Init /\ [][Next]_vars

\* Awaits end, free workers take waiting jobs, and Bull looks for stalled jobs.
LiveSpec ==
    /\ Spec
    /\ \A w \in Workers : WF_vars(Work(w))
    /\ \A j \in Jobs : /\ WF_vars(\E w \in Workers : Start(w, j))
                       /\ WF_vars(~Running(j) /\ Redeliver(j))

-----------------------------------------------------------------------------
(* Properties. *)

\* A job that completed has told the requester something: other than a payment, a wallet
\* job whose callback cannot be enqueued fails (create lets the error out, run calls done(e)).
CompletedIsAnswered ==
    \A j \in Jobs : status[j] = "completed" => \E c \in callbacks : c.job = j

\* A wallet is reported as created by the very delivery that created it: of all requests
\* for an address, however often delivered, one at most is told of success.
SuccessIsOwn ==
    \A c \in callbacks : c.state = "success" =>
        creator[Address[c.job]] = [job |-> c.job, attempt |-> c.attempt]

\* A request that was answered 202 gets its callback, unless its job failed: the callback
\* could not be enqueued, or Bull gave the job up (create, run).
AcceptedIsAnswered ==
    \A j \in Jobs : post[j] = "accepted" ~>
        status[j] = "failed" \/ \E c \in callbacks : c.job = j

\* A request that created its wallet is not told, in the end, that it failed: "wallet
\* already exists - ok" (WalletCreator.create).
CreatorIsTold ==
    \A a \in Addresses : LET j == creator[a].job IN
        /\ Exists(a)
        /\ status[j] = "completed"
        /\ \A w \in Workers : run[w].job # j
        => \E c \in callbacks : c.job = j /\ c.state = "success"

\* To the requester a job is open from the POST until it is over.
Contract ==
    INSTANCE WalletContract WITH
        request <- [j \in Jobs |-> IF status[j] \in {"waiting", "active"} THEN "open"
                                                                        ELSE status[j]],
        Attempts <- 0..MaxStalled, None <- NoRun

\* The wallet path keeps its contract, whatever fails: an account has one creator, which is
\* the one that is told of success, and a job is over once, completed only with an answer
\* (create, Kin.createWallet, done in WorkerApp.run).
KeepsContract == Contract!Spec
=============================================================================
