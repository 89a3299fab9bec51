------------------------------ MODULE JobQueue ------------------------------
(***************************************************************************)
(* The Bull queue "payment" as the service uses it: one attempt per job    *)
(* (jobOptions sets no attempts), completed and failed jobs removed, and   *)
(* Bull's stalled-job check, which hands a job whose job lock ran out to   *)
(* another worker at most MaxStalled times.                                *)
(*                                                                         *)
(* Bull starts waiting jobs in order, but concurrent_jobs of them run at   *)
(* once in every worker process and their awaits interleave freely, so any *)
(* waiting job may be the next one to start.                               *)
(***************************************************************************)
EXTENDS Naturals

CONSTANTS
    Jobs,        \* every job that is ever added
    Workers,     \* job slots: concurrent_jobs of them in each worker process
    NoWorker,    \* null value of runner
    MaxStalled   \* Bull's maxStalledCount

VARIABLES
    status,      \* status[j]: where job j is
    runner,      \* runner[j]: the slot that holds the job lock of j
    stalls       \* stalls[j]: how often j was handed out again

Statuses == {"new", "waiting", "active", "completed", "failed"}

QueueTypeOK ==
    /\ status \in [Jobs -> Statuses]
    /\ runner \in [Jobs -> Workers \cup {NoWorker}]
    /\ stalls \in [Jobs -> 0..MaxStalled]

QueueInit ==
    /\ status = [j \in Jobs |-> "new"]
    /\ runner = [j \in Jobs |-> NoWorker]
    /\ stalls = [j \in Jobs |-> 0]

\* queue.add reaches Redis.
Add(j) ==
    /\ status[j] = "new"
    /\ status' = [status EXCEPT ![j] = "waiting"]
    /\ UNCHANGED <<runner, stalls>>

\* A free slot starts a waiting job and takes its job lock.
Take(w, j) ==
    /\ status[j] = "waiting"
    /\ status' = [status EXCEPT ![j] = "active"]
    /\ runner' = [runner EXCEPT ![j] = w]
    /\ UNCHANGED stalls

\* done() or done(e): the job ends with the given status, unless w lost the job
\* lock in the meantime; then Bull refuses the move and the job is not touched.
Finish(w, j, outcome) ==
    /\ status' = [status EXCEPT ![j] = IF runner[j] = w THEN outcome ELSE @]
    /\ runner' = [runner EXCEPT ![j] = IF @ = w THEN NoWorker ELSE @]
    /\ UNCHANGED stalls

\* The stalled-job check finds an active job without a live job lock.
Requeue(j) ==
    /\ status[j] = "active"
    /\ IF stalls[j] < MaxStalled
         THEN /\ status' = [status EXCEPT ![j] = "waiting"]
              /\ stalls' = [stalls EXCEPT ![j] = @ + 1]
         ELSE /\ status' = [status EXCEPT ![j] = "failed"]
              /\ UNCHANGED stalls
    /\ runner' = [runner EXCEPT ![j] = NoWorker]
=============================================================================
