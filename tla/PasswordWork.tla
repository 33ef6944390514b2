---------------------------- MODULE PasswordWork ----------------------------
(***************************************************************************)
(* PasswordWorkPool: worker threads that share one bounded queue behind a  *)
(* mutex, and the async calls of execute that wait for their jobs.         *)
(*                                                                         *)
(* A worker holds the mutex while it waits in recv and never while it runs *)
(* a job.  A caller that is dropped leaves its job where it is.  The       *)
(* shared pool lives as long as the process; only a pool whose workers     *)
(* cannot all be spawned is taken down again.                              *)
(***************************************************************************)
EXTENDS Integers, Sequences, FiniteSets

CONSTANTS
    Workers,        \* WORKERS threads
    Jobs,           \* calls of execute
    Slow,           \* jobs whose work may never end
    QueuedJobs,     \* QUEUED_JOBS
    Nobody          \* no worker, no job

\* with_spawner refuses a pool without workers or without a queue.
ASSUME PoolAssumption ==
    /\ IsFiniteSet(Workers) /\ Workers # {}
    /\ QueuedJobs \in Nat \ {0}
    /\ Nobody \notin Workers \cup Jobs

\* Slow work must leave a worker for the rest.
ASSUME SlowAssumption ==
    /\ Slow \subseteq Jobs
    /\ IsFiniteSet(Slow)
    /\ Cardinality(Slow) < Cardinality(Workers)

VARIABLES
    pool,       \* with_spawner: under way, done, or failed
    queue,      \* the channel
    lock,       \* the worker that holds the receiver's mutex
    wpc,        \* where each worker is
    job,        \* the job each worker runs
    answer      \* where each call is, and its answer

poolVars == <<pool, queue, lock, wpc, job, answer>>

PoolTypeOK ==
    /\ pool \in {"spawning", "ready", "failed"}
    /\ queue \in Seq(Jobs)
    /\ Len(queue) <= QueuedJobs
    /\ lock \in Workers \cup {Nobody}
    /\ wpc \in [Workers -> {"unborn", "lock", "recv", "run", "exited"}]
    /\ job \in [Workers -> Jobs \cup {Nobody}]
    /\ answer \in [Jobs -> {"idle", "waiting", "dropped", "result",
                         "unavailable"}]

-----------------------------------------------------------------------------
(* with_spawner.                                                           *)

Spawn(w) ==
    /\ pool = "spawning"
    /\ wpc[w] = "unborn"
    /\ wpc' = [wpc EXCEPT ![w] = "lock"]
    /\ pool' = IF \A v \in Workers \ {w} : wpc[v] # "unborn" THEN "ready"
               ELSE "spawning"
    /\ UNCHANGED <<queue, lock, job, answer>>

\* A thread cannot be spawned; the sender is dropped on the way out.
SpawnFails ==
    /\ pool = "spawning"
    /\ pool' = "failed"
    /\ UNCHANGED <<queue, lock, wpc, job, answer>>

Disconnected == pool = "failed"

-----------------------------------------------------------------------------
(* execute.                                                                *)

Full == Len(queue) >= QueuedJobs

Submit(c) ==
    /\ pool = "ready"
    /\ answer[c] = "idle"
    /\ ~Full
    /\ queue' = Append(queue, c)
    /\ answer' = [answer EXCEPT ![c] = "waiting"]
    /\ UNCHANGED <<pool, lock, wpc, job>>

\* try_send finds the queue full.
SubmitFull(c) ==
    /\ pool = "ready"
    /\ answer[c] = "idle"
    /\ Full
    /\ answer' = [answer EXCEPT ![c] = "unavailable"]
    /\ UNCHANGED <<pool, queue, lock, wpc, job>>

\* Mutant: the job of a dropped call is withdrawn from the queue.
Cancel_FreesSlot(c) ==
    /\ answer[c] = "waiting"
    /\ answer' = [answer EXCEPT ![c] = "dropped"]
    /\ queue' = SelectSeq(queue, LAMBDA d : d # c)
    /\ UNCHANGED <<pool, lock, wpc, job>>

Cancel(c) ==
    /\ answer[c] = "waiting"
    /\ answer' = [answer EXCEPT ![c] = "dropped"]
    /\ UNCHANGED <<pool, queue, lock, wpc, job>>

-----------------------------------------------------------------------------
(* A worker.                                                               *)

Lock(w) ==
    /\ wpc[w] = "lock"
    /\ lock = Nobody
    /\ lock' = w
    /\ wpc' = [wpc EXCEPT ![w] = "recv"]
    /\ UNCHANGED <<pool, queue, job, answer>>

\* The guard is dropped at the end of receive.
LockAfterReceive == Nobody

Remaining == Tail(queue)

Receive(w) ==
    /\ wpc[w] = "recv"
    /\ queue # <<>>
    /\ job' = [job EXCEPT ![w] = Head(queue)]
    /\ queue' = Remaining
    /\ lock' = LockAfterReceive
    /\ wpc' = [wpc EXCEPT ![w] = "run"]
    /\ UNCHANGED <<pool, answer>>

\* recv fails once every sender is gone and the queue is empty.
Exit(w) ==
    /\ wpc[w] = "recv"
    /\ queue = <<>>
    /\ Disconnected
    /\ lock' = Nobody
    /\ wpc' = [wpc EXCEPT ![w] = "exited"]
    /\ UNCHANGED <<pool, queue, job, answer>>

\* Mutant: a panic takes the worker with it.
AfterPanic_Dies == "exited"

AfterPanic == "lock"

\* The work returns a result, or panics and is answered with Unavailable; a
\* dropped caller does not read the answer.
Finish(w) ==
    /\ wpc[w] = "run"
    /\ \E panics \in BOOLEAN :
         /\ wpc' = [wpc EXCEPT ![w] = IF panics THEN AfterPanic ELSE "lock"]
         /\ answer' = [answer EXCEPT ![job[w]] =
                     IF @ # "waiting" THEN @
                     ELSE IF panics THEN "unavailable" ELSE "result"]
    /\ job' = [job EXCEPT ![w] = Nobody]
    /\ lock' = IF lock = w THEN Nobody ELSE lock
    /\ UNCHANGED <<pool, queue>>

-----------------------------------------------------------------------------
PoolInit ==
    /\ pool = "spawning"
    /\ queue = <<>>
    /\ lock = Nobody
    /\ wpc = [w \in Workers |-> "unborn"]
    /\ job = [w \in Workers |-> Nobody]
    /\ answer = [c \in Jobs |-> "idle"]

PoolNext ==
    \/ SpawnFails
    \/ \E w \in Workers :
         Spawn(w) \/ Lock(w) \/ Receive(w) \/ Exit(w) \/ Finish(w)
    \/ \E c \in Jobs : Submit(c) \/ SubmitFull(c) \/ Cancel(c)

\* The mutex goes to some waiting thread, a thread that can run runs, and work
\* ends unless it is slow.
Fairness ==
    /\ WF_poolVars(\E w \in Workers : Lock(w))
    /\ \A w \in Workers :
         /\ WF_poolVars(Receive(w) \/ Exit(w))
         /\ WF_poolVars(job[w] \notin Slow /\ Finish(w))

PoolSpec == PoolInit /\ [][PoolNext]_poolVars

FairSpec == PoolSpec /\ Fairness

-----------------------------------------------------------------------------
(* Properties.                                                             *)

\* A call's job is queued or running.
InFlight(c) ==
    \/ \E i \in DOMAIN queue : queue[i] = c
    \/ \E w \in Workers : job[w] = c

\* A job that was admitted gives up its place only by running to its end:
\* dropping the call refunds nothing.
StaysCharged ==
    [][\A c \in Jobs : InFlight(c) /\ ~InFlight(c)' =>
         \E w \in Workers : job[w] = c /\ wpc[w] = "run"]_poolVars

\* Every admitted job ends and its caller is answered, although other jobs
\* panic, callers go away, and slow work holds all workers but one for good;
\* and a pool that could not be set up leaves no thread behind.
EveryJobEnds ==
    /\ \A c \in Jobs \ Slow :
         InFlight(c) ~> (~InFlight(c) /\ answer[c] # "waiting")
    /\ pool = "failed" ~> (\A w \in Workers : wpc[w] \in {"unborn", "exited"})
=============================================================================
