------------------------------ MODULE JobQueue ------------------------------
(***************************************************************************)
(* The job table and the worker threads that poll it (app/jobs).           *)
(*                                                                         *)
(* A request, or the handler of another job, inserts a row.  Each worker   *)
(* loops over one poll: a SELECT of the oldest queued row of its kinds, a  *)
(* separate UPDATE ... WHERE status = 'queued' that claims it, a second    *)
(* session that runs the handler, and the commit of the outcome in the     *)
(* `finally`.  Every one of those steps interleaves with the other         *)
(* workers; the server may die between any two of them, and the sweep of   *)
(* zombie jobs runs once, when it starts again.                            *)
(***************************************************************************)
EXTENDS Naturals

CONSTANTS
    MaxJobs,            \* bound: rows the jobs table may ever hold
    CheckWorkers,       \* threads started with exclude_kinds=AI_JOB_KINDS
    AIWorkers,          \* threads started with kinds=AI_JOB_KINDS
    Submitted,          \* kinds the requests of this instance enqueue
    ZOMBIE_THRESHOLD,   \* age past which a RUNNING row counts as crashed
    MaxTime             \* bound on the clock

NoJob == 0

JobKind == {"run_checks", "ingest", "ingest_and_run", "batch_run",
            "ai_overview", "ai_overview_batch"}
AI_JOB_KINDS == {"ai_overview", "ai_overview_batch"}

\* Kinds main.lifespan registers a handler for: "ingest_and_run" has none.
HANDLERS == JobKind \ {"ingest_and_run"}

ASSUME JobQueueAssumption ==
    /\ MaxJobs \in Nat
    /\ MaxTime \in Nat
    /\ ZOMBIE_THRESHOLD \in Nat
    /\ Submitted \subseteq JobKind
    /\ CheckWorkers \cap AIWorkers = {}

Job == 1..MaxJobs
Worker == CheckWorkers \cup AIWorkers

VARIABLES
    status,             \* jobs.status, "none" while the row does not exist
    kind,               \* jobs.kind
    startedAt,          \* jobs.started_at
    pc,                 \* where each worker thread is in its poll
    cur,                \* candidate_id, later the claimed job
    outcome,            \* job.status as set in the session, not yet committed
    up,                 \* the server process is running
    now,                \* the clock
    sweptAt             \* when recover_zombie_jobs last committed

jobsTable == <<status, kind, startedAt>>
workers == <<pc, cur, outcome>>
vars == <<status, kind, startedAt, pc, cur, outcome, up, now, sweptAt>>

Status == {"none", "queued", "running", "done", "failed"}
PC == {"polling", "selected", "claimed", "handling", "followed", "finishing"}

-----------------------------------------------------------------------------

Init ==
    /\ status = [j \in Job |-> "none"]
    /\ kind = [j \in Job |-> "none"]
    /\ startedAt = [j \in Job |-> 0]
    /\ pc = [w \in Worker |-> "polling"]
    /\ cur = [w \in Worker |-> NoJob]
    /\ outcome = [w \in Worker |-> "none"]
    /\ up = TRUE
    /\ now = 0
    /\ sweptAt = 0

\* The next identifier: rows are inserted under the writer lock, never deleted.
IsNextId(j) ==
    /\ status[j] = "none"
    /\ \A i \in Job : i < j => status[i] # "none"

enqueue_job(j, k) ==
    /\ IsNextId(j)
    /\ status' = [status EXCEPT ![j] = "queued"]
    /\ kind' = [kind EXCEPT ![j] = k]
    /\ UNCHANGED startedAt

\* A request enqueues a job and commits it.
Submit(j, k) ==
    /\ up
    /\ enqueue_job(j, k)
    /\ UNCHANGED <<workers, up, now, sweptAt>>

\* exclude_kinds for the check workers, kinds for the AI worker.
\* Mutant: both threads poll the check kinds.
MayClaimNoAI(w, k) == k \notin AI_JOB_KINDS

MayClaim(w, k) ==
    IF w \in AIWorkers THEN k \in AI_JOB_KINDS ELSE k \notin AI_JOB_KINDS

Waiting(w, j) == status[j] = "queued" /\ MayClaim(w, kind[j])

\* ORDER BY created_at, id LIMIT 1.  Mutant: the ORDER BY is lost.
AnyWaiting(w, j) == Waiting(w, j)

OldestWaiting(w, j) ==
    /\ Waiting(w, j)
    /\ \A i \in Job : i < j => ~Waiting(w, i)

\* claim_next_job, first statement.  With nothing waiting the thread sleeps
\* and polls again, which changes nothing.
Select(w) ==
    /\ pc[w] = "polling"
    /\ \E j \in Job :
        /\ OldestWaiting(w, j)
        /\ cur' = [cur EXCEPT ![w] = j]
    /\ pc' = [pc EXCEPT ![w] = "selected"]
    /\ up
    /\ UNCHANGED <<jobsTable, outcome, up, now, sweptAt>>

BackToPolling(w) ==
    /\ pc' = [pc EXCEPT ![w] = "polling"]
    /\ cur' = [cur EXCEPT ![w] = NoJob]
    /\ outcome' = [outcome EXCEPT ![w] = "none"]

\* The UPDATE hits the row.  Mutant: it does not ask for status = 'queued'.
ClaimBlindly(w) ==
    /\ pc[w] = "selected"
    /\ status' = [status EXCEPT ![cur[w]] = "running"]
    /\ startedAt' = [startedAt EXCEPT ![cur[w]] = now]
    /\ pc' = [pc EXCEPT ![w] = "claimed"]
    /\ UNCHANGED <<kind, cur, outcome, up, now, sweptAt>>

Claim(w) ==
    /\ pc[w] = "selected"
    /\ status[cur[w]] = "queued"
    /\ status' = [status EXCEPT ![cur[w]] = "running"]
    /\ startedAt' = [startedAt EXCEPT ![cur[w]] = now]
    /\ pc' = [pc EXCEPT ![w] = "claimed"]
    /\ UNCHANGED <<kind, cur, outcome, up, now, sweptAt>>

\* rowcount = 0, another worker won: this poll did nothing.
ClaimLost(w) ==
    /\ pc[w] = "selected"
    /\ status[cur[w]] # "queued"
    /\ BackToPolling(w)
    /\ UNCHANGED <<jobsTable, up, now, sweptAt>>

\* The UPDATE waited busy_timeout for the writer lock and raised; _loop logs
\* it and polls again.
ClaimLocked(w) ==
    /\ pc[w] = "selected"
    /\ BackToPolling(w)
    /\ UNCHANGED <<jobsTable, up, now, sweptAt>>

\* Mutant: a job without a handler is finished without its FAILED status.
BeginNoOutcome(w) ==
    /\ pc[w] = "claimed"
    /\ pc' = [pc EXCEPT ![w] =
                 IF kind[cur[w]] \in HANDLERS THEN "handling" ELSE "finishing"]
    /\ UNCHANGED <<jobsTable, cur, outcome, up, now, sweptAt>>

\* _execute_claimed_job in the second session.
Begin(w) ==
    /\ pc[w] = "claimed"
    /\ IF kind[cur[w]] \in HANDLERS
          THEN /\ pc' = [pc EXCEPT ![w] = "handling"]
               /\ UNCHANGED outcome
          ELSE /\ pc' = [pc EXCEPT ![w] = "finishing"]
               /\ outcome' = [outcome EXCEPT ![w] = "failed"]
    /\ UNCHANGED <<jobsTable, cur, up, now, sweptAt>>

\* ingest_handler, once the rows are loaded, enqueues the checks that follow
\* it; enqueue_job commits before the ingest job itself is marked done.
FollowUp(w, j) ==
    /\ pc[w] = "handling"
    /\ kind[cur[w]] = "ingest"
    /\ enqueue_job(j, "run_checks")
    /\ pc' = [pc EXCEPT ![w] = "followed"]
    /\ UNCHANGED <<cur, outcome, up, now, sweptAt>>

\* The handler returned (DONE) or raised (FAILED).
Return(w, out) ==
    /\ pc[w] \in {"handling", "followed"}
    /\ outcome' = [outcome EXCEPT ![w] = out]
    /\ pc' = [pc EXCEPT ![w] = "finishing"]
    /\ UNCHANGED <<jobsTable, cur, up, now, sweptAt>>

\* session.commit() in the `finally`.
Finish(w) ==
    /\ pc[w] = "finishing"
    /\ status' = [status EXCEPT ![cur[w]] = outcome[w]]
    /\ BackToPolling(w)
    /\ UNCHANGED <<kind, startedAt, up, now, sweptAt>>

\* That commit raised (the session needs a rollback after a failed flush, or
\* the database stayed locked): the row keeps RUNNING and no one holds it.
FinishRaises(w) ==
    /\ pc[w] = "finishing"
    /\ BackToPolling(w)
    /\ UNCHANGED <<jobsTable, up, now, sweptAt>>

-----------------------------------------------------------------------------

\* The process dies, or is stopped with a handler still running past the
\* five seconds JobWorker.stop waits: the daemon threads go with it.
Crash ==
    /\ up
    /\ up' = FALSE
    /\ pc' = [w \in Worker |-> "polling"]
    /\ cur' = [w \in Worker |-> NoJob]
    /\ outcome' = [w \in Worker |-> "none"]
    /\ UNCHANGED <<jobsTable, now, sweptAt>>

\* started_at < now - threshold.  Mutant: the comparison is turned round.
IsYoung(j) ==
    status[j] = "running" /\ startedAt[j] + ZOMBIE_THRESHOLD > now

IsZombie(j) ==
    status[j] = "running" /\ startedAt[j] + ZOMBIE_THRESHOLD < now

recover_zombie_jobs ==
    /\ status' = [j \in Job |-> IF IsZombie(j) THEN "failed" ELSE status[j]]
    /\ sweptAt' = now

\* lifespan: sweep, then start the workers.  Mutant: a sweep at any time.
SweepAnytime ==
    /\ up' = TRUE
    /\ recover_zombie_jobs
    /\ UNCHANGED <<kind, startedAt, workers, now>>

Boot ==
    /\ ~up
    /\ up' = TRUE
    /\ recover_zombie_jobs
    /\ UNCHANGED <<kind, startedAt, workers, now>>

\* The sweep raised; lifespan logs it and goes on.
BootUnswept ==
    /\ ~up
    /\ up' = TRUE
    /\ UNCHANGED <<jobsTable, workers, now, sweptAt>>

Tick ==
    /\ now < MaxTime
    /\ now' = now + 1
    /\ UNCHANGED <<jobsTable, workers, up, sweptAt>>

Poll(w) ==
    \/ Select(w)
    \/ Claim(w)
    \/ ClaimLost(w)
    \/ ClaimLocked(w)
    \/ Begin(w)
    \/ \E j \in Job : FollowUp(w, j)
    \/ \E out \in {"done", "failed"} : Return(w, out)
    \/ Finish(w)
    \/ FinishRaises(w)

Next ==
    \/ \E j \in Job, k \in Submitted : Submit(j, k)
    \/ \E w \in Worker : Poll(w)
    \/ Crash
    \/ Boot
    \/ BootUnswept
    \/ Tick

Spec == Init /\ [][Next]_vars

(***************************************************************************)
(* Fairness.  The threads are scheduled, a handler returns (every outside  *)
(* call it makes has a timeout), a stopped container is started again      *)
(* (restart: unless-stopped), and a poll does not find the database locked *)
(* or the server down every single time.                                   *)
(***************************************************************************)
Fairness ==
    /\ \A w \in Worker :
        /\ SF_vars(Select(w))
        /\ SF_vars(Claim(w))
        /\ WF_vars(ClaimLost(w))
        /\ WF_vars(Begin(w))
        /\ WF_vars(\E out \in {"done", "failed"} : Return(w, out))
        /\ WF_vars(Finish(w))
    /\ WF_vars(Boot)

FairSpec == Spec /\ Fairness

-----------------------------------------------------------------------------

Holds(w) == pc[w] \in {"claimed", "handling", "followed", "finishing"}

TypeOK ==
    /\ status \in [Job -> Status]
    /\ kind \in [Job -> JobKind \cup {"none"}]
    /\ startedAt \in [Job -> 0..MaxTime]
    /\ pc \in [Worker -> PC]
    /\ cur \in [Worker -> Job \cup {NoJob}]
    /\ outcome \in [Worker -> {"none", "done", "failed"}]
    /\ \A w \in Worker : cur[w] = NoJob <=> pc[w] = "polling"
    /\ \A w \in Worker : outcome[w] # "none" <=> pc[w] = "finishing"
    /\ up \in BOOLEAN
    /\ now \in 0..MaxTime
    /\ sweptAt \in 0..MaxTime

\* However the SELECT and the UPDATE of two workers interleave, no two of them
\* run the handler of the same job.
OneOwner ==
    \A v, w \in Worker : Holds(v) /\ Holds(w) /\ cur[v] = cur[w] => v = w

\* A job whose handler is running reads RUNNING to everyone who looks, and no
\* one else (the sweep included) can have given it an outcome meanwhile; it is
\* of the worker's own kinds.
HeldJobIsRunning ==
    \A w \in Worker : Holds(w) =>
        /\ up
        /\ status[cur[w]] = "running"
        /\ MayClaim(w, kind[cur[w]])

\* After a sweep no row of an earlier process that is older than the threshold
\* is left RUNNING, whatever crashed or failed to commit before and since.
NoOldZombie ==
    \A j \in Job :
        status[j] = "running" => startedAt[j] + ZOMBIE_THRESHOLD >= sweptAt

\* Every queued job is handed to a worker in the end: no lane starves behind
\* the other, and orphaned rows do not block the queue.
QueuedIsPickedUp ==
    \A j \in Job : status[j] = "queued" ~> status[j] # "queued"

LaneOf(k) ==
    IF k = "none" THEN "none" ELSE IF k \in AI_JOB_KINDS THEN "ai" ELSE "check"

\* The queue implements JobLifecycle: one start per job, first in first out
\* within a lane, outcomes final.
Lifecycle == INSTANCE JobLifecycle WITH lane <- [j \in Job |-> LaneOf(kind[j])]

LifecycleSpec == Lifecycle!Spec

=============================================================================
