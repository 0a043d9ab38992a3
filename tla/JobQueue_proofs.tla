--------------------------- MODULE JobQueue_proofs ---------------------------
(***************************************************************************)
(* Proofs about JobQueue for every number of jobs and workers and every    *)
(* threshold: the type invariant, exclusive ownership of a running job,    *)
(* the sweep's guarantee, and the refinement of JobLifecycle.              *)
(***************************************************************************)
EXTENDS JobQueue, TLAPS

(***************************************************************************)
(* The inductive invariant.  OneOwner is not inductive by itself: a claim  *)
(* is safe only because every held job already reads RUNNING, so that the  *)
(* UPDATE of a second worker cannot match it.  What a worker remembers     *)
(* between its SELECT and its UPDATE has to stay true as well: the row     *)
(* still exists, is of the worker's kinds, and no older row has become     *)
(* claimable since, because rows are added at the end and never go back    *)
(* to the queue.                                                           *)
(***************************************************************************)

\* kind is "none" exactly for the rows that do not exist; rows have no gaps.
Rows ==
    /\ \A j \in Job : kind[j] = "none" <=> status[j] = "none"
    /\ \A i, j \in Job : i < j /\ status[j] # "none" => status[i] # "none"

\* The candidate of a SELECT is still the oldest a worker may claim.
Candidate ==
    \A w \in Worker : pc[w] = "selected" =>
        /\ up
        /\ status[cur[w]] # "none"
        /\ MayClaim(w, kind[cur[w]])
        /\ \A i \in Job : i < cur[w] => ~Waiting(w, i)

\* The clock has reached every time it gave out.
Clock ==
    /\ \A j \in Job : startedAt[j] <= now
    /\ sweptAt <= now

IInv ==
    /\ TypeOK
    /\ Rows
    /\ Candidate
    /\ OneOwner
    /\ HeldJobIsRunning
    /\ Clock
    /\ NoOldZombie

-----------------------------------------------------------------------------

\* Identifiers are positive, so the "no job" value is none of them.
LEMMA JobIds == Job \subseteq Nat /\ NoJob \notin Job
BY JobQueueAssumption DEF Job, NoJob

\* The invariant holds of an empty table and idle workers.
LEMMA InitIInv == Init => IInv
<1> SUFFICES ASSUME Init PROVE IInv
    OBVIOUS
<1> USE DEF Init
<1>1. TypeOK
    BY JobQueueAssumption DEF TypeOK, Status, PC
<1>2. Rows /\ Candidate
    BY DEF Rows, Candidate
<1>3. OneOwner /\ HeldJobIsRunning
    BY DEF OneOwner, HeldJobIsRunning, Holds
<1>4. Clock
    BY JobQueueAssumption DEF Clock
<1>5. NoOldZombie
    BY DEF NoOldZombie
<1>6. QED
    BY <1>1, <1>2, <1>3, <1>4, <1>5 DEF IInv

\* Every action keeps the types.
LEMMA TypeStep == TypeOK /\ [Next]_vars => TypeOK'
<1> SUFFICES ASSUME TypeOK, [Next]_vars PROVE TypeOK'
    OBVIOUS
<1> USE JobIds DEF TypeOK, jobsTable, workers
<1>1. ASSUME NEW j \in Job, NEW k \in Submitted, Submit(j, k) PROVE TypeOK'
    BY <1>1, JobQueueAssumption DEF Submit, enqueue_job, Status
<1>2. ASSUME NEW w \in Worker, Poll(w) PROVE TypeOK'
  <2>1. CASE Select(w)
      BY <2>1 DEF Select, PC
  <2>2. CASE Claim(w)
      BY <2>2 DEF Claim, PC, Status
  <2>3. CASE ClaimLost(w)
      BY <2>3 DEF ClaimLost, BackToPolling, PC
  <2>4. CASE ClaimLocked(w)
      BY <2>4 DEF ClaimLocked, BackToPolling, PC
  <2>5. CASE Begin(w)
      BY <2>5 DEF Begin, PC
  <2>6. ASSUME NEW j \in Job, FollowUp(w, j) PROVE TypeOK'
      BY <2>6 DEF FollowUp, enqueue_job, PC, Status, JobKind
  <2>7. ASSUME NEW out \in {"done", "failed"}, Return(w, out) PROVE TypeOK'
      BY <2>7 DEF Return, PC
  <2>8. CASE Finish(w)
      BY <2>8 DEF Finish, BackToPolling, PC, Status
  <2>9. CASE FinishRaises(w)
      BY <2>9 DEF FinishRaises, BackToPolling, PC
  <2>10. QED
      BY <1>2, <2>1, <2>2, <2>3, <2>4, <2>5, <2>6, <2>7, <2>8, <2>9 DEF Poll
<1>3. CASE Crash
    BY <1>3 DEF Crash, PC
<1>4. CASE Boot
    BY <1>4 DEF Boot, recover_zombie_jobs, Status
<1>5. CASE BootUnswept
    BY <1>5 DEF BootUnswept
<1>6. CASE Tick
    BY <1>6, JobQueueAssumption DEF Tick
<1>7. CASE UNCHANGED vars
    BY <1>7 DEF vars
<1>8. QED
    BY <1>1, <1>2, <1>3, <1>4, <1>5, <1>6, <1>7 DEF Next

\* Rows are appended in order and keep their kind.
LEMMA RowsStep == IInv /\ [Next]_vars => Rows'
<1> SUFFICES ASSUME IInv, [Next]_vars PROVE Rows'
    OBVIOUS
<1> USE JobIds DEF IInv, Rows, jobsTable
<1>1. ASSUME NEW j \in Job, NEW k \in JobKind, enqueue_job(j, k) PROVE Rows'
    BY <1>1 DEF enqueue_job, IsNextId, TypeOK, JobKind
<1>2. ASSUME NEW j \in Job, NEW k \in Submitted, Submit(j, k) PROVE Rows'
    BY <1>1, <1>2, JobQueueAssumption DEF Submit
<1>3. ASSUME NEW w \in Worker, Poll(w) PROVE Rows'
  <2>1. CASE Claim(w)
      BY <2>1 DEF Claim, Candidate, TypeOK
  <2>2. ASSUME NEW j \in Job, FollowUp(w, j) PROVE Rows'
      BY <1>1, <2>2 DEF FollowUp, JobKind
  <2>3. CASE Finish(w)
      BY <2>3 DEF Finish, HeldJobIsRunning, Holds, TypeOK
  <2>4. CASE UNCHANGED jobsTable
      BY <2>4
  <2>5. QED
      BY <1>3, <2>1, <2>2, <2>3, <2>4
      DEF Poll, Select, ClaimLost, ClaimLocked, Begin, Return, FinishRaises
<1>4. CASE Boot
    BY <1>4 DEF Boot, recover_zombie_jobs, IsZombie, TypeOK
<1>5. CASE UNCHANGED jobsTable
    BY <1>5
<1>6. QED
    BY <1>2, <1>3, <1>4, <1>5 DEF Next, Crash, BootUnswept, Tick, vars

\* What a worker remembers between its SELECT and its UPDATE stays true: no
\* row ever returns to the queue, and new rows come last.
LEMMA CandidateStep == IInv /\ [Next]_vars => Candidate'
<1> SUFFICES ASSUME IInv, [Next]_vars PROVE Candidate'
    OBVIOUS
<1> USE JobIds DEF IInv, Candidate, Waiting, MayClaim
<1>1. ASSUME NEW j \in Job, NEW k \in JobKind, enqueue_job(j, k),
             UNCHANGED up, \A w \in Worker : pc'[w] = "selected" =>
                               pc[w] = "selected" /\ cur'[w] = cur[w]
      PROVE Candidate'
  <2> SUFFICES ASSUME NEW w \in Worker, pc'[w] = "selected"
               PROVE /\ up'
                     /\ status'[cur'[w]] # "none"
                     /\ MayClaim(w, kind'[cur'[w]])
                     /\ \A i \in Job : i < cur'[w] => ~Waiting(w, i)'
      OBVIOUS
  <2>1. pc[w] = "selected" /\ cur'[w] = cur[w] /\ cur[w] \in Job
      BY <1>1 DEF TypeOK
  <2>2. j # cur[w] /\ ~(j < cur[w])
      BY <1>1, <2>1 DEF enqueue_job, IsNextId, Rows
  <2>3. \A i \in Job : i # j => status'[i] = status[i] /\ kind'[i] = kind[i]
      BY <1>1 DEF enqueue_job, TypeOK
  <2>4. QED
      BY <1>1, <2>1, <2>2, <2>3
<1>2. ASSUME NEW j \in Job, NEW k \in Submitted, Submit(j, k) PROVE Candidate'
    BY <1>1, <1>2, JobQueueAssumption DEF Submit, workers
<1>3. ASSUME NEW w \in Worker, Poll(w) PROVE Candidate'
  <2>1. CASE Select(w)
      BY <2>1 DEF Select, OldestWaiting, TypeOK, jobsTable
  <2>2. CASE Claim(w)
      BY <2>2 DEF Claim, TypeOK
  <2>3. ASSUME NEW j \in Job, FollowUp(w, j) PROVE Candidate'
    <3>1. enqueue_job(j, "run_checks") /\ UNCHANGED up
        BY <2>3 DEF FollowUp
    <3>2. \A v \in Worker : pc'[v] = "selected" =>
              pc[v] = "selected" /\ cur'[v] = cur[v]
        BY <2>3 DEF FollowUp, TypeOK
    <3>3. QED
        BY <1>1, <3>1, <3>2 DEF JobKind
  <2>4. CASE Finish(w)
      BY <2>4 DEF Finish, BackToPolling, TypeOK
  <2>5. ASSUME UNCHANGED <<jobsTable, up>>,
               \A v \in Worker : pc'[v] = "selected" =>
                   pc[v] = "selected" /\ cur'[v] = cur[v]
        PROVE Candidate'
      BY <2>5 DEF jobsTable
  <2>6. CASE ClaimLost(w) \/ ClaimLocked(w) \/ FinishRaises(w)
      BY <2>5, <2>6 DEF ClaimLost, ClaimLocked, FinishRaises, BackToPolling, TypeOK
  <2>7. CASE Begin(w)
      BY <2>5, <2>7 DEF Begin, TypeOK
  <2>8. ASSUME NEW out \in {"done", "failed"}, Return(w, out) PROVE Candidate'
      BY <2>5, <2>8 DEF Return, TypeOK
  <2>9. QED
      BY <1>3, <2>1, <2>2, <2>3, <2>4, <2>6, <2>7, <2>8 DEF Poll
<1>4. CASE Crash
    BY <1>4 DEF Crash
<1>5. CASE Boot
    BY <1>5 DEF Boot, workers
<1>6. CASE BootUnswept
    BY <1>6 DEF BootUnswept, workers
<1>7. CASE UNCHANGED <<jobsTable, workers, up>>
    BY <1>7 DEF jobsTable, workers
<1>8. QED
    BY <1>2, <1>3, <1>4, <1>5, <1>6, <1>7 DEF Next, Tick, vars, jobsTable, workers

\* A job stays with the one worker that claimed it until its outcome is
\* committed or given up.
LEMMA OwnershipStep == IInv /\ [Next]_vars => OneOwner' /\ HeldJobIsRunning'
<1> SUFFICES ASSUME IInv, [Next]_vars PROVE OneOwner' /\ HeldJobIsRunning'
    OBVIOUS
<1> USE JobIds DEF IInv, OneOwner, HeldJobIsRunning, Holds, MayClaim
<1>1. ASSUME NEW j \in Job, NEW k \in JobKind, enqueue_job(j, k),
             UNCHANGED <<cur, up>>, \A w \in Worker : Holds(w)' => Holds(w)
      PROVE OneOwner' /\ HeldJobIsRunning'
    BY <1>1 DEF enqueue_job, IsNextId, TypeOK, Rows
<1>2. ASSUME NEW j \in Job, NEW k \in Submitted, Submit(j, k)
      PROVE OneOwner' /\ HeldJobIsRunning'
    BY <1>1, <1>2, JobQueueAssumption DEF Submit, workers
<1>3. ASSUME NEW w \in Worker, Poll(w) PROVE OneOwner' /\ HeldJobIsRunning'
  <2>1. CASE Select(w)
      BY <2>1 DEF Select, TypeOK, jobsTable
  <2>2. CASE Claim(w)
    <3>1. cur[w] \in Job /\ \A v \in Worker : Holds(v) => cur[v] # cur[w]
        BY <2>2 DEF Claim, TypeOK
    <3>2. QED
        BY <2>2, <3>1 DEF Claim, TypeOK, Candidate
  <2>3. ASSUME NEW j \in Job, FollowUp(w, j) PROVE OneOwner' /\ HeldJobIsRunning'
    <3>1. enqueue_job(j, "run_checks") /\ UNCHANGED <<cur, up>>
        BY <2>3 DEF FollowUp
    <3>2. \A v \in Worker : Holds(v)' => Holds(v)
        BY <2>3 DEF FollowUp, TypeOK
    <3>3. QED
        BY <1>1, <3>1, <3>2 DEF JobKind
  <2>4. CASE Finish(w)
    <3>1. \A v \in Worker : Holds(v)' =>
              Holds(v) /\ v # w /\ cur'[v] = cur[v] /\ cur[v] # cur[w]
        BY <2>4 DEF Finish, BackToPolling, TypeOK
    <3>2. QED
        BY <2>4, <3>1 DEF Finish, TypeOK
  <2>5. CASE ClaimLost(w) \/ ClaimLocked(w) \/ FinishRaises(w)
      BY <2>5 DEF ClaimLost, ClaimLocked, FinishRaises, BackToPolling, TypeOK, jobsTable
  <2>6. CASE Begin(w)
      BY <2>6 DEF Begin, TypeOK, jobsTable
  <2>7. ASSUME NEW out \in {"done", "failed"}, Return(w, out)
        PROVE OneOwner' /\ HeldJobIsRunning'
      BY <2>7 DEF Return, TypeOK, jobsTable
  <2>8. QED
      BY <1>3, <2>1, <2>2, <2>3, <2>4, <2>5, <2>6, <2>7 DEF Poll
<1>4. CASE Crash
    BY <1>4 DEF Crash
<1>5. CASE Boot \/ BootUnswept
    BY <1>5 DEF Boot, BootUnswept, workers
<1>6. CASE UNCHANGED <<jobsTable, workers, up>>
    BY <1>6 DEF jobsTable, workers
<1>7. QED
    BY <1>2, <1>3, <1>4, <1>5, <1>6 DEF Next, Tick, vars, jobsTable, workers

\* Times only grow, and a sweep leaves no running row older than its cutoff.
LEMMA SweepStep == IInv /\ [Next]_vars => Clock' /\ NoOldZombie'
<1> SUFFICES ASSUME IInv, [Next]_vars PROVE Clock' /\ NoOldZombie'
    OBVIOUS
<1> USE JobIds, JobQueueAssumption DEF IInv, Clock, NoOldZombie, TypeOK
<1>1. ASSUME NEW j \in Job, NEW k \in Submitted, Submit(j, k)
      PROVE Clock' /\ NoOldZombie'
    BY <1>1 DEF Submit, enqueue_job
<1>2. ASSUME NEW w \in Worker, Poll(w) PROVE Clock' /\ NoOldZombie'
  <2>1. CASE Claim(w)
      BY <2>1 DEF Claim
  <2>2. ASSUME NEW j \in Job, FollowUp(w, j) PROVE Clock' /\ NoOldZombie'
      BY <2>2 DEF FollowUp, enqueue_job
  <2>3. CASE Finish(w)
      BY <2>3 DEF Finish
  <2>4. CASE UNCHANGED <<jobsTable, now, sweptAt>>
      BY <2>4 DEF jobsTable
  <2>5. QED
      BY <1>2, <2>1, <2>2, <2>3, <2>4
      DEF Poll, Select, ClaimLost, ClaimLocked, Begin, Return, FinishRaises
<1>3. CASE Boot
    BY <1>3 DEF Boot, recover_zombie_jobs, IsZombie
<1>4. CASE Tick
    BY <1>4 DEF Tick, jobsTable
<1>5. CASE UNCHANGED <<jobsTable, now, sweptAt>>
    BY <1>5 DEF jobsTable
<1>6. QED
    BY <1>1, <1>2, <1>3, <1>4, <1>5 DEF Next, Crash, BootUnswept, vars, jobsTable

\* The inductive invariant holds of every reachable state.
THEOREM Invariance == Spec => []IInv
<1>1. IInv /\ [Next]_vars => IInv'
    BY TypeStep, RowsStep, CandidateStep, OwnershipStep, SweepStep DEF IInv
<1>2. QED
    BY InitIInv, <1>1, PTL DEF Spec

\* Every variable keeps its type: claims, outcomes and the sweep included.
THEOREM TypeCorrect == Spec => []TypeOK
<1>1. IInv => TypeOK
    BY DEF IInv
<1>2. QED
    BY Invariance, <1>1, PTL

\* No two workers ever run the handler of the same job (claim_next_job).
THEOREM ExclusiveOwnership == Spec => []OneOwner
<1>1. IInv => OneOwner
    BY DEF IInv
<1>2. QED
    BY Invariance, <1>1, PTL

\* A job being handled reads RUNNING and belongs to its worker's lane.
THEOREM HandledJobsRun == Spec => []HeldJobIsRunning
<1>1. IInv => HeldJobIsRunning
    BY DEF IInv
<1>2. QED
    BY Invariance, <1>1, PTL

\* recover_zombie_jobs leaves no running row older than the threshold.
THEOREM SweepIsComplete == Spec => []NoOldZombie
<1>1. IInv => NoOldZombie
    BY DEF IInv
<1>2. QED
    BY Invariance, <1>1, PTL

-----------------------------------------------------------------------------

\* A worker's kinds are exactly one lane: two rows a worker compares are of
\* the same lane, and what is in the lane of its candidate it may claim too.
LEMMA LanesAreWorkers ==
    ASSUME NEW w, NEW k \in JobKind, NEW l \in JobKind \cup {"none"},
           MayClaim(w, k), LaneOf(l) = LaneOf(k)
    PROVE  MayClaim(w, l)
BY DEF MayClaim, LaneOf, JobKind, AI_JOB_KINDS

\* An enqueued row enters the lane of its kind.
LEMMA EnqueueRefines ==
    ASSUME TypeOK, NEW j \in Job, NEW k \in JobKind, enqueue_job(j, k)
    PROVE  Lifecycle!Submit(j, LaneOf(k)) /\ LaneOf(k) \in Lifecycle!Lane
<1>1. LaneOf(k) \in Lifecycle!Lane
    BY DEF LaneOf, Lifecycle!Lane, JobKind
<1>2. [i \in Job |-> LaneOf(kind'[i])] =
      [[i \in Job |-> LaneOf(kind[i])] EXCEPT ![j] = LaneOf(k)]
    BY DEF enqueue_job, TypeOK
<1>3. QED
    BY <1>1, <1>2 DEF enqueue_job, IsNextId, Lifecycle!Submit

\* A claim starts the job: no older row of its lane is waiting, whatever
\* happened since the SELECT.
LEMMA ClaimRefines ==
    ASSUME IInv, NEW w \in Worker, Claim(w)
    PROVE  Lifecycle!Start(cur[w])
<1> USE DEF IInv, TypeOK
<1>1. /\ pc[w] = "selected"
      /\ cur[w] \in Job
      /\ status[cur[w]] = "queued"
      /\ status' = [status EXCEPT ![cur[w]] = "running"]
      /\ kind' = kind
    BY DEF Claim
<1>2. kind[cur[w]] \in JobKind
    BY <1>1 DEF Rows
<1>3. ASSUME NEW i \in Job, i < cur[w], LaneOf(kind[i]) = LaneOf(kind[cur[w]])
      PROVE  status[i] # "queued"
  <2>1. MayClaim(w, kind[cur[w]]) /\ ~Waiting(w, i)
      BY <1>1, <1>3 DEF Candidate
  <2>2. MayClaim(w, kind[i])
      BY <2>1, <1>2, <1>3, LanesAreWorkers
  <2>3. QED
      BY <2>1, <2>2 DEF Waiting
<1>4. QED
    BY <1>1, <1>3 DEF Lifecycle!Start

\* Every step of the workers, the requests, the crash and the sweep is a step
\* of the lifecycle or leaves it unchanged.
LEMMA StepRefines ==
    IInv /\ [Next]_vars => [Lifecycle!Next]_(Lifecycle!vars)
<1> SUFFICES ASSUME IInv, [Next]_vars
             PROVE  [Lifecycle!Next]_(Lifecycle!vars)
    OBVIOUS
<1> USE JobIds
<1>1. ASSUME UNCHANGED <<status, kind>>
      PROVE  UNCHANGED Lifecycle!vars
    BY <1>1 DEF Lifecycle!vars
<1>2. ASSUME NEW j \in Job, NEW k \in JobKind, enqueue_job(j, k)
      PROVE  Lifecycle!Next
    BY <1>2, EnqueueRefines DEF Lifecycle!Next, IInv
<1>3. ASSUME NEW j \in Job, NEW k \in Submitted, Submit(j, k)
      PROVE  Lifecycle!Next
    BY <1>2, <1>3, JobQueueAssumption DEF Submit
<1>4. ASSUME NEW w \in Worker, Poll(w)
      PROVE  Lifecycle!Next \/ UNCHANGED Lifecycle!vars
  <2>1. CASE Claim(w)
    <3>1. cur[w] \in Job
        BY <2>1 DEF Claim, IInv, TypeOK
    <3>2. QED
        BY <2>1, <3>1, ClaimRefines DEF Lifecycle!Next
  <2>2. ASSUME NEW j \in Job, FollowUp(w, j) PROVE Lifecycle!Next
      BY <1>2, <2>2 DEF FollowUp, JobKind
  <2>3. CASE Finish(w)
    <3>1. /\ cur[w] \in Job
          /\ outcome[w] \in Lifecycle!Outcome
          /\ status[cur[w]] = "running"
        BY <2>3 DEF Finish, IInv, TypeOK, HeldJobIsRunning, Holds, Lifecycle!Outcome
    <3>2. status' = [j \in Job |-> IF j \in {cur[w]} THEN outcome[w] ELSE status[j]]
        BY <2>3 DEF Finish, IInv, TypeOK
    <3>3. Lifecycle!Settle({cur[w]}, outcome[w])
        BY <2>3, <3>1, <3>2 DEF Finish, Lifecycle!Settle
    <3>4. QED
        BY <3>1, <3>3 DEF Lifecycle!Next
  <2>4. CASE UNCHANGED jobsTable
      BY <1>1, <2>4 DEF jobsTable
  <2>5. QED
      BY <1>4, <2>1, <2>2, <2>3, <2>4
      DEF Poll, Select, ClaimLost, ClaimLocked, Begin, Return, FinishRaises
<1>5. CASE Boot
  <2> DEFINE Z == {j \in Job : IsZombie(j)}
  <2>1. CASE Z = {}
    <3>1. status' = status
        BY <1>5, <2>1 DEF Boot, recover_zombie_jobs, IInv, TypeOK
    <3>2. QED
        BY <1>1, <1>5, <3>1 DEF Boot
  <2>2. CASE Z # {}
    <3>1. status' = [j \in Job |-> IF j \in Z THEN "failed" ELSE status[j]]
        BY <1>5 DEF Boot, recover_zombie_jobs
    <3>2. \A j \in Z : status[j] = "running"
        BY DEF IsZombie
    <3>3. Lifecycle!Settle(Z, "failed")
        BY <1>5, <2>2, <3>1, <3>2 DEF Boot, Lifecycle!Settle
    <3>4. QED
        BY <3>3 DEF Lifecycle!Next, Lifecycle!Outcome
  <2>3. QED
      BY <2>1, <2>2
<1>6. CASE UNCHANGED jobsTable
    BY <1>1, <1>6 DEF jobsTable
<1>7. QED
    BY <1>3, <1>4, <1>5, <1>6 DEF Next, Crash, BootUnswept, Tick, vars, jobsTable

\* The queue implements its abstract specification: each job is started at
\* most once, in order within its lane, and an outcome is final.
THEOREM Refinement == Spec => LifecycleSpec
<1>1. Init => Lifecycle!Init
  <2>1. ASSUME Init PROVE [j \in Job |-> LaneOf(kind[j])] = [j \in Job |-> "none"]
      BY <2>1 DEF Init, LaneOf
  <2>2. QED
      BY <2>1 DEF Init, Lifecycle!Init
<1>2. QED
    BY Invariance, StepRefines, <1>1, PTL DEF Spec, LifecycleSpec, Lifecycle!Spec

=============================================================================
