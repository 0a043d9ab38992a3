------------------------------- MODULE AI_proofs -------------------------------
(***************************************************************************)
(* Proofs about Overview, Chat and Settings: an overview shown as fresh is *)
(* one of the newest run and a batch stays within its budget; the model is *)
(* only asked histories in which every turn is whole; old values of a      *)
(* setting go out of use; and each keeps its types beside the others.      *)
(***************************************************************************)
EXTENDS MCAI, TLAPS, FiniteSetTheorems, SequenceTheorems, WellFoundedInduction

-----------------------------------------------------------------------------
(* The next check of a batch                                               *)

\* A finite set of numbers has a smallest: a smallest set without one would
\* lack one less.
LEMMA SmallestExists ==
    ASSUME NEW S \in SUBSET Nat, IsFiniteSet(S), S # {}
    PROVE  \E m \in S : \A k \in S : m <= k
<1> DEFINE NoMin == {T \in SUBSET S : T # {} /\ ~\E m \in T : \A k \in T : m <= k}
<1>1. NoMin \subseteq FiniteSubsetsOf(S)
    BY FS_Subset DEF FiniteSubsetsOf
<1>2. SUFFICES ASSUME NoMin # {} PROVE FALSE
    OBVIOUS
<1>3. PICK T \in NoMin : \A U \in NoMin : <<U, T>> \notin StrictSubsetOrdering(S)
  <2> HIDE DEF NoMin
  <2>1. IsWellFoundedOn(StrictSubsetOrdering(S), FiniteSubsetsOf(S))
      BY FS_StrictSubsetOrderingWellFounded
  <2>2. QED
      BY <1>1, <1>2, <2>1, WFMin
<1>4. PICK x \in T : TRUE
    OBVIOUS
<1> DEFINE U == T \ {x}
<1>5. U \notin NoMin
    BY <1>3 DEF StrictSubsetOrdering
<1>6. CASE U = {}
    BY <1>4, <1>6
<1>7. CASE U # {}
  <2>1. PICK m \in U : \A k \in U : m <= k
      BY <1>5, <1>7
  <2>2. m \in Int /\ x \in Int /\ T \subseteq Int
      BY <1>4
  <2>3. CASE m <= x
      BY <2>1, <2>2, <2>3
  <2>4. CASE ~(m <= x)
      BY <2>1, <2>2, <2>4
  <2>5. QED
      BY <2>3, <2>4
<1>8. QED
    BY <1>6, <1>7

LEMMA FirstIsTarget ==
    ASSUME NEW S \in SUBSET Code, S # {}
    PROVE  First(S) \in S
<1>1. S \in SUBSET Nat /\ IsFiniteSet(S)
    BY OverviewAssumption, FS_Subset
<1>2. \E m \in S : \A k \in S : m <= k
    BY <1>1, SmallestExists
<1>3. QED
    BY <1>2 DEF First

-----------------------------------------------------------------------------
(* What the threads may hold                                               *)

Findings == Nat \cup {Partial}

\* A generation: the check it is about and what is left of its batch.
Gen == [at : {"stats"}, job : OverviewJob, targets : SUBSET Code, code : Code]
GenRun == [at : {"run"}, job : OverviewJob, targets : SUBSET Code, code : Code,
           table : Findings, seenRun : Nat]
GenCall == [at : {"call"}, job : OverviewJob, targets : SUBSET Code, code : Code,
            table : Findings, run : Nat, ver : Nat, torn : BOOLEAN]
GenWrite == [at : {"write"}, job : OverviewJob, targets : SUBSET Code, code : Code,
             table : Findings, run : Nat, ver : Nat, torn : BOOLEAN,
             seen : Row \cup {NoOverview}]
Between == [at : {"next"}, job : OverviewJob, targets : SUBSET Code]
Plan == [at : {"plan"}, job : OverviewJob]
Finishing == [at : {"finish"}, job : OverviewJob, out : {"done", "failed"}]

AIState == {Idle} \cup Plan \cup Between \cup Gen \cup GenRun \cup GenCall \cup GenWrite
           \cup Finishing

Press == [at : {"press"}, code : Code, isNew : BOOLEAN]
PressQueued == [at : {"queued"}, code : Code, isNew : BOOLEAN, job : OverviewJob]
PressMarking == [at : {"mark"}, code : Code, isNew : BOOLEAN, job : OverviewJob,
                 table : Findings]
TxState == {Idle} \cup [at : {"batch"}] \cup Press \cup PressQueued \cup PressMarking

JobRow == [kind : {"none", "single", "batch"}, code : Code \cup {0},
           status : {"none", "queued", "running", "done", "failed"}]

OverviewTyped ==
    /\ found \in [Code -> Findings]
    /\ ran_at \in [Code -> Nat]
    /\ \A c \in Code : found[c] <= ran_at[c]
    /\ data_version \in Nat
    /\ ov \in [Code -> Row \cup {NoOverview}]
    /\ jobs \in [OverviewJob -> JobRow]
    /\ ai \in AIState
    /\ tx \in [Request -> TxState]
    /\ spent \in Nat
    /\ batchCalls \in Nat
    /\ torn \in [Code -> BOOLEAN]
    /\ broken \in [Code -> BOOLEAN]

\* A job once queued keeps its check; the worker's job is running; a press
\* that marks a row names its own job; a row once there stays.
Named ==
    /\ ai # Idle => jobs[ai.job].status = "running"
    /\ \A j \in OverviewJob : jobs[j].kind = "single" => jobs[j].code \in Code
    /\ \A p \in Request : tx[p].at \in {"queued", "mark"} =>
          jobs[tx[p].job].code = tx[p].code /\ jobs[tx[p].job].status # "none"
    /\ \A p \in Request : tx[p].at \in {"press", "queued", "mark"} /\ ~tx[p].isNew =>
          ov[tx[p].code] # NoOverview
    /\ \A c \in Code : ov[c] # NoOverview /\ ov[c].status = "running" =>
          /\ ov[c].job # NoOverviewJob
          /\ jobs[ov[c].job].code = c
          /\ jobs[ov[c].job].status # "none"
    /\ ai.at = "write" /\ ai.seen # NoOverview => ov[ai.code] # NoOverview

\* What a batch may spend is known from the moment it asked the budget.
Budgeted ==
    /\ batchCalls <= spent
    /\ batchCalls <= Budget
    /\ ai.at \in {"stats", "run", "call", "write"} /\ jobs[ai.job].kind = "batch" =>
          batchCalls < Budget

-----------------------------------------------------------------------------

LEMMA TypedInit ==
    ASSUME OverviewInit
    PROVE  OverviewTyped /\ Named /\ Budgeted
<1>1. OverviewTyped
    BY DEF OverviewInit, OverviewTyped, Findings, NoFindings, JobRow, AIState, TxState
<1>2. Named
    BY DEF OverviewInit, Named, Idle, NoOverview
<1>3. Budgeted
    BY OverviewAssumption DEF OverviewInit, Budgeted, Idle
<1>4. QED
    BY <1>1, <1>2, <1>3

\* What the worker holds, by where it is.
LEMMA AIKinds ==
    ASSUME OverviewTyped
    PROVE  /\ ai.at = "idle" => ai = Idle
           /\ ai.at = "plan" => ai \in Plan
           /\ ai.at = "next" => ai \in Between
           /\ ai.at = "stats" => ai \in Gen
           /\ ai.at = "run" => ai \in GenRun
           /\ ai.at = "call" => ai \in GenCall
           /\ ai.at = "write" => ai \in GenWrite
           /\ ai.at = "finish" => ai \in Finishing
BY DEF OverviewTyped, AIState, Idle, Plan, Between, Gen, GenRun, GenCall, GenWrite, Finishing

LEMMA TxKinds ==
    ASSUME OverviewTyped, NEW p \in Request
    PROVE  /\ tx[p].at = "press" => tx[p] \in Press
           /\ tx[p].at = "queued" => tx[p] \in PressQueued
           /\ tx[p].at = "mark" => tx[p] \in PressMarking
<1>1. tx[p] \in TxState
    BY DEF OverviewTyped
<1>2. QED
    BY <1>1 DEF TxState, Idle, Press, PressQueued, PressMarking

LEMMA RowHasStatus ==
    /\ NoOverview \notin Row
    /\ NoOverview.status = "none"
    /\ \A r \in Row : r.status \in {"running", "done", "failed"}
BY DEF NoOverview, Row

-----------------------------------------------------------------------------
(* Types                                                                   *)

\* Written keeps the shape of a row.
LEMMA WrittenIsRow ==
    ASSUME OverviewTyped, ai \in GenWrite, NEW line \in Row \cup {NoOverview},
           ai.seen = NoOverview \/ line # NoOverview,
           NEW run \in Nat, NEW ver \in Nat
    PROVE  Written(line, run, ver) \in Row
<1>1. ai.table \in Findings /\ ai.seen \in Row \cup {NoOverview}
    BY DEF GenWrite
<1>2. CASE ai.seen = NoOverview
    BY <1>1, <1>2 DEF Written, Row, NoOverviewJob, Findings
<1>3. CASE ai.seen # NoOverview
  <2>1. line \in Row
      BY <1>3
  <2>2. QED
      BY <1>1, <1>3, <2>1 DEF Written, Row, Findings
<1>4. QED
    BY <1>2, <1>3

LEMMA TypedAround ==
    ASSUME OverviewTyped, Named,
           \/ \E c \in Code : RunCommit(c) \/ RunFails(c)
           \/ DataMoves
           \/ ChatCall
           \/ RestartSweep
    PROVE  OverviewTyped'
<1>1. ASSUME NEW c \in Code, RunCommit(c) PROVE OverviewTyped'
  <2>1. PICK n \in {ran_at[c] + 1, NoFindings} : found' = [found EXCEPT ![c] = n]
      BY <1>1 DEF RunCommit
  <2>2. ran_at[c] \in Nat /\ n \in Nat /\ n <= ran_at[c] + 1
      BY <2>1 DEF OverviewTyped, NoFindings
  <2>3. found' \in [Code -> Findings] /\ ran_at' \in [Code -> Nat]
      BY <1>1, <2>1, <2>2 DEF RunCommit, OverviewTyped, Findings
  <2>4. \A d \in Code : found'[d] <= ran_at'[d]
      BY <1>1, <2>1, <2>2 DEF RunCommit, OverviewTyped
  <2>5. QED
      BY <1>1, <2>3, <2>4 DEF RunCommit, OverviewTyped
<1>2. ASSUME NEW c \in Code, RunFails(c) PROVE OverviewTyped'
  <2>1. PICK n \in {NoFindings, Partial} : found' = [found EXCEPT ![c] = n]
      BY <1>2 DEF RunFails
  <2>2. ran_at[c] \in Nat /\ n \in Findings /\ n <= ran_at[c]
      BY <2>1 DEF OverviewTyped, NoFindings, Partial, Findings
  <2>3. found' \in [Code -> Findings]
      BY <2>1, <2>2 DEF OverviewTyped
  <2>4. \A d \in Code : found'[d] <= ran_at[d]
      BY <2>1, <2>2 DEF OverviewTyped
  <2>5. QED
      BY <1>2, <2>3, <2>4 DEF RunFails, OverviewTyped
<1>3. CASE DataMoves
    BY <1>3 DEF DataMoves, OverviewTyped
<1>4. CASE ChatCall
    BY <1>4 DEF ChatCall, OverviewTyped, checks
<1>5. CASE RestartSweep
  <2>1. jobs' \in [OverviewJob -> JobRow]
      BY <1>5 DEF RestartSweep, OverviewTyped, JobRow
  <2>2. ai' \in AIState /\ tx' \in [Request -> TxState]
      BY <1>5 DEF RestartSweep, AIState, TxState
  <2>3. QED
      BY <1>5, <2>1, <2>2 DEF RestartSweep, OverviewTyped, checks
<1>6. QED
    BY <1>1, <1>2, <1>3, <1>4, <1>5

\* The buttons: what a handler holds next, and the row that its last step writes.
LEMMA TypedRequest ==
    ASSUME OverviewTyped, Named, NEW p \in Request, RequestStep(p)
    PROVE  OverviewTyped'
<1>1. ASSUME NEW t \in TxState, tx' = [tx EXCEPT ![p] = t],
             UNCHANGED <<checks, ov, ai, spent, batchCalls, torn, broken>>,
             jobs' \in [OverviewJob -> JobRow]
      PROVE  OverviewTyped'
    BY <1>1 DEF OverviewTyped, checks
<1>2. ASSUME NEW j \in OverviewJob, NEW kind \in {"single", "batch"}, NEW c \in Code \cup {0},
             enqueue_overview(j, kind, c)
      PROVE  jobs' \in [OverviewJob -> JobRow]
    BY <1>2 DEF enqueue_overview, OverviewTyped, JobRow
<1>3. ASSUME NEW c \in Code, PressRead(p, c) PROVE OverviewTyped'
  <2>1. [at |-> "press", code |-> c, isNew |-> ov[c] = NoOverview] \in TxState
      BY DEF TxState, Press
  <2>2. QED
      BY <1>1, <1>3, <2>1 DEF PressRead, OverviewTyped
<1>4. CASE PressEnqueue(p)
  <2>1. tx[p] \in Press
      BY <1>4, TxKinds DEF PressEnqueue
  <2>2. PICK j \in OverviewJob :
          /\ enqueue_overview(j, "single", tx[p].code)
          /\ tx' = [tx EXCEPT ![p] = [at |-> "queued", code |-> tx[p].code,
                                      isNew |-> tx[p].isNew, job |-> j]]
      BY <1>4 DEF PressEnqueue
  <2>3. [at |-> "queued", code |-> tx[p].code, isNew |-> tx[p].isNew, job |-> j] \in TxState
      BY <2>1 DEF TxState, Press, PressQueued
  <2>4. jobs' \in [OverviewJob -> JobRow]
      BY <1>2, <2>1, <2>2 DEF Press
  <2>5. QED
      BY <1>1, <1>4, <2>2, <2>3, <2>4 DEF PressEnqueue
<1>5. CASE PressStats(p)
  <2>1. tx[p] \in PressQueued
      BY <1>5, TxKinds DEF PressStats
  <2>2. [at |-> "mark", code |-> tx[p].code, isNew |-> tx[p].isNew, job |-> tx[p].job,
         table |-> found[tx[p].code]] \in TxState
      BY <2>1 DEF TxState, PressQueued, PressMarking, OverviewTyped
  <2>3. QED
      BY <1>1, <1>5, <2>2 DEF PressStats, OverviewTyped
<1>6. CASE PressMark(p)
  <2> DEFINE t == tx[p]
             line == IF t.isNew
                    THEN [status |-> "running", job |-> t.job, text |-> NoFindings,
                          table |-> t.table, run |-> 0, ver |-> 0]
                    ELSE [ov[t.code] EXCEPT !.status = "running", !.job = t.job,
                                            !.table = t.table]
  <2>1. t \in PressMarking
      BY <1>6, TxKinds DEF PressMark
  <2>2. ov' = [ov EXCEPT ![t.code] = line]
      BY <1>6, <2>1 DEF PressMark, PressMarking, OverviewTyped
  <2>3. t.isNew \/ ov[t.code] # NoOverview => line \in Row
    <3>1. /\ t.code \in Code /\ t.job \in OverviewJob \cup {NoOverviewJob}
          /\ t.table \in Nat \cup {Partial}
        BY <2>1 DEF PressMarking, Findings
    <3>2. ASSUME t.isNew PROVE line \in Row
        BY <3>1, <3>2 DEF Row, NoFindings
    <3>3. ASSUME ~t.isNew, ov[t.code] # NoOverview PROVE line \in Row
      <4>1. ov[t.code] \in Row
          BY <3>1, <3>3 DEF OverviewTyped
      <4>2. QED
          BY <3>1, <3>3, <4>1 DEF Row
    <3>4. QED
        BY <3>2, <3>3
  <2>4. t.isNew \/ ov[t.code] # NoOverview
      BY <1>6, <2>1 DEF PressMark, PressMarking, Named
  <2>5. Idle \in TxState
      BY DEF TxState
  <2> HIDE DEF line
  <2>6. ov' \in [Code -> Row \cup {NoOverview}]
      BY <2>1, <2>2, <2>3, <2>4 DEF OverviewTyped, PressMarking
  <2>7. tx' = [tx EXCEPT ![p] = Idle]
        /\ UNCHANGED <<checks, jobs, ai, spent, batchCalls, torn, broken>>
      BY <1>6 DEF PressMark
  <2>8. QED
      BY <2>5, <2>6, <2>7 DEF OverviewTyped, checks
<1>7. CASE PressAborts(p) \/ BatchRead(p)
  <2>1. Idle \in TxState /\ [at |-> "batch"] \in TxState
      BY DEF TxState
  <2>2. QED
      BY <1>1, <1>7, <2>1 DEF PressAborts, BatchRead, OverviewTyped
<1>8. CASE BatchEnqueue(p)
  <2>1. Idle \in TxState
      BY DEF TxState
  <2>2. jobs' \in [OverviewJob -> JobRow]
      BY <1>2, <1>8 DEF BatchEnqueue
  <2>3. QED
      BY <1>1, <1>8, <2>1, <2>2 DEF BatchEnqueue
<1>9. QED
    BY <1>3, <1>4, <1>5, <1>6, <1>7, <1>8 DEF RequestStep

LEMMA TypedWorker ==
    ASSUME OverviewTyped, Named, WorkerStep
    PROVE  OverviewTyped'
<1>1. ASSUME ai' \in AIState,
             UNCHANGED <<checks, jobs, ov, tx, spent, batchCalls, torn, broken>>
      PROVE  OverviewTyped'
    BY <1>1 DEF OverviewTyped, checks
<1>2. CASE ClaimNext
  <2>1. PICK j \in OverviewJob :
          /\ jobs[j].status = "queued"
          /\ jobs' = [jobs EXCEPT ![j].status = "running"]
          /\ ai' = IF jobs[j].kind = "single"
                   THEN [at |-> "stats", job |-> j, targets |-> {jobs[j].code},
                         code |-> jobs[j].code]
                   ELSE [at |-> "plan", job |-> j]
      BY <1>2 DEF ClaimNext
  <2>2. jobs' \in [OverviewJob -> JobRow]
      BY <2>1 DEF OverviewTyped, JobRow
  <2>3. jobs[j].kind = "single" => jobs[j].code \in Code
      BY <2>1 DEF Named
  <2>4. ai' \in AIState
      BY <2>1, <2>3 DEF AIState, Plan, Gen
  <2>5. QED
      BY <1>2, <2>2, <2>4 DEF ClaimNext, OverviewTyped, checks
<1>3. CASE BatchPlan
  <2>1. ai \in Plan
      BY <1>3, AIKinds DEF BatchPlan
  <2>2. checks_needing_overview \in SUBSET Code
      BY DEF checks_needing_overview
  <2>3. [at |-> "next", job |-> ai.job, targets |-> checks_needing_overview] \in AIState
      BY <2>1, <2>2 DEF AIState, Plan, Between
  <2>4. QED
      BY <1>1, <1>3, <2>3 DEF BatchPlan
<1>4. CASE BatchNext
  <2>1. ai \in Between
      BY <1>4, AIKinds DEF BatchNext
  <2>2. ai.targets # {} => First(ai.targets) \in Code
      BY <2>1, FirstIsTarget DEF Between
  <2>3. ai' \in AIState
      BY <1>4, <2>1, <2>2 DEF BatchNext, Finished, AIState, Between, Gen, Finishing
  <2>4. QED
      BY <1>1, <1>4, <2>3 DEF BatchNext
<1>5. CASE ReadStats
  <2>1. ai \in Gen
      BY <1>5, AIKinds DEF ReadStats
  <2>2. found[ai.code] \in Findings /\ ran_at[ai.code] \in Nat
      BY <2>1 DEF Gen, OverviewTyped
  <2>3. ai' \in AIState
      BY <1>5, <2>1, <2>2 DEF ReadStats, AIState, Gen, GenRun
  <2>4. QED
      BY <1>1, <1>5, <2>3 DEF ReadStats
<1>6. CASE ReadRun
  <2>1. ai \in GenRun
      BY <1>6, AIKinds DEF ReadRun
  <2>2. ran_at[ai.code] \in Nat /\ data_version \in Nat
      BY <2>1 DEF GenRun, OverviewTyped
  <2>3. ai' \in AIState
      BY <1>6, <2>1, <2>2 DEF ReadRun, AIState, GenRun, GenCall
  <2>4. QED
      BY <1>1, <1>6, <2>3 DEF ReadRun
<1>7. CASE Answered
  <2>1. ai \in GenCall
      BY <1>7, AIKinds DEF Answered
  <2>2. ov[ai.code] \in Row \cup {NoOverview}
      BY <2>1 DEF GenCall, OverviewTyped
  <2>3. ai' \in AIState
      BY <1>7, <2>1, <2>2 DEF Answered, AIState, GenCall, GenWrite
  <2>4. QED
      BY <1>1, <1>7, <2>3 DEF Answered
<1>8. CASE Write
  <2>1. ai \in GenWrite
      BY <1>8, AIKinds DEF Write
  <2>2. /\ ai.code \in Code /\ ai.run \in Nat /\ ai.ver \in Nat /\ ai.torn \in BOOLEAN
        /\ ai.job \in OverviewJob /\ ai.targets \in SUBSET Code
      BY <2>1 DEF GenWrite
  <2>3. ov[ai.code] \in Row \cup {NoOverview} /\ (ai.seen = NoOverview \/ ov[ai.code] # NoOverview)
      BY <1>8, <2>2 DEF Write, OverviewTyped, Named
  <2>4. Written(ov[ai.code], ai.run, ai.ver) \in Row
      BY <2>1, <2>2, <2>3, WrittenIsRow
  <2>5. ov' = [ov EXCEPT ![ai.code] = Written(ov[ai.code], ai.run, ai.ver)]
      BY <1>8, <2>2 DEF Write, OverviewTyped
  <2>6. ov' \in [Code -> Row \cup {NoOverview}]
      BY <2>2, <2>4, <2>5 DEF OverviewTyped
  <2>7. torn' \in [Code -> BOOLEAN]
      BY <1>8, <2>2 DEF Write, OverviewTyped
  <2>8. ai' \in AIState
      BY <1>8, <2>2 DEF Write, AfterOne, Finished, AIState, Between, Finishing
  <2>9. spent' \in Nat /\ batchCalls' \in Nat
      BY <1>8 DEF Write, OverviewTyped
  <2>10. QED
      BY <1>8, <2>6, <2>7, <2>8, <2>9 DEF Write, OverviewTyped, checks
<1>9. CASE GenFails
  <2>1. ai \in Gen \cup GenRun \cup GenCall \cup GenWrite
      BY <1>9, AIKinds DEF GenFails
  <2>2. ai.code \in Code /\ ai.job \in OverviewJob /\ ai.targets \in SUBSET Code
      BY <2>1 DEF Gen, GenRun, GenCall, GenWrite
  <2>3. ai' \in AIState
      BY <1>9, <2>2 DEF GenFails, Finished, AIState, Between, Finishing
  <2>4. ov' \in [Code -> Row \cup {NoOverview}]
    <3>1. CASE ov' = ov
        BY <3>1 DEF OverviewTyped
    <3>2. CASE ov[ai.code] # NoOverview /\ ov' = [ov EXCEPT ![ai.code].status = "failed"]
      <4>1. ov[ai.code] \in Row
          BY <2>2, <3>2 DEF OverviewTyped
      <4>2. [ov[ai.code] EXCEPT !.status = "failed"] \in Row
          BY <4>1 DEF Row
      <4>3. QED
          BY <2>2, <3>2, <4>2 DEF OverviewTyped
    <3>3. QED
        BY <1>9, <3>1, <3>2 DEF GenFails
  <2>5. QED
      BY <1>9, <2>3, <2>4 DEF GenFails, OverviewTyped, checks
<1>10. CASE EndJob
  <2>1. ai \in Finishing
      BY <1>10, AIKinds DEF EndJob
  <2>2. jobs' \in [OverviewJob -> JobRow]
      BY <1>10, <2>1 DEF EndJob, Finishing, OverviewTyped, JobRow
  <2>3. ai' \in AIState
      BY <1>10 DEF EndJob, AIState
  <2>4. QED
      BY <1>10, <2>2, <2>3 DEF EndJob, OverviewTyped, checks
<1>11. CASE EndRaises
  <2>1. ai' \in AIState
      BY <1>11 DEF EndRaises, AIState
  <2>2. QED
      BY <1>1, <1>11, <2>1 DEF EndRaises
<1>12. QED
    BY <1>2, <1>3, <1>4, <1>5, <1>6, <1>7, <1>8, <1>9, <1>10, <1>11 DEF WorkerStep

LEMMA TypedNext ==
    ASSUME OverviewTyped, Named, [OverviewNext]_overviewVars
    PROVE  OverviewTyped'
<1>1. CASE UNCHANGED overviewVars
    BY <1>1 DEF OverviewTyped, overviewVars
<1>2. CASE OverviewNext
    BY <1>2, TypedAround, TypedRequest, TypedWorker DEF OverviewNext
<1>3. QED
    BY <1>1, <1>2

-----------------------------------------------------------------------------
(* Jobs and the rows that name them                                        *)

\* A job gets its kind and check once; what a step does besides that to a row
\* of jobs is a change of status, and no status becomes "none" again.
JobsKept ==
    \A j \in OverviewJob : jobs[j].status # "none" =>
        jobs'[j].code = jobs[j].code /\ jobs'[j].kind = jobs[j].kind /\ jobs'[j].status # "none"

\* What a new job changes.
LEMMA EnqueueKeepsJobs ==
    ASSUME OverviewTyped, NEW j \in OverviewJob, NEW kind \in {"single", "batch"}, NEW c \in Code \cup {0},
           kind = "single" => c \in Code,
           \A i \in OverviewJob : jobs[i].kind = "single" => jobs[i].code \in Code,
           enqueue_overview(j, kind, c)
    PROVE  /\ JobsKept
           /\ jobs'[j].code = c /\ jobs'[j].kind = kind /\ jobs'[j].status # "none"
           /\ \A i \in OverviewJob : jobs'[i].kind = "single" => jobs'[i].code \in Code
           /\ \A i \in OverviewJob : jobs[i].status = "running" => jobs'[i] = jobs[i]
<1>1. /\ jobs[j].status = "none"
      /\ jobs' = [jobs EXCEPT ![j] = [kind |-> kind, code |-> c, status |-> "queued"]]
    BY DEF enqueue_overview, IsNextJob
<1>2. QED
    BY <1>1 DEF OverviewTyped, JobsKept

\* Where no row of an overview changes, the names hold as long as jobs keep theirs.
LEMMA NamedRows ==
    ASSUME OverviewTyped, Named, JobsKept, UNCHANGED ov
    PROVE  \A c \in Code : ov'[c] # NoOverview /\ ov'[c].status = "running" =>
               /\ ov'[c].job # NoOverviewJob
               /\ jobs'[ov'[c].job].code = c
               /\ jobs'[ov'[c].job].status # "none"
<1>1. SUFFICES ASSUME NEW c \in Code, ov[c] # NoOverview, ov[c].status = "running"
               PROVE  /\ ov[c].job # NoOverviewJob
                      /\ jobs'[ov[c].job].code = c
                      /\ jobs'[ov[c].job].status # "none"
    OBVIOUS
<1>2. ov[c].job # NoOverviewJob /\ jobs[ov[c].job].code = c /\ jobs[ov[c].job].status # "none"
    BY <1>1 DEF Named
<1>3. ov[c].job \in OverviewJob
    BY <1>1, <1>2 DEF OverviewTyped, Row
<1>4. QED
    BY <1>2, <1>3 DEF JobsKept

LEMMA NamedAround ==
    ASSUME OverviewTyped, Named,
           \/ \E c \in Code : RunCommit(c) \/ RunFails(c)
           \/ DataMoves
           \/ ChatCall
           \/ RestartSweep
    PROVE  Named'
<1>1. CASE UNCHANGED <<ov, jobs, ai, tx>>
    BY <1>1 DEF Named
<1>2. CASE RestartSweep
  <2>1. /\ ai' = Idle
        /\ tx' = [p \in Request |-> Idle]
        /\ UNCHANGED ov
        /\ \A j \in OverviewJob : jobs'[j].code = jobs[j].code /\ jobs'[j].kind = jobs[j].kind
        /\ \A j \in OverviewJob : jobs[j].status # "none" => jobs'[j].status # "none"
      BY <1>2 DEF RestartSweep, OverviewTyped, JobRow
  <2>2. JobsKept
      BY <2>1 DEF JobsKept
  <2>3. QED
      BY <2>1, <2>2, NamedRows DEF Named, Idle
<1>3. QED
    BY <1>1, <1>2 DEF RunCommit, RunFails, DataMoves, ChatCall

LEMMA NamedRequest ==
    ASSUME OverviewTyped, Named, NEW p \in Request, RequestStep(p)
    PROVE  Named'
<1>1. ASSUME UNCHANGED <<ov, ai>>, JobsKept,
             \A i \in OverviewJob : jobs[i].status = "running" => jobs'[i] = jobs[i],
             \A i \in OverviewJob : jobs'[i].kind = "single" => jobs'[i].code \in Code,
             NEW t \in TxState, tx' = [tx EXCEPT ![p] = t],
             t.at \in {"queued", "mark"} => jobs'[t.job].code = t.code /\ jobs'[t.job].status # "none",
             t.at \in {"press", "queued", "mark"} /\ ~t.isNew => ov[t.code] # NoOverview
      PROVE  Named'
  <2>1. ai # Idle => jobs'[ai.job].status = "running"
    <3>1. ASSUME ai # Idle PROVE ai.job \in OverviewJob /\ jobs[ai.job].status = "running"
        BY <3>1 DEF OverviewTyped, AIState, Plan, Between, Gen, GenRun, GenCall, GenWrite, Finishing, Named
    <3>2. QED
        BY <1>1, <3>1
  <2>2. ASSUME NEW q \in Request, tx'[q].at \in {"queued", "mark"}
        PROVE  jobs'[tx'[q].job].code = tx'[q].code /\ jobs'[tx'[q].job].status # "none"
    <3>1. CASE q = p
        BY <1>1, <2>2, <3>1 DEF OverviewTyped
    <3>2. CASE q # p
      <4>1. tx'[q] = tx[q]
          BY <1>1, <3>2 DEF OverviewTyped
      <4>2. tx[q].job \in OverviewJob
          BY <2>2, <4>1, TxKinds DEF PressQueued, PressMarking
      <4>3. QED
          BY <1>1, <2>2, <4>1, <4>2 DEF Named, JobsKept
    <3>3. QED
        BY <3>1, <3>2
  <2>3. ASSUME NEW q \in Request, tx'[q].at \in {"press", "queued", "mark"}, ~tx'[q].isNew
        PROVE  ov'[tx'[q].code] # NoOverview
      BY <1>1, <2>3 DEF OverviewTyped, Named
  <2>4. QED
      BY <1>1, <2>1, <2>2, <2>3, NamedRows DEF Named
<1>2. ASSUME UNCHANGED jobs
      PROVE  /\ JobsKept
             /\ \A i \in OverviewJob : jobs[i].status = "running" => jobs'[i] = jobs[i]
             /\ \A i \in OverviewJob : jobs'[i].kind = "single" => jobs'[i].code \in Code
    BY <1>2 DEF JobsKept, Named
<1>3. ASSUME NEW c \in Code, PressRead(p, c) PROVE Named'
  <2> DEFINE t == [at |-> "press", code |-> c, isNew |-> ov[c] = NoOverview]
  <2>1. t \in TxState
      BY DEF TxState, Press
  <2>2. t.at = "press" /\ (~t.isNew => ov[t.code] # NoOverview)
      OBVIOUS
  <2>3. tx' = [tx EXCEPT ![p] = t] /\ UNCHANGED <<jobs, ov, ai>>
      BY <1>3 DEF PressRead
  <2> HIDE DEF t
  <2>4. QED
      BY <1>1, <1>2, <2>1, <2>2, <2>3
<1>4. CASE PressEnqueue(p)
  <2>1. tx[p] \in Press
      BY <1>4, TxKinds DEF PressEnqueue
  <2>2. PICK j \in OverviewJob :
          /\ enqueue_overview(j, "single", tx[p].code)
          /\ tx' = [tx EXCEPT ![p] = [at |-> "queued", code |-> tx[p].code,
                                      isNew |-> tx[p].isNew, job |-> j]]
      BY <1>4 DEF PressEnqueue
  <2> DEFINE t == [at |-> "queued", code |-> tx[p].code, isNew |-> tx[p].isNew, job |-> j]
  <2>3. t \in TxState /\ tx[p].code \in Code
      BY <2>1 DEF TxState, Press, PressQueued
  <2>4. /\ JobsKept
        /\ jobs'[j].code = tx[p].code /\ jobs'[j].status # "none"
        /\ \A i \in OverviewJob : jobs'[i].kind = "single" => jobs'[i].code \in Code
        /\ \A i \in OverviewJob : jobs[i].status = "running" => jobs'[i] = jobs[i]
      BY <2>2, <2>3, EnqueueKeepsJobs DEF Named
  <2>5. ~tx[p].isNew => ov[tx[p].code] # NoOverview
      BY <1>4 DEF PressEnqueue, Named
  <2>6. t.code = tx[p].code /\ t.isNew = tx[p].isNew /\ t.job = j
      OBVIOUS
  <2>7. tx' = [tx EXCEPT ![p] = t] /\ UNCHANGED <<ov, ai>>
      BY <1>4, <2>2 DEF PressEnqueue
  <2> HIDE DEF t
  <2>8. QED
      BY <1>1, <2>3, <2>4, <2>5, <2>6, <2>7
<1>5. CASE PressStats(p)
  <2>1. tx[p] \in PressQueued
      BY <1>5, TxKinds DEF PressStats
  <2> DEFINE t == [at |-> "mark", code |-> tx[p].code, isNew |-> tx[p].isNew,
                   job |-> tx[p].job, table |-> found[tx[p].code]]
  <2>2. t \in TxState
      BY <2>1 DEF TxState, PressQueued, PressMarking, OverviewTyped
  <2>3. /\ jobs[tx[p].job].code = tx[p].code /\ jobs[tx[p].job].status # "none"
        /\ ~tx[p].isNew => ov[tx[p].code] # NoOverview
      BY <1>5 DEF PressStats, Named
  <2>4. t.code = tx[p].code /\ t.isNew = tx[p].isNew /\ t.job = tx[p].job
      OBVIOUS
  <2>5. tx' = [tx EXCEPT ![p] = t] /\ UNCHANGED <<jobs, ov, ai>>
      BY <1>5 DEF PressStats
  <2> HIDE DEF t
  <2>6. QED
      BY <1>1, <1>2, <2>2, <2>3, <2>4, <2>5
<1>6. CASE PressMark(p)
  <2> DEFINE t == tx[p]
             line == IF t.isNew
                    THEN [status |-> "running", job |-> t.job, text |-> NoFindings,
                          table |-> t.table, run |-> 0, ver |-> 0]
                    ELSE [ov[t.code] EXCEPT !.status = "running", !.job = t.job,
                                            !.table = t.table]
  <2>1. t \in PressMarking /\ t.at = "mark"
      BY <1>6, TxKinds DEF PressMark
  <2>2. t.code \in Code /\ t.job \in OverviewJob
      BY <2>1 DEF PressMarking
  <2>3. ov' = [ov EXCEPT ![t.code] = line]
      BY <1>6, <2>2 DEF PressMark, OverviewTyped
  <2>4. t.isNew \/ ov[t.code] \in Row
      BY <2>1, <2>2 DEF Named, OverviewTyped
  <2>5. line # NoOverview /\ line.job = t.job
      BY <2>4 DEF Row, NoOverview
  <2>6. jobs[t.job].code = t.code /\ jobs[t.job].status # "none"
      BY <2>1 DEF Named
  <2>7. tx' = [tx EXCEPT ![p] = Idle] /\ UNCHANGED <<jobs, ai>>
      BY <1>6 DEF PressMark
  <2> HIDE DEF line, t
  <2>8. \A c \in Code : ov'[c] # NoOverview /\ ov'[c].status = "running" =>
            /\ ov'[c].job # NoOverviewJob
            /\ jobs'[ov'[c].job].code = c
            /\ jobs'[ov'[c].job].status # "none"
    <3>1. t.job # NoOverviewJob
        BY <2>2 DEF OverviewJob, NoOverviewJob
    <3>2. QED
        BY <2>2, <2>3, <2>5, <2>6, <2>7, <3>1 DEF Named, OverviewTyped
  <2>9. \A c \in Code : ov[c] # NoOverview => ov'[c] # NoOverview
      BY <2>2, <2>3, <2>5 DEF OverviewTyped
  <2>10. \A q \in Request : tx'[q] = tx[q] \/ tx'[q] = Idle
      BY <2>7 DEF OverviewTyped
  <2>11. \A q \in Request : tx[q].at \in {"press", "queued", "mark"} => tx[q].code \in Code
      BY TxKinds DEF Press, PressQueued, PressMarking
  <2>12. ai.at = "write" => ai.code \in Code
      BY AIKinds DEF GenWrite
  <2>13. QED
      BY <2>7, <2>8, <2>9, <2>10, <2>11, <2>12 DEF Named, Idle
<1>7. CASE PressAborts(p) \/ BatchRead(p)
  <2>1. PICK t \in {Idle, [at |-> "batch"]} : tx' = [tx EXCEPT ![p] = t]
      BY <1>7 DEF PressAborts, BatchRead
  <2>2. t \in TxState /\ t.at \in {"idle", "batch"}
      BY <2>1 DEF TxState, Idle
  <2>3. UNCHANGED <<jobs, ov, ai>>
      BY <1>7 DEF PressAborts, BatchRead
  <2>4. QED
      BY <1>1, <1>2, <2>1, <2>2, <2>3
<1>8. CASE BatchEnqueue(p)
  <2>1. PICK j \in OverviewJob : enqueue_overview(j, "batch", 0)
      BY <1>8 DEF BatchEnqueue
  <2>2. /\ JobsKept
        /\ \A i \in OverviewJob : jobs'[i].kind = "single" => jobs'[i].code \in Code
        /\ \A i \in OverviewJob : jobs[i].status = "running" => jobs'[i] = jobs[i]
      BY <2>1, EnqueueKeepsJobs DEF Named
  <2>3. Idle \in TxState /\ Idle.at = "idle"
      BY DEF TxState, Idle
  <2>4. tx' = [tx EXCEPT ![p] = Idle] /\ UNCHANGED <<ov, ai>>
      BY <1>8 DEF BatchEnqueue
  <2>5. QED
      BY <1>1, <2>2, <2>3, <2>4
<1>9. QED
    BY <1>3, <1>4, <1>5, <1>6, <1>7, <1>8 DEF RequestStep

LEMMA NamedWorker ==
    ASSUME OverviewTyped, Named, WorkerStep
    PROVE  Named'
<1>1. ASSUME UNCHANGED <<ov, tx>>, JobsKept,
             \A j \in OverviewJob : jobs'[j].kind = "single" => jobs'[j].code \in Code,
             ai' # Idle => jobs'[ai'.job].status = "running",
             ai'.at = "write" /\ ai'.seen # NoOverview => ov[ai'.code] # NoOverview
      PROVE  Named'
  <2>1. ASSUME NEW p \in Request, tx[p].at \in {"queued", "mark"}
        PROVE  jobs'[tx[p].job].code = tx[p].code /\ jobs'[tx[p].job].status # "none"
    <3>1. tx[p].job \in OverviewJob
        BY <2>1, TxKinds DEF PressQueued, PressMarking
    <3>2. QED
        BY <1>1, <2>1, <3>1 DEF Named, JobsKept
  <2>2. QED
      BY <1>1, <2>1, NamedRows DEF Named
<1>2. ASSUME UNCHANGED <<jobs, tx>>,
             \A c \in Code : ov'[c] # NoOverview /\ ov'[c].status = "running" =>
                ov[c] # NoOverview /\ ov[c].status = "running" /\ ov'[c].job = ov[c].job,
             \A c \in Code : ov[c] # NoOverview => ov'[c] # NoOverview,
             ai' # Idle => jobs[ai'.job].status = "running",
             ai'.at # "write"
      PROVE  Named'
  <2>1. \A q \in Request : tx[q].at \in {"press", "queued", "mark"} => tx[q].code \in Code
      BY TxKinds DEF Press, PressQueued, PressMarking
  <2>2. QED
      BY <1>2, <2>1 DEF Named
<1>3. ASSUME UNCHANGED jobs
      PROVE  /\ JobsKept
             /\ \A i \in OverviewJob : jobs'[i].kind = "single" => jobs'[i].code \in Code
    BY <1>3 DEF JobsKept, Named
<1>4. CASE ClaimNext
  <2>1. PICK j \in OverviewJob :
          /\ jobs[j].status = "queued"
          /\ jobs' = [jobs EXCEPT ![j].status = "running"]
          /\ ai' = IF jobs[j].kind = "single"
                   THEN [at |-> "stats", job |-> j, targets |-> {jobs[j].code},
                         code |-> jobs[j].code]
                   ELSE [at |-> "plan", job |-> j]
      BY <1>4 DEF ClaimNext
  <2>2. ai'.job = j /\ ai'.at # "write"
      BY <2>1
  <2>3. /\ jobs'[j].status = "running"
        /\ \A i \in OverviewJob : jobs'[i].kind = jobs[i].kind /\ jobs'[i].code = jobs[i].code
        /\ \A i \in OverviewJob : i # j => jobs'[i] = jobs[i]
      BY <2>1 DEF OverviewTyped, JobRow
  <2>4. JobsKept /\ \A i \in OverviewJob : jobs'[i].kind = "single" => jobs'[i].code \in Code
      BY <2>3 DEF JobsKept, Named
  <2>5. UNCHANGED <<ov, tx>>
      BY <1>4 DEF ClaimNext
  <2>6. QED
      BY <1>1, <2>2, <2>3, <2>4, <2>5
<1>5. CASE BatchPlan \/ BatchNext \/ ReadStats \/ ReadRun
  <2>1. ai # Idle /\ ai'.job = ai.job /\ ai'.at # "write"
      BY <1>5 DEF BatchPlan, BatchNext, ReadStats, ReadRun, Finished, Idle
  <2>2. UNCHANGED <<ov, tx, jobs>>
      BY <1>5 DEF BatchPlan, BatchNext, ReadStats, ReadRun
  <2>3. QED
      BY <1>1, <1>3, <2>1, <2>2 DEF Named
<1>6. CASE Answered
  <2>1. ai # Idle /\ ai'.job = ai.job /\ ai'.seen = ov[ai.code] /\ ai'.code = ai.code
      BY <1>6 DEF Answered, Idle
  <2>2. UNCHANGED <<ov, tx, jobs>>
      BY <1>6 DEF Answered
  <2>3. QED
      BY <1>1, <1>3, <2>1, <2>2 DEF Named
<1>7. CASE Write
  <2>1. ai \in GenWrite /\ ai # Idle
      BY <1>7, AIKinds DEF Write, Idle
  <2>2. ai.code \in Code /\ ai.run \in Nat /\ ai.ver \in Nat /\ ai.seen \in Row \cup {NoOverview}
      BY <2>1 DEF GenWrite
  <2>3. ai.seen = NoOverview \/ ov[ai.code] \in Row
      BY <1>7, <2>2 DEF Write, Named, OverviewTyped
  <2> DEFINE w == Written(ov[ai.code], ai.run, ai.ver)
  <2>4. ov' = [ov EXCEPT ![ai.code] = w]
      BY <1>7, <2>2 DEF Write, OverviewTyped
  <2>5. w # NoOverview
      BY <2>3, RowHasStatus DEF Written, Row, NoOverview
  <2>6. w.status = "running" => /\ ov[ai.code] # NoOverview
                                /\ ov[ai.code].status = "running"
                                /\ w.job = ov[ai.code].job
      BY <2>3, RowHasStatus DEF Written, Row
  <2> HIDE DEF w
  <2>7. /\ \A c \in Code : ov'[c] # NoOverview /\ ov'[c].status = "running" =>
              ov[c] # NoOverview /\ ov[c].status = "running" /\ ov'[c].job = ov[c].job
        /\ \A c \in Code : ov[c] # NoOverview => ov'[c] # NoOverview
      BY <2>2, <2>4, <2>5, <2>6 DEF OverviewTyped
  <2>8. ai'.job = ai.job /\ ai'.at # "write" /\ UNCHANGED <<jobs, tx>>
      BY <1>7 DEF Write, AfterOne, Finished
  <2>9. QED
      BY <1>2, <2>1, <2>7, <2>8 DEF Named
<1>8. CASE GenFails
  <2>1. ai \in Gen \cup GenRun \cup GenCall \cup GenWrite
      BY <1>8, AIKinds DEF GenFails
  <2>2. ai.code \in Code /\ ai # Idle
      BY <2>1 DEF Gen, GenRun, GenCall, GenWrite, Idle
  <2>3. ai'.job = ai.job /\ ai'.at # "write" /\ UNCHANGED <<jobs, tx>>
      BY <1>8 DEF GenFails, Finished
  <2>4. /\ \A c \in Code : ov'[c] # NoOverview /\ ov'[c].status = "running" =>
              ov[c] # NoOverview /\ ov[c].status = "running" /\ ov'[c].job = ov[c].job
        /\ \A c \in Code : ov[c] # NoOverview => ov'[c] # NoOverview
    <3>1. CASE ov' = ov
        BY <3>1
    <3>2. CASE ov[ai.code] # NoOverview /\ ov' = [ov EXCEPT ![ai.code].status = "failed"]
      <4>1. ov[ai.code] \in Row
          BY <2>2, <3>2 DEF OverviewTyped
      <4>2. [ov[ai.code] EXCEPT !.status = "failed"].status = "failed"
            /\ [ov[ai.code] EXCEPT !.status = "failed"] \in Row
          BY <4>1 DEF Row
      <4>3. QED
          BY <2>2, <3>2, <4>2, RowHasStatus DEF OverviewTyped
    <3>3. QED
        BY <1>8, <3>1, <3>2 DEF GenFails
  <2>5. QED
      BY <1>2, <2>2, <2>3, <2>4 DEF Named
<1>9. CASE EndJob
  <2>1. ai \in Finishing /\ ai # Idle
      BY <1>9, AIKinds DEF EndJob, Idle
  <2>2. ai.job \in OverviewJob /\ ai.out \in {"done", "failed"}
      BY <2>1 DEF Finishing
  <2>3. jobs' = [jobs EXCEPT ![ai.job].status = ai.out]
      BY <1>9 DEF EndJob
  <2>4. /\ \A i \in OverviewJob : jobs'[i].kind = jobs[i].kind /\ jobs'[i].code = jobs[i].code
        /\ \A i \in OverviewJob : jobs[i].status # "none" => jobs'[i].status # "none"
      BY <2>2, <2>3 DEF OverviewTyped, JobRow
  <2>5. JobsKept /\ \A i \in OverviewJob : jobs'[i].kind = "single" => jobs'[i].code \in Code
      BY <2>4 DEF JobsKept, Named
  <2>6. ai' = Idle /\ ai'.at # "write" /\ UNCHANGED <<ov, tx>>
      BY <1>9 DEF EndJob, Idle
  <2>7. QED
      BY <1>1, <2>5, <2>6
<1>10. CASE EndRaises
  <2>1. ai' = Idle /\ ai'.at # "write" /\ UNCHANGED <<ov, tx, jobs>>
      BY <1>10 DEF EndRaises, Idle
  <2>2. QED
      BY <1>1, <1>3, <2>1
<1>11. QED
    BY <1>4, <1>5, <1>6, <1>7, <1>8, <1>9, <1>10 DEF WorkerStep

LEMMA NamedNext ==
    ASSUME OverviewTyped, Named, [OverviewNext]_overviewVars
    PROVE  Named'
<1>1. CASE UNCHANGED overviewVars
    BY <1>1 DEF Named, overviewVars
<1>2. CASE OverviewNext
    BY <1>2, NamedAround, NamedRequest, NamedWorker DEF OverviewNext
<1>3. QED
    BY <1>1, <1>2

-----------------------------------------------------------------------------
(* The budget of batches                                                   *)

Writing == {"stats", "run", "call", "write"}

LEMMA BudgetedNext ==
    ASSUME OverviewTyped, Named, Budgeted, [OverviewNext]_overviewVars
    PROVE  Budgeted'
<1>1. spent \in Nat /\ batchCalls \in Nat /\ Budget \in Nat
    BY OverviewAssumption DEF OverviewTyped
<1>2. ASSUME batchCalls' = batchCalls, spent' \in {spent, spent + 1}, ai'.at \notin Writing
      PROVE  Budgeted'
    BY <1>1, <1>2 DEF Budgeted, Writing
<1>3. ASSUME batchCalls' = batchCalls, spent' \in {spent, spent + 1}, UNCHANGED ai,
             \A j \in OverviewJob : jobs[j].status = "running" => jobs'[j] = jobs[j]
      PROVE  Budgeted'
  <2>1. ASSUME ai.at \in Writing
        PROVE  ai.job \in OverviewJob /\ jobs[ai.job].status = "running"
    <3>1. ai \in Gen \cup GenRun \cup GenCall \cup GenWrite /\ ai # Idle
        BY <2>1, AIKinds DEF Writing, Idle
    <3>2. QED
        BY <3>1 DEF Gen, GenRun, GenCall, GenWrite, Named
  <2>2. QED
      BY <1>1, <1>3, <2>1 DEF Budgeted, Writing
<1>4. ASSUME \/ UNCHANGED overviewVars
             \/ \E c \in Code : RunCommit(c) \/ RunFails(c)
             \/ DataMoves
             \/ ChatCall
      PROVE  Budgeted'
  <2>1. batchCalls' = batchCalls /\ spent' \in {spent, spent + 1} /\ UNCHANGED <<ai, jobs>>
      BY <1>4 DEF overviewVars, RunCommit, RunFails, DataMoves, ChatCall
  <2>2. QED
      BY <1>3, <2>1
<1>5. ASSUME NEW p \in Request, RequestStep(p) PROVE Budgeted'
  <2>1. UNCHANGED <<spent, batchCalls, ai>>
      BY <1>5 DEF RequestStep, PressRead, PressEnqueue, PressStats, PressMark, PressAborts,
                  BatchRead, BatchEnqueue
  <2>2. \/ UNCHANGED jobs
        \/ \E j \in OverviewJob, kind \in {"single", "batch"}, c \in Code \cup {0} :
              enqueue_overview(j, kind, c)
    <3>1. CASE PressEnqueue(p)
        BY <3>1, TxKinds DEF PressEnqueue, Press
    <3>2. CASE BatchEnqueue(p)
        BY <3>2 DEF BatchEnqueue
    <3>3. QED
        BY <1>5, <3>1, <3>2 DEF RequestStep, PressRead, PressStats, PressMark, PressAborts, BatchRead
  <2>3. \A j \in OverviewJob : jobs[j].status = "running" => jobs'[j] = jobs[j]
      BY <2>2 DEF enqueue_overview, IsNextJob, OverviewTyped
  <2>4. QED
      BY <1>3, <2>1, <2>3
<1>6. CASE WorkerStep
  <2>1. CASE ClaimNext
    <3>1. PICK j \in OverviewJob :
            /\ jobs' = [jobs EXCEPT ![j].status = "running"]
            /\ ai' = IF jobs[j].kind = "single"
                     THEN [at |-> "stats", job |-> j, targets |-> {jobs[j].code},
                           code |-> jobs[j].code]
                     ELSE [at |-> "plan", job |-> j]
        BY <2>1 DEF ClaimNext
    <3>2. jobs'[j].kind = jobs[j].kind
        BY <3>1 DEF OverviewTyped, JobRow
    <3>3. ai'.job = j /\ (ai'.at \in Writing => jobs'[j].kind = "single")
        BY <3>1, <3>2 DEF Writing
    <3>4. UNCHANGED <<spent, batchCalls>>
        BY <2>1 DEF ClaimNext
    <3>5. QED
        BY <3>3, <3>4 DEF Budgeted, Writing
  <2>2. CASE BatchPlan \/ EndJob \/ EndRaises
      BY <1>2, <2>2 DEF BatchPlan, EndJob, EndRaises, Writing, Idle
  <2>3. CASE BatchNext
    <3>1. UNCHANGED <<spent, batchCalls, jobs>> /\ (ai'.at \in Writing => ~(spent >= Budget))
        BY <2>3 DEF BatchNext, Finished, Writing
    <3>2. QED
        BY <1>1, <3>1 DEF Budgeted, Writing
  <2>4. CASE ReadStats \/ ReadRun \/ Answered
    <3>1. ai.at \in Writing /\ ai'.job = ai.job /\ UNCHANGED <<spent, batchCalls, jobs>>
        BY <2>4 DEF ReadStats, ReadRun, Answered, Writing
    <3>2. QED
        BY <3>1 DEF Budgeted, Writing
  <2>5. CASE Write
    <3>1. /\ ai.at = "write" /\ ai'.at \notin Writing /\ spent' = spent + 1
          /\ batchCalls' = batchCalls + (IF jobs[ai.job].kind = "batch" THEN 1 ELSE 0)
        BY <2>5 DEF Write, AfterOne, Finished, Writing
    <3>2. QED
        BY <1>1, <3>1 DEF Budgeted, Writing
  <2>6. CASE GenFails
      BY <1>2, <2>6 DEF GenFails, Finished, Writing
  <2>7. QED
      BY <1>6, <2>1, <2>2, <2>3, <2>4, <2>5, <2>6 DEF WorkerStep
<1>7. CASE RestartSweep
    BY <1>2, <1>7 DEF RestartSweep, Writing, Idle
<1>8. QED
    BY <1>4, <1>5, <1>6, <1>7 DEF OverviewNext

-----------------------------------------------------------------------------
(* What an overview is based on                                            *)

\* Of the findings f numbered by run r of check c, with t saying that they were
\* put together from two states: if the check has not run since and its last run
\* was not broken off, they are those it has.
Holds(c, f, r, t) ==
    /\ r <= ran_at[c]
    /\ r = ran_at[c] /\ ~broken[c] /\ ~t => f = found[c]

AIBased ==
    /\ ai.at = "run" => Holds(ai.code, ai.table, ai.seenRun, FALSE)
    /\ ai.at \in {"call", "write"} =>
          Holds(ai.code, ai.table, ai.run, ai.torn) /\ ai.ver <= data_version

RowBased(c) ==
    ov[c] # NoOverview =>
        /\ ov[c].run <= ran_at[c] /\ ov[c].ver <= data_version
        /\ ov[c].status = "done" =>
              Holds(c, ov[c].text, ov[c].run, torn[c]) /\ Holds(c, ov[c].table, ov[c].run, torn[c])

Based == AIBased /\ \A c \in Code : RowBased(c)

LEMMA BasedInit ==
    ASSUME OverviewInit
    PROVE  Based
BY DEF OverviewInit, Based, AIBased, RowBased, Idle

\* A run of a check raises its number, or leaves it broken.
LEMMA HoldsKept ==
    ASSUME OverviewTyped, NEW d \in Code,
           \/ \E c \in Code : RunCommit(c) \/ RunFails(c)
           \/ UNCHANGED <<found, ran_at, broken>>,
           NEW f, NEW r \in Nat, NEW t \in BOOLEAN, Holds(d, f, r, t)
    PROVE  Holds(d, f, r, t)'
<1>1. ASSUME NEW c \in Code, RunCommit(c) PROVE Holds(d, f, r, t)'
  <2>1. ran_at' = [ran_at EXCEPT ![c] = ran_at[c] + 1] /\ ran_at[d] \in Nat
      BY <1>1 DEF RunCommit, OverviewTyped
  <2>2. CASE c = d
    <3>1. r < ran_at'[d]
        BY <2>1, <2>2 DEF Holds, OverviewTyped
    <3>2. QED
        BY <3>1, <2>1, <2>2 DEF Holds, OverviewTyped
  <2>3. CASE c # d
    <3>1. ran_at'[d] = ran_at[d] /\ found'[d] = found[d] /\ broken'[d] = broken[d]
        BY <1>1, <2>3 DEF RunCommit, OverviewTyped
    <3>2. QED
        BY <3>1 DEF Holds
  <2>4. QED
      BY <2>2, <2>3
<1>2. ASSUME NEW c \in Code, RunFails(c) PROVE Holds(d, f, r, t)'
  <2>1. ran_at' = ran_at
      BY <1>2 DEF RunFails
  <2>2. CASE c = d
    <3>1. broken'[d]
        BY <1>2, <2>2 DEF RunFails, OverviewTyped
    <3>2. QED
        BY <2>1, <3>1 DEF Holds
  <2>3. CASE c # d
    <3>1. found'[d] = found[d] /\ broken'[d] = broken[d]
        BY <1>2, <2>3 DEF RunFails, OverviewTyped
    <3>2. QED
        BY <2>1, <3>1 DEF Holds
  <2>4. QED
      BY <2>2, <2>3
<1>3. CASE UNCHANGED <<found, ran_at, broken>>
    BY <1>3 DEF Holds
<1>4. QED
    BY <1>1, <1>2, <1>3

\* Steps that leave the row alone.
LEMMA RowKept ==
    ASSUME OverviewTyped, NEW d \in Code, RowBased(d), ov'[d] = ov[d], torn'[d] = torn[d],
           \/ \E c \in Code : RunCommit(c) \/ RunFails(c)
           \/ UNCHANGED <<found, ran_at, broken>>,
           data_version' \in {data_version, data_version + 1}
    PROVE  RowBased(d)'
<1>1. SUFFICES ASSUME ov[d] # NoOverview PROVE RowBased(d)'
    BY DEF RowBased
<1>2. ov[d] \in Row
    BY <1>1 DEF OverviewTyped
<1>3. ov[d].run \in Nat /\ ov[d].ver \in Nat /\ torn[d] \in BOOLEAN /\ data_version \in Nat
    BY <1>2 DEF OverviewTyped, Row
<1>4. ov[d].run <= ran_at'[d]
  <2>1. Holds(d, NoFindings, ov[d].run, TRUE)
      BY <1>1 DEF RowBased, Holds
  <2>2. Holds(d, NoFindings, ov[d].run, TRUE)'
      BY <1>3, <2>1, HoldsKept
  <2>3. QED
      BY <2>2 DEF Holds
<1>5. ov[d].ver <= data_version'
    BY <1>1, <1>3 DEF RowBased
<1>6. ASSUME ov[d].status = "done"
      PROVE  /\ Holds(d, ov[d].text, ov[d].run, torn[d])'
             /\ Holds(d, ov[d].table, ov[d].run, torn[d])'
  <2> DEFINE text == ov[d].text  table == ov[d].table  run == ov[d].run  t == torn[d]
  <2>1. Holds(d, text, run, t) /\ Holds(d, table, run, t)
      BY <1>1, <1>6 DEF RowBased
  <2>2. text' = text /\ table' = table /\ run' = run /\ t' = t
      OBVIOUS
  <2>3. run \in Nat /\ t \in BOOLEAN
      BY <1>3
  <2> HIDE DEF text, table, run, t
  <2>4. ASSUME NEW f, Holds(d, f, run, t)
        PROVE  run <= ran_at'[d] /\ (run = ran_at'[d] /\ ~broken'[d] /\ ~t => f = found'[d])
    <3>1. PICK r \in Nat : r = run
        BY <2>3
    <3>2. PICK b \in BOOLEAN : b = t
        BY <2>3
    <3>3. Holds(d, f, r, b)
        BY <2>4, <3>1, <3>2
    <3>4. r <= ran_at'[d] /\ (r = ran_at'[d] /\ ~broken'[d] /\ ~b => f = found'[d])
        BY <3>3, HoldsKept DEF Holds
    <3>5. QED
        BY <3>1, <3>2, <3>4
  <2>5. QED
      BY <2>1, <2>2, <2>4 DEF Holds, text, table, run, t
<1>7. QED
    BY <1>4, <1>5, <1>6 DEF RowBased

\* Steps around a worker that holds on to what it has read.
LEMMA AIKept ==
    ASSUME OverviewTyped, AIBased, UNCHANGED ai,
           \/ \E c \in Code : RunCommit(c) \/ RunFails(c)
           \/ UNCHANGED <<found, ran_at, broken>>,
           data_version' \in {data_version, data_version + 1}
    PROVE  AIBased'
<1>1. CASE ai.at = "run"
  <2>1. ai \in GenRun
      BY <1>1, AIKinds
  <2>2. PICK d \in Code : d = ai.code
      BY <2>1 DEF GenRun
  <2>3. PICK r \in Nat : r = ai.seenRun
      BY <2>1 DEF GenRun
  <2>4. PICK f \in Findings : f = ai.table
      BY <2>1 DEF GenRun
  <2>5. Holds(d, f, r, FALSE)
      BY <1>1, <2>2, <2>3, <2>4 DEF AIBased
  <2>6. Holds(d, f, r, FALSE)'
      BY <2>5, HoldsKept
  <2>7. d = ai'.code /\ r = ai'.seenRun /\ f = ai'.table /\ ai'.at = "run"
      BY <1>1, <2>2, <2>3, <2>4
  <2>8. QED
      BY <2>6, <2>7 DEF AIBased, Holds
<1>2. CASE ai.at \in {"call", "write"}
  <2>1. ai \in GenCall \cup GenWrite
      BY <1>2, AIKinds
  <2>2. PICK d \in Code : d = ai.code
      BY <2>1 DEF GenCall, GenWrite
  <2>3. PICK r \in Nat : r = ai.run
      BY <2>1 DEF GenCall, GenWrite
  <2>4. PICK f \in Findings : f = ai.table
      BY <2>1 DEF GenCall, GenWrite
  <2>5. PICK t \in BOOLEAN : t = ai.torn
      BY <2>1 DEF GenCall, GenWrite
  <2>6. Holds(d, f, r, t) /\ ai.ver <= data_version
      BY <1>2, <2>2, <2>3, <2>4, <2>5 DEF AIBased
  <2>7. Holds(d, f, r, t)'
      BY <2>6, HoldsKept
  <2>8. ai.ver <= data_version'
    <3>1. ai.ver \in Nat /\ data_version \in Nat
        BY <2>1 DEF GenCall, GenWrite, OverviewTyped
    <3>2. QED
        BY <2>6, <3>1
  <2>9. d = ai'.code /\ r = ai'.run /\ f = ai'.table /\ t = ai'.torn /\ ai'.ver = ai.ver /\ ai'.at # "run"
      BY <1>2, <2>2, <2>3, <2>4, <2>5
  <2>10. QED
      BY <2>7, <2>8, <2>9 DEF AIBased, Holds
<1>3. CASE ai.at \notin {"run", "call", "write"}
    BY <1>3 DEF AIBased
<1>4. QED
    BY <1>1, <1>2, <1>3

LEMMA BasedRequest ==
    ASSUME OverviewTyped, Named, Based, NEW p \in Request, RequestStep(p)
    PROVE  Based'
<1>1. UNCHANGED <<checks, ai, torn, broken>>
    BY DEF RequestStep, PressRead, PressEnqueue, PressStats, PressMark, PressAborts, BatchRead,
           BatchEnqueue
<1>2. AIBased'
    BY <1>1, AIKept DEF Based, checks
<1>3. ASSUME NEW c \in Code PROVE RowBased(c)'
  <2>1. CASE ov'[c] = ov[c]
      BY <1>1, <2>1, RowKept DEF Based, checks
  <2>2. CASE ov'[c] # ov[c]
    <3>1. CASE PressMark(p)
      <4> DEFINE t == tx[p]
      <4>1. t \in PressMarking
          BY <3>1, TxKinds DEF PressMark
      <4>2. t.code = c
          BY <2>2, <3>1, <4>1 DEF PressMark, PressMarking, OverviewTyped
      <4>3. t.isNew \/ ov[c] \in Row
          BY <3>1, <4>2 DEF PressMark, Named, OverviewTyped
      <4>4. ov'[c] = IF t.isNew
                     THEN [status |-> "running", job |-> t.job, text |-> NoFindings,
                           table |-> t.table, run |-> 0, ver |-> 0]
                     ELSE [ov[c] EXCEPT !.status = "running", !.job = t.job, !.table = t.table]
          BY <3>1, <4>2 DEF PressMark, OverviewTyped
      <4> HIDE DEF t
      <4>5. ran_at[c] \in Nat /\ data_version \in Nat /\ ran_at'[c] = ran_at[c] /\ data_version' = data_version
          BY <1>1 DEF OverviewTyped, checks
      <4>6. CASE t.isNew
          BY <4>4, <4>5, <4>6 DEF RowBased
      <4>7. CASE ~t.isNew
        <5>1. ov[c] \in Row /\ ov[c] # NoOverview
            BY <4>3, <4>7, RowHasStatus
        <5>2. ov'[c].status = "running" /\ ov'[c].run = ov[c].run /\ ov'[c].ver = ov[c].ver
            BY <4>4, <4>7, <5>1 DEF Row
        <5>3. QED
            BY <4>5, <5>1, <5>2 DEF RowBased, Based
      <4>8. QED
          BY <4>6, <4>7
    <3>2. CASE ~PressMark(p)
        BY <2>2, <3>2 DEF RequestStep, PressRead, PressEnqueue, PressStats, PressAborts, BatchRead,
                          BatchEnqueue
    <3>3. QED
        BY <3>1, <3>2
  <2>3. QED
      BY <2>1, <2>2
<1>4. QED
    BY <1>2, <1>3 DEF Based

LEMMA BasedWorker ==
    ASSUME OverviewTyped, Named, Based, WorkerStep
    PROVE  Based'
<1>1. UNCHANGED <<checks, broken>>
    BY DEF WorkerStep, ClaimNext, BatchPlan, BatchNext, ReadStats, ReadRun, Answered, Write,
           GenFails, EndJob, EndRaises
<1>2. ASSUME NEW c \in Code, ov'[c] = ov[c], torn'[c] = torn[c]
      PROVE  RowBased(c)'
    BY <1>1, <1>2, RowKept DEF Based, checks
<1>3. ASSUME ai'.at \notin {"run", "call", "write"}
      PROVE  AIBased'
    BY <1>3 DEF AIBased
<1>4. CASE ClaimNext \/ BatchPlan \/ BatchNext \/ EndJob \/ EndRaises
  <2>1. ai'.at \notin {"run", "call", "write"} /\ UNCHANGED <<ov, torn>>
      BY <1>4 DEF ClaimNext, BatchPlan, BatchNext, EndJob, EndRaises, Finished, Idle
  <2>2. QED
      BY <1>2, <1>3, <2>1 DEF Based
<1>5. CASE ReadStats
  <2>1. ai \in Gen
      BY <1>5, AIKinds DEF ReadStats
  <2>2. /\ ai' = [at |-> "run", job |-> ai.job, targets |-> ai.targets, code |-> ai.code,
                  table |-> found[ai.code], seenRun |-> ran_at[ai.code]]
        /\ UNCHANGED <<ov, torn>>
      BY <1>5 DEF ReadStats
  <2>3. ran_at[ai.code] \in Nat /\ UNCHANGED <<found, ran_at>>
      BY <1>1, <2>1 DEF Gen, OverviewTyped, checks
  <2>4. AIBased'
      BY <2>2, <2>3 DEF AIBased, Holds
  <2>5. QED
      BY <1>2, <2>2, <2>4 DEF Based
<1>6. CASE ReadRun
  <2>1. ai \in GenRun
      BY <1>6, AIKinds DEF ReadRun
  <2>2. /\ ai' = [at |-> "call", job |-> ai.job, targets |-> ai.targets, code |-> ai.code,
                  table |-> ai.table, run |-> ran_at[ai.code], ver |-> data_version,
                  torn |-> ran_at[ai.code] # ai.seenRun]
        /\ UNCHANGED <<ov, torn>>
      BY <1>6 DEF ReadRun
  <2>3. ran_at[ai.code] \in Nat /\ data_version \in Nat /\ UNCHANGED <<found, ran_at, data_version, broken>>
      BY <1>1, <2>1 DEF GenRun, OverviewTyped, checks
  <2>4. Holds(ai.code, ai.table, ai.seenRun, FALSE)
      BY <1>6 DEF ReadRun, Based, AIBased
  <2>5. /\ ai'.at = "call" /\ ai'.code = ai.code /\ ai'.table = ai.table
        /\ ai'.run = ran_at[ai.code] /\ ai'.ver = data_version
        /\ ~ai'.torn => ran_at[ai.code] = ai.seenRun
      BY <2>2
  <2>6. Holds(ai.code, ai.table, ai.run, ai.torn)'
      BY <2>3, <2>4, <2>5 DEF Holds
  <2>7. AIBased'
    <3>1. data_version <= data_version
        BY <2>3
    <3>2. QED
        BY <2>3, <2>5, <2>6, <3>1 DEF AIBased, Holds
  <2>8. QED
      BY <1>2, <2>2, <2>7 DEF Based
<1>7. CASE Answered
  <2>1. /\ ai' = [at |-> "write", job |-> ai.job, targets |-> ai.targets, code |-> ai.code,
                  table |-> ai.table, run |-> ai.run, ver |-> ai.ver, torn |-> ai.torn,
                  seen |-> ov[ai.code]]
        /\ ai.at = "call"
        /\ UNCHANGED <<ov, torn>>
      BY <1>7 DEF Answered
  <2>2. Holds(ai.code, ai.table, ai.run, ai.torn) /\ ai.ver <= data_version
      BY <2>1 DEF Based, AIBased
  <2>3. AIBased'
      BY <1>1, <2>1, <2>2 DEF AIBased, Holds, checks
  <2>4. QED
      BY <1>2, <2>1, <2>3 DEF Based
<1>8. CASE Write
  <2>1. ai \in GenWrite
      BY <1>8, AIKinds DEF Write
  <2>2. /\ ai.code \in Code /\ ai.run \in Nat /\ ai.ver \in Nat /\ ai.torn \in BOOLEAN
        /\ ai.seen \in Row \cup {NoOverview}
      BY <2>1 DEF GenWrite
  <2>3. ai.seen = NoOverview \/ ov[ai.code] \in Row
      BY <1>8, <2>2 DEF Write, Named, OverviewTyped
  <2> DEFINE c == ai.code
             w == Written(ov[c], ai.run, ai.ver)
             t == ai.torn \/ ov[c] # ai.seen
  <2>4. ov' = [ov EXCEPT ![c] = w] /\ torn' = [torn EXCEPT ![c] = t]
      BY <1>8, <2>2 DEF Write, OverviewTyped
  <2>5. Holds(c, ai.table, ai.run, ai.torn) /\ ai.ver <= data_version
      BY <1>8 DEF Write, Based, AIBased
  <2>6. w.run = ai.run /\ w.ver = ai.ver /\ w.text = ai.table
      BY <2>3 DEF Written, Row
  <2>7. ~t => w.table = ai.table
      BY <2>3 DEF Written, Row
  <2>8. ASSUME NEW f, NEW b \in BOOLEAN, b = t, ~b => f = ai.table
        PROVE  Holds(c, f, ai.run, b)
      BY <2>2, <2>5, <2>8 DEF Holds
  <2>9. Holds(c, w.text, ai.run, t) /\ Holds(c, w.table, ai.run, t)
    <3>1. t \in BOOLEAN
        BY <2>2
    <3> HIDE DEF w, t
    <3>2. QED
        BY <2>6, <2>7, <2>8, <3>1
  <2> HIDE DEF w, t
  <2>10. ASSUME NEW d \in Code PROVE RowBased(d)'
    <3>1. CASE d # c
      <4>1. ov'[d] = ov[d] /\ torn'[d] = torn[d]
          BY <2>4, <3>1 DEF OverviewTyped
      <4>2. QED
          BY <1>2, <4>1
    <3>2. CASE d = c
      <4>1. ov'[d] = w /\ torn'[d] = t
          BY <2>2, <2>4, <3>2 DEF OverviewTyped
      <4>2. ran_at'[d] = ran_at[d] /\ found'[d] = found[d] /\ broken'[d] = broken[d]
            /\ data_version' = data_version
          BY <1>1 DEF checks
      <4>3. w.run <= ran_at[d] /\ w.ver <= data_version
          BY <2>5, <2>6, <3>2 DEF Holds
      <4>4. Holds(d, w.text, w.run, t) /\ Holds(d, w.table, w.run, t)
          BY <2>6, <2>9, <3>2
      <4>5. QED
          BY <4>1, <4>2, <4>3, <4>4 DEF RowBased, Holds
    <3>3. QED
        BY <3>1, <3>2
  <2>11. AIBased'
    <3>1. ai'.at \notin {"run", "call", "write"}
        BY <1>8 DEF Write, AfterOne, Finished
    <3>2. QED
        BY <1>3, <3>1
  <2>12. QED
      BY <2>10, <2>11 DEF Based
<1>9. CASE GenFails
  <2>1. ai \in Gen \cup GenRun \cup GenCall \cup GenWrite
      BY <1>9, AIKinds DEF GenFails
  <2>2. ai.code \in Code
      BY <2>1 DEF Gen, GenRun, GenCall, GenWrite
  <2>3. ai'.at \notin {"run", "call", "write"} /\ UNCHANGED torn
      BY <1>9 DEF GenFails, Finished
  <2>4. ASSUME NEW d \in Code PROVE RowBased(d)'
    <3>1. CASE ov'[d] = ov[d]
        BY <1>2, <2>3, <3>1
    <3>2. CASE ov'[d] # ov[d]
      <4>1. d = ai.code /\ ov[d] # NoOverview /\ ov' = [ov EXCEPT ![d].status = "failed"]
          BY <1>9, <2>2, <3>2 DEF GenFails, OverviewTyped
      <4>2. ov[d] \in Row
          BY <4>1 DEF OverviewTyped
      <4>3. ov'[d].status = "failed" /\ ov'[d].run = ov[d].run /\ ov'[d].ver = ov[d].ver
          BY <4>1, <4>2 DEF OverviewTyped, Row
      <4>4. QED
          BY <1>1, <4>1, <4>3 DEF RowBased, Based, checks
    <3>3. QED
        BY <3>1, <3>2
  <2>5. QED
      BY <1>3, <2>3, <2>4 DEF Based
<1>10. QED
    BY <1>4, <1>5, <1>6, <1>7, <1>8, <1>9 DEF WorkerStep

LEMMA BasedNext ==
    ASSUME OverviewTyped, Named, Based, [OverviewNext]_overviewVars
    PROVE  Based'
<1>1. ASSUME UNCHANGED <<ov, torn, ai>>,
             \/ \E c \in Code : RunCommit(c) \/ RunFails(c)
             \/ UNCHANGED <<found, ran_at, broken>>,
             data_version' \in {data_version, data_version + 1}
      PROVE  Based'
    BY <1>1, RowKept, AIKept DEF Based
<1>2. CASE UNCHANGED overviewVars \/ DataMoves \/ ChatCall
  <2>1. /\ UNCHANGED <<ov, torn, ai, found, ran_at, broken>>
        /\ data_version' \in {data_version, data_version + 1}
      BY <1>2 DEF overviewVars, DataMoves, ChatCall, checks
  <2>2. QED
      BY <1>1, <2>1
<1>3. CASE \E c \in Code : RunCommit(c) \/ RunFails(c)
  <2>1. UNCHANGED <<ov, torn, ai, data_version>>
      BY <1>3 DEF RunCommit, RunFails
  <2>2. QED
      BY <1>1, <1>3, <2>1
<1>4. CASE RestartSweep
  <2>1. ai' = Idle /\ UNCHANGED <<ov, torn, broken, found, ran_at, data_version>>
      BY <1>4 DEF RestartSweep, checks
  <2>2. AIBased'
      BY <2>1 DEF AIBased, Idle
  <2>3. QED
      BY <2>1, <2>2, RowKept DEF Based
<1>5. QED
    BY <1>2, <1>3, <1>4, BasedRequest, BasedWorker DEF OverviewNext

-----------------------------------------------------------------------------
(* The theorems                                                            *)

OverviewInv == OverviewTyped /\ Named /\ Budgeted /\ Based

LEMMA Invariance == OverviewSpec => []OverviewInv
<1>1. OverviewInit => OverviewInv
    BY TypedInit, BasedInit DEF OverviewInv
<1>2. OverviewInv /\ [OverviewNext]_overviewVars => OverviewInv'
    BY TypedNext, NamedNext, BudgetedNext, BasedNext DEF OverviewInv
<1>3. QED
    BY <1>1, <1>2, PTL DEF OverviewSpec

\* Every row, job and figure has its type, findings are never newer than the last
\* run, and a row that says "running" names a job of its own check.
THEOREM OverviewTypeCorrect == OverviewSpec => []OverviewTypeOK
<1>1. OverviewInv => OverviewTypeOK
  <2>1. SUFFICES ASSUME OverviewInv PROVE OverviewTypeOK
      OBVIOUS
  <2>2. OverviewTyped /\ Named
      BY <2>1 DEF OverviewInv
  <2>3. ASSUME NEW c \in Code, ov[c] # NoOverview
        PROVE  /\ ov[c] \in Row
               /\ ov[c].status = "running" => ov[c].job # NoOverviewJob /\ jobs[ov[c].job].code = c
      BY <2>2, <2>3 DEF OverviewTyped, Named
  <2>4. QED
      BY <2>2, <2>3 DEF OverviewTyped, Named, OverviewTypeOK, Findings, JobRow
<1>2. QED
    BY <1>1, Invariance, PTL

\* run_overview_batch: however many batches are queued, and whatever single
\* presses and the chat spend meanwhile, batches stay within the day's budget.
THEOREM BatchesWithinBudget == OverviewSpec => []BatchWithinBudget
<1>1. OverviewInv => BatchWithinBudget
    BY DEF OverviewInv, Budgeted, BatchWithinBudget
<1>2. QED
    BY <1>1, Invariance, PTL

\* generate_check_overview: an overview that is done and not stale describes the
\* findings of the check, unless one of the three named races happened.
THEOREM FreshOverviewsCurrent == OverviewSpec => []FreshMeansCurrent
<1>1. OverviewInv => FreshMeansCurrent
  <2>1. SUFFICES ASSUME OverviewInv, NEW c \in Code, ov[c] # NoOverview, ov[c].status = "done",
                        ~overview_is_stale(c), ~torn[c], ~broken[c]
                 PROVE  ov[c].text = found[c] /\ ov[c].table = found[c]
      BY DEF FreshMeansCurrent
  <2>2. ov[c] \in Row /\ ran_at[c] \in Nat
      BY <2>1 DEF OverviewInv, OverviewTyped
  <2>3. ov[c].run <= ran_at[c] /\ Holds(c, ov[c].text, ov[c].run, torn[c])
        /\ Holds(c, ov[c].table, ov[c].run, torn[c])
      BY <2>1 DEF OverviewInv, Based, RowBased
  <2>4. ov[c].run = ran_at[c]
      BY <2>1, <2>2, <2>3 DEF overview_is_stale, Row
  <2>5. QED
      BY <2>1, <2>3, <2>4 DEF Holds
<1>2. QED
    BY <1>1, Invariance, PTL

-----------------------------------------------------------------------------
(* Chat: ids                                                               *)

LEMMA LargestUpTo ==
    ASSUME NEW n \in Nat, NEW S \in SUBSET (0 .. n), S # {}
    PROVE  \E m \in S : \A k \in S : m >= k
<1> DEFINE T == {n - k : k \in S}
<1>1. T \in SUBSET (0 .. n) /\ T # {}
  <2>1. ASSUME NEW k \in S PROVE n - k \in 0 .. n
      OBVIOUS
  <2>2. PICK k \in S : TRUE
      OBVIOUS
  <2>3. n - k \in T
      OBVIOUS
  <2>4. QED
      BY <2>1, <2>3, Zenon
<1>2. T \in SUBSET Nat /\ IsFiniteSet(T)
  <2>1. IsFiniteSet(0 .. n)
      BY FS_Interval
  <2>2. 0 .. n \subseteq Nat
      OBVIOUS
  <2>3. QED
      BY <1>1, <2>1, <2>2, FS_Subset, Zenon
<1>3. PICK t \in T : \A u \in T : t <= u
    BY <1>1, <1>2, SmallestExists
<1>4. PICK m \in S : t = n - m
    OBVIOUS
<1>5. ASSUME NEW k \in S PROVE m >= k
  <2>1. n - k \in T
      OBVIOUS
  <2>2. n - m <= n - k
      BY <1>3, <1>4, <2>1
  <2>3. QED
      BY <2>2
<1>6. QED
    BY <1>5

LEMMA MaxUpTo ==
    ASSUME NEW n \in Nat, NEW S \in SUBSET (1 .. n)
    PROVE  /\ Max({0} \cup S) \in 0 .. n
           /\ \A k \in S : k <= Max({0} \cup S)
<1>1. PICK m \in {0} \cup S : \A k \in {0} \cup S : m >= k
  <2>1. {0} \cup S \in SUBSET (0 .. n) /\ {0} \cup S # {}
      OBVIOUS
  <2>2. QED
      BY <2>1, LargestUpTo
<1>2. PICK x : x = Max({0} \cup S)
    OBVIOUS
<1>3. x \in {0} \cup S /\ \A k \in {0} \cup S : x >= k
    BY <1>1, <1>2, Zenon DEF Max
<1>4. \A k \in S : k \in Nat /\ x >= k => k <= x
    BY <1>3
<1>5. x \in 0 .. n /\ \A k \in S : k <= x
    BY <1>3, <1>4
<1>6. QED
    BY <1>2, <1>5

-----------------------------------------------------------------------------
(* Chat: the invariant.  What one transaction inserts has ids that follow  *)
(* each other, and nobody inserts or deletes while a turn is under way, so *)
(* a call and its answers are neighbours for as long as they are there.    *)

Sent == [conv : 1 .. MaxConversation, role : {"user", "assistant", "batch", "tool"}, call : Nat]
Labelled == [user : Owner, company : Firm \cup {NoCompany}]

Doing == [pc : {"idle", "admitted", "asking", "answered", "turn"}, user : Owner \cup {NoOne},
          conv : 0 .. MaxConversation, stream : BOOLEAN, label : Firm \cup {NoCompany},
          relabel : BOOLEAN, round : Nat, tools : Nat, turn : Seq(Sent)]

\* The rows of a turn under way: the answer, and the tools that ran.
TurnRow(s, k) ==
    IF k > 1 THEN Message(s.conv, "tool", k - 1)
    ELSE Message(s.conv, IF s.tools = 0 THEN "assistant" ELSE "batch", s.tools)

InTurn(s) ==
    /\ s.conv \in DOMAIN conversations
    /\ NextMessage + s.tools <= MaxMessages
    /\ Len(s.turn) \in 1 .. s.tools + 1
    /\ \A k \in 1 .. Len(s.turn) : s.turn[k] = TurnRow(s, k)

SenderTyped ==
    /\ sender \in [Sender -> Doing] /\ writer \in Sender \cup {NoOne}
    /\ \A t \in Sender :
          /\ writer = t <=> sender[t].pc = "turn"
          /\ sender[t].pc = "admitted" =>
                sender[t].user \in Owner /\ (sender[t].conv = 0 => sender[t].relabel)
          /\ sender[t].pc \in {"asking", "answered", "turn"} => sender[t].conv # 0
          /\ sender[t].pc = "turn" => InTurn(sender[t])

ConversationsTyped ==
    /\ DOMAIN conversations \subseteq 1 .. MaxConversation
    /\ \A c \in DOMAIN conversations : conversations[c] \in Labelled

RowsTyped ==
    /\ DOMAIN messages \subseteq 1 .. MaxMessages
    /\ \A i \in DOMAIN messages : messages[i] \in Sent /\ messages[i].conv \in DOMAIN conversations

Followed(i) ==
    \A j \in 1 .. messages[i].call :
        i + j \in DOMAIN messages /\ messages[i + j] = Message(messages[i].conv, "tool", j)

Called(i) ==
    /\ i - 1 \in DOMAIN messages /\ messages[i - 1].conv = messages[i].conv
    /\ \/ messages[i - 1].role = "tool" /\ messages[i - 1].call = messages[i].call - 1
       \/ messages[i - 1].role = "batch" /\ messages[i].call = 1

Heads(i) == \A k \in RowsOf(messages[i].conv) : i <= k

Neighbours ==
    \A i \in DOMAIN messages :
        /\ messages[i].role = "batch" => Followed(i)
        /\ messages[i].role = "tool" => Called(i) \/ Heads(i)

ChatInv == ConversationsTyped /\ RowsTyped /\ Neighbours /\ SenderTyped

LEMMA NextMessageIs ==
    ASSUME RowsTyped
    PROVE  /\ NextMessage \in 1 .. MaxMessages + 1
           /\ \A i \in DOMAIN messages : i < NextMessage /\ i \in 1 .. MaxMessages
<1>1. MaxMessages \in Nat /\ DOMAIN messages \in SUBSET (1 .. MaxMessages)
    BY ChatAssumption DEF RowsTyped
<1>2. PICK m : m = Max({0} \cup DOMAIN messages)
    OBVIOUS
<1>3. m \in 0 .. MaxMessages /\ \A k \in DOMAIN messages : k <= m
    BY <1>1, <1>2, MaxUpTo
<1>4. QED
    BY <1>1, <1>2, <1>3 DEF NextMessage

\* Rows of one conversation whose calls are answered among them are inserted.
LEMMA InsertKeeps ==
    ASSUME RowsTyped, Neighbours, NEW new \in Seq(Sent), Insert(new),
           NextMessage + Len(new) - 1 <= MaxMessages,
           \A i \in DOMAIN messages : messages[i].conv \in DOMAIN conversations',
           NEW c \in DOMAIN conversations', \A k \in 1 .. Len(new) : new[k].conv = c,
           \A k \in 1 .. Len(new) : new[k].role = "batch" =>
               \A j \in 1 .. new[k].call : k + j \in 1 .. Len(new) /\ new[k + j] = Message(c, "tool", j),
           \A k \in 1 .. Len(new) : new[k].role = "tool" =>
               /\ k - 1 \in 1 .. Len(new)
               /\ \/ new[k - 1].role = "tool" /\ new[k - 1].call = new[k].call - 1
                  \/ new[k - 1].role = "batch" /\ new[k].call = 1
    PROVE  RowsTyped' /\ Neighbours'
<1>1. PICK n \in Nat : n = Len(new)
    BY LenProperties
<1>2. PICK f \in 1 .. MaxMessages + 1 : f = NextMessage
    BY NextMessageIs
<1>3. MaxMessages \in Nat
    BY ChatAssumption
<1>4. /\ DOMAIN messages' = DOMAIN messages \cup f .. f + n - 1
      /\ \A i \in DOMAIN messages : messages'[i] = messages[i] /\ i < f /\ i \in 1 .. MaxMessages
    BY <1>1, <1>2, NextMessageIs DEF Insert
<1>5. ASSUME NEW k \in 1 .. n
      PROVE  /\ f + k - 1 \in DOMAIN messages' /\ f + k - 1 \notin DOMAIN messages
             /\ messages'[f + k - 1] = new[k]
  <2>1. f + k - 1 \in f .. f + n - 1 /\ ~(f + k - 1 < f) /\ (f + k - 1) - f + 1 = k
      BY <1>1, <1>2
  <2>2. f + k - 1 \notin DOMAIN messages
      BY <1>4, <2>1
  <2>3. messages'[f + k - 1] = new[(f + k - 1) - f + 1]
      BY <1>1, <1>2, <2>1, <2>2 DEF Insert
  <2>4. QED
      BY <1>4, <2>1, <2>2, <2>3
<1>6. ASSUME NEW i \in DOMAIN messages', i \notin DOMAIN messages
      PROVE  \E k \in 1 .. n : i = f + k - 1
  <2>1. i \in f .. f + n - 1
      BY <1>4, <1>6
  <2>2. i - f + 1 \in 1 .. n /\ i = f + (i - f + 1) - 1
      BY <1>1, <1>2, <2>1
  <2>3. QED
      BY <2>2
<1>7. \A k \in 1 .. n : new[k] \in Sent /\ new[k].conv = c
    BY <1>1, ElementOfSeq, LenProperties
<1>8. RowsTyped'
  <2>1. ASSUME NEW i \in DOMAIN messages'
        PROVE  /\ i \in 1 .. MaxMessages /\ messages'[i] \in Sent
               /\ messages'[i].conv \in DOMAIN conversations'
    <3>1. CASE i \in DOMAIN messages
        BY <1>4, <3>1 DEF RowsTyped
    <3>2. CASE i \notin DOMAIN messages
      <4>1. PICK k \in 1 .. n : i = f + k - 1
          BY <1>6, <3>2
      <4>2. i \in 1 .. MaxMessages
          BY <1>1, <1>2, <1>3, <4>1
      <4>3. messages'[i] = new[k]
          BY <1>5, <4>1
      <4>4. QED
          BY <1>7, <4>2, <4>3
    <3>3. QED
        BY <3>1, <3>2
  <2>2. QED
      BY <2>1 DEF RowsTyped
<1>9. ASSUME NEW i \in DOMAIN messages
      PROVE  /\ messages'[i].role = "batch" => Followed(i)'
             /\ messages'[i].role = "tool" => Called(i)' \/ Heads(i)'
  <2>1. messages[i].role = "batch" => Followed(i)
      BY DEF Neighbours
  <2>2. messages[i].role = "tool" => Called(i) \/ Heads(i)
      BY DEF Neighbours
  <2>3. ASSUME Heads(i) PROVE Heads(i)'
    <3>1. ASSUME NEW k \in DOMAIN messages', messages'[k].conv = messages[i].conv
          PROVE  i <= k
      <4>1. CASE k \in DOMAIN messages
          BY <1>4, <2>3, <3>1, <4>1 DEF RowsOf, Heads
      <4>2. CASE k \notin DOMAIN messages
        <5>1. k \in f .. f + n - 1 /\ i < f /\ i \in 1 .. MaxMessages
            BY <1>4, <3>1, <4>2
        <5>2. QED
            BY <1>2, <5>1
      <4>3. QED
          BY <4>1, <4>2
    <3>2. QED
        BY <1>4, <3>1 DEF RowsOf, Heads
  <2>4. messages'[i] = messages[i] /\ DOMAIN messages \subseteq DOMAIN messages'
      BY <1>4
  <2>5. ASSUME Followed(i) PROVE Followed(i)'
      BY <1>4, <2>4, <2>5 DEF Followed
  <2>6. ASSUME Called(i) PROVE Called(i)'
      BY <1>4, <2>4, <2>6 DEF Called
  <2>7. QED
      BY <2>1, <2>2, <2>3, <2>4, <2>5, <2>6
<1>10. ASSUME NEW k \in 1 .. n
       PROVE  /\ messages'[f + k - 1].role = "batch" => Followed(f + k - 1)'
              /\ messages'[f + k - 1].role = "tool" => Called(f + k - 1)'
  <2>1. PICK i : i = f + k - 1
      OBVIOUS
  <2>2. i \in DOMAIN messages' /\ messages'[i] = new[k] /\ new[k].conv = c
      BY <1>5, <1>7, <2>1
  <2>3. ASSUME new[k].role = "batch", NEW j \in 1 .. new[k].call
        PROVE  i + j \in DOMAIN messages' /\ messages'[i + j] = Message(c, "tool", j)
    <3>1. k + j \in 1 .. n /\ new[k + j] = Message(c, "tool", j)
        BY <1>1, <2>3
    <3>2. new[k].call \in Nat
        BY <1>7 DEF Sent
    <3>3. i + j = f + (k + j) - 1
        BY <1>2, <2>1, <3>2
    <3>4. QED
        BY <1>5, <3>1, <3>3
  <2>4. ASSUME new[k].role = "tool"
        PROVE  /\ i - 1 \in DOMAIN messages' /\ messages'[i - 1] = new[k - 1]
               /\ k - 1 \in 1 .. n
    <3>1. k - 1 \in 1 .. n
        BY <1>1, <2>4
    <3>2. i - 1 = f + (k - 1) - 1
        BY <1>2, <2>1
    <3>3. QED
        BY <1>5, <3>1, <3>2
  <2>5. ASSUME new[k].role = "batch" PROVE Followed(i)'
      BY <2>2, <2>3, <2>5 DEF Followed
  <2>6. ASSUME new[k].role = "tool" PROVE Called(i)'
    <3>1. \/ new[k - 1].role = "tool" /\ new[k - 1].call = new[k].call - 1
          \/ new[k - 1].role = "batch" /\ new[k].call = 1
        BY <1>1, <2>6
    <3>2. new[k - 1].conv = c
        BY <1>7, <2>4, <2>6
    <3>3. QED
        BY <2>2, <2>4, <2>6, <3>1, <3>2 DEF Called
  <2>7. QED
      BY <2>1, <2>2, <2>5, <2>6
<1>11. Neighbours'
  <2>1. ASSUME NEW i \in DOMAIN messages'
        PROVE  /\ messages'[i].role = "batch" => Followed(i)'
               /\ messages'[i].role = "tool" => Called(i)' \/ Heads(i)'
    <3>1. CASE i \in DOMAIN messages
        BY <1>4, <1>9, <3>1
    <3>2. CASE i \notin DOMAIN messages
        BY <1>6, <1>10, <3>2
    <3>3. QED
        BY <3>1, <3>2
  <2>2. QED
      BY <2>1 DEF Neighbours
<1>12. QED
    BY <1>8, <1>11

\* Whole conversations go, or the oldest rows, and no block loses its end.
LEMMA DeleteKeeps ==
    ASSUME RowsTyped, Neighbours, NEW gone,
           messages' = [i \in DOMAIN messages \ gone |-> messages[i]],
           \A i \in DOMAIN messages \ gone : messages[i].conv \in DOMAIN conversations',
           \/ \A i, j \in DOMAIN messages : messages[i].conv = messages[j].conv =>
                  (i \in gone <=> j \in gone)
           \/ \A i, j \in DOMAIN messages : i \in gone /\ j <= i => j \in gone
    PROVE  RowsTyped' /\ Neighbours'
<1>1. \A i \in DOMAIN messages : i \in Nat /\ messages[i].call \in Nat
    BY DEF RowsTyped, Sent
<1>2. /\ DOMAIN messages' = DOMAIN messages \ gone
      /\ \A i \in DOMAIN messages' : messages'[i] = messages[i]
    OBVIOUS
<1>3. RowsTyped'
    BY <1>2 DEF RowsTyped
<1>4. ASSUME NEW i \in DOMAIN messages \ gone
      PROVE  /\ messages'[i].role = "batch" => Followed(i)'
             /\ messages'[i].role = "tool" => Called(i)' \/ Heads(i)'
  <2>1. ASSUME Followed(i) PROVE Followed(i)'
    <3>1. ASSUME NEW j \in 1 .. messages[i].call
          PROVE  i + j \in DOMAIN messages' /\ messages'[i + j] = Message(messages[i].conv, "tool", j)
      <4>1. /\ i + j \in DOMAIN messages /\ messages[i + j] = Message(messages[i].conv, "tool", j)
            /\ i <= i + j
          BY <1>1, <2>1 DEF Followed
      <4>2. messages[i + j].conv = messages[i].conv
          BY <4>1 DEF Message
      <4>3. i + j \notin gone
          BY <4>1, <4>2
      <4>4. QED
          BY <1>2, <4>1, <4>3
    <3>2. QED
        BY <1>2, <3>1 DEF Followed
  <2>2. ASSUME Called(i) PROVE Called(i)' \/ Heads(i)'
    <3>1. i - 1 \in DOMAIN messages /\ messages[i - 1].conv = messages[i].conv
        BY <2>2 DEF Called
    <3>2. CASE i - 1 \notin gone
        BY <1>2, <2>2, <3>1, <3>2 DEF Called
    <3>3. CASE i - 1 \in gone
      <4>1. ASSUME NEW k \in DOMAIN messages \ gone PROVE i <= k
        <5>1. ~(k <= i - 1)
            BY <3>1, <3>3
        <5>2. QED
            BY <1>1, <5>1
      <4>2. QED
          BY <1>2, <4>1 DEF Heads, RowsOf
    <3>4. QED
        BY <3>2, <3>3
  <2>3. ASSUME Heads(i) PROVE Heads(i)'
      BY <1>2, <2>3 DEF Heads, RowsOf
  <2>4. QED
      BY <1>2, <2>1, <2>2, <2>3 DEF Neighbours
<1>5. QED
    BY <1>2, <1>3, <1>4 DEF Neighbours

\* What a request is doing stays so as long as the rows and its own record do.
LEMMA OtherSenders ==
    ASSUME SenderTyped, NEW t \in Sender, NEW s \in Doing,
           sender' = [sender EXCEPT ![t] = s],
           writer' \in Sender \cup {NoOne},
           \A u \in Sender \ {t} : writer' = u <=> writer = u,
           writer' = t <=> s.pc = "turn",
           s.pc = "admitted" => s.user \in Owner /\ (s.conv = 0 => s.relabel),
           s.pc \in {"asking", "answered", "turn"} => s.conv # 0,
           s.pc = "turn" => InTurn(s)',
           \A u \in Sender \ {t} : writer = u => UNCHANGED <<messages, conversations>>
    PROVE  SenderTyped'
<1>1. /\ sender' \in [Sender -> Doing]
      /\ \A u \in Sender \ {t} : sender'[u] = sender[u]
      /\ sender'[t] = s
    BY DEF SenderTyped
<1>2. ASSUME NEW u \in Sender
      PROVE  /\ writer' = u <=> sender'[u].pc = "turn"
             /\ sender'[u].pc = "admitted" =>
                   sender'[u].user \in Owner /\ (sender'[u].conv = 0 => sender'[u].relabel)
             /\ sender'[u].pc \in {"asking", "answered", "turn"} => sender'[u].conv # 0
             /\ sender'[u].pc = "turn" => InTurn(sender[u])'
  <2>1. CASE u = t
    <3>1. ASSUME s.pc = "turn" PROVE InTurn(sender[u])'
        BY <1>1, <2>1, <3>1 DEF InTurn
    <3>2. QED
        BY <1>1, <2>1, <3>1
  <2>2. CASE u # t
    <3>1. ASSUME sender[u].pc = "turn" PROVE InTurn(sender[u])'
      <4>1. InTurn(sender[u]) /\ UNCHANGED <<messages, conversations>>
          BY <2>2, <3>1 DEF SenderTyped
      <4>2. sender'[u] = sender[u] /\ NextMessage' = NextMessage
          BY <1>1, <2>2, <4>1 DEF NextMessage
      <4>3. QED
          BY <4>1, <4>2 DEF InTurn, TurnRow
    <3>2. QED
        BY <1>1, <2>2, <3>1 DEF SenderTyped
  <2>3. QED
      BY <2>1, <2>2
<1>3. QED
    BY <1>1, <1>2 DEF SenderTyped

\* Nobody is in a turn, so nobody minds what is done to the rows.
LEMMA SendersIdle ==
    ASSUME SenderTyped, writer = NoOne, UNCHANGED <<sender, writer>>
    PROVE  SenderTyped'
BY ChatAssumption DEF SenderTyped

LEMMA ChatInvInit == ChatInit => ChatInv
<1>1. SUFFICES ASSUME ChatInit PROVE ChatInv
    OBVIOUS
<1>2. DOMAIN conversations = {} /\ DOMAIN messages = {}
    BY <1>1 DEF ChatInit
<1>3. <<>> \in Seq(Sent)
    OBVIOUS
<1>4. NoRequest \in Doing /\ NoRequest.pc = "idle"
    BY <1>3, ChatAssumption DEF NoRequest, Doing
<1>5. SenderTyped
    BY <1>1, <1>4, ChatAssumption DEF ChatInit, SenderTyped
<1>6. QED
    BY <1>2, <1>5 DEF ChatInv, ConversationsTyped, RowsTyped, Neighbours

-----------------------------------------------------------------------------
(* Chat: a request                                                         *)

LEMMA IdleRequest == NoRequest \in Doing /\ NoRequest.pc = "idle" /\ <<>> \in Seq(Sent)
<1>1. <<>> \in Seq(Sent)
    OBVIOUS
<1>2. QED
    BY <1>1, ChatAssumption DEF NoRequest, Doing

LEMMA LabelOfRequest ==
    ASSUME NEW u \in Owner, NEW before \in Firm \cup {NoCompany}, NEW mentions \in SUBSET Firm
    PROVE  late_assign_company(u, before, mentions) \in Firm \cup {NoCompany}
<1>1. ASSUME Cardinality(mentions) = 1 PROVE (CHOOSE k \in mentions : TRUE) \in Firm
  <2>1. mentions # {}
      BY <1>1, FS_EmptySet
  <2>2. QED
      BY <2>1
<1>2. QED
    BY <1>1 DEF late_assign_company

LEMMA AdmitKeeps ==
    ASSUME ChatInv, NEW t \in Sender, NEW u \in Owner, NEW c \in 0 .. MaxConversation,
           NEW stream \in BOOLEAN, NEW named \in Firm \cup {NoCompany}, NEW mentions \in SUBSET Firm,
           Admit(t, u, c, stream, named, mentions)
    PROVE  ChatInv'
<1>1. PICK before : before = IF c = 0 THEN resolve_company_for_new_conversation(u, named)
                             ELSE conversations[c].company
    OBVIOUS
<1>2. before \in Firm \cup {NoCompany}
    BY <1>1 DEF Admit, ChatInv, ConversationsTyped, Labelled, resolve_company_for_new_conversation
<1>3. PICK label : label = late_assign_company(u, before, mentions)
    OBVIOUS
<1>4. label \in Firm \cup {NoCompany}
    BY <1>2, <1>3, LabelOfRequest
<1>5. PICK s : s = [NoRequest EXCEPT !.pc = "admitted", !.user = u, !.conv = c, !.stream = stream,
                           !.label = IF c = 0 \/ label # before THEN label ELSE NoCompany,
                           !.relabel = (c = 0 \/ label # before)]
    OBVIOUS
<1>6. sender' = [sender EXCEPT ![t] = s] /\ UNCHANGED <<conversations, messages, writer>>
      /\ sender[t] = NoRequest
    BY <1>1, <1>3, <1>5 DEF Admit
<1>7. /\ s \in Doing /\ s.pc = "admitted" /\ s.user = u /\ s.conv = c
      /\ s.relabel = (c = 0 \/ label # before)
    BY <1>4, <1>5, IdleRequest DEF NoRequest, Doing
<1>8. writer # t /\ writer \in Sender \cup {NoOne}
    BY <1>6, IdleRequest DEF ChatInv, SenderTyped
<1>9. SenderTyped'
    BY <1>6, <1>7, <1>8, OtherSenders DEF ChatInv
<1>10. QED
    BY <1>6, <1>9 DEF ChatInv, ConversationsTyped, RowsTyped, Neighbours, Followed, Called, Heads,
                      RowsOf

\* What a request does of itself alone.
LEMMA OwnStepKeeps ==
    ASSUME ChatInv, NEW t \in Sender, NEW s \in Doing, sender' = [sender EXCEPT ![t] = s],
           UNCHANGED <<conversations, messages>>,
           writer' = writer \/ (writer = t /\ writer' = NoOne) \/ (writer = NoOne /\ writer' = t),
           writer' = t <=> s.pc = "turn",
           s.pc # "admitted",
           s.pc \in {"asking", "answered", "turn"} => s.conv # 0,
           s.pc = "turn" => InTurn(s)
    PROVE  ChatInv'
<1>1. NextMessage' = NextMessage
    BY DEF NextMessage
<1>2. ASSUME InTurn(s) PROVE InTurn(s)'
    BY <1>1, <1>2 DEF InTurn
<1>3. SenderTyped'
    BY <1>2, ChatAssumption, OtherSenders DEF ChatInv, SenderTyped
<1>4. QED
    BY <1>3 DEF ChatInv, ConversationsTyped, RowsTyped, Neighbours, Followed, Called, Heads, RowsOf

LEMMA BecomesIdle ==
    ASSUME ChatInv, NEW t \in Sender, sender' = [sender EXCEPT ![t] = NoRequest],
           UNCHANGED <<conversations, messages>>,
           writer' = IF writer = t THEN NoOne ELSE writer
    PROVE  ChatInv'
<1>1. PICK s : s = NoRequest
    OBVIOUS
<1>2. writer' # t
    BY ChatAssumption
<1>3. QED
    BY <1>1, <1>2, IdleRequest, OwnStepKeeps

LEMMA AnswerKeeps ==
    ASSUME ChatInv, NEW t \in Sender, NEW tools \in 0 .. MaxTools, Answer(t, tools)
    PROVE  ChatInv'
<1>1. sender[t] \in Doing /\ sender[t].conv # 0 /\ writer # t
    BY DEF Answer, ChatInv, SenderTyped
<1>2. PICK r : r = sender[t].round + 1
    OBVIOUS
<1>3. r \in Nat /\ tools \in Nat
    BY <1>1, <1>2, ChatAssumption DEF Doing
<1>4. PICK s : s = [sender[t] EXCEPT !.pc = "answered", !.round = r, !.tools = tools]
    OBVIOUS
<1>5. sender' = [sender EXCEPT ![t] = s]
    BY <1>2, <1>4 DEF Answer, ChatInv, SenderTyped
<1>6. s \in Doing /\ s.pc = "answered" /\ s.conv = sender[t].conv
    BY <1>1, <1>3, <1>4 DEF Doing
<1>7. QED
    BY <1>1, <1>5, <1>6, OwnStepKeeps DEF Answer

LEMMA ChatTurnKeeps ==
    ASSUME ChatInv, NEW t \in Sender, ChatTurn(t)
    PROVE  ChatInv'
<1>1. sender[t] \in Doing /\ sender[t].conv # 0 /\ writer = NoOne
      /\ sender[t].conv \in DOMAIN conversations
    BY DEF ChatTurn, ChatInv, SenderTyped
<1>2. PICK line : line = Message(sender[t].conv, IF sender[t].tools = 0 THEN "assistant" ELSE "batch",
                                sender[t].tools)
    OBVIOUS
<1>3. PICK s : s = [sender[t] EXCEPT !.pc = "turn", !.turn = <<line>>]
    OBVIOUS
<1>4. /\ sender' = [sender EXCEPT ![t] = s] /\ writer' = t /\ UNCHANGED <<conversations, messages>>
      /\ NextMessage + sender[t].tools <= MaxMessages
    BY <1>2, <1>3 DEF ChatTurn, ChatInv, SenderTyped
<1>5. line \in Sent
  <2>1. sender[t].conv \in 1 .. MaxConversation /\ sender[t].tools \in Nat
      BY <1>1 DEF Doing
  <2>2. QED
      BY <1>2, <2>1 DEF Sent, Message
<1>6. <<line>> \in Seq(Sent) /\ Len(<<line>>) = 1 /\ <<line>>[1] = line
    BY <1>5
<1>7. s \in Doing /\ s.pc = "turn" /\ s.conv = sender[t].conv /\ s.tools = sender[t].tools
      /\ s.turn = <<line>>
    BY <1>1, <1>3, <1>6 DEF Doing
<1>8. InTurn(s)
  <2>1. s.tools \in Nat
      BY <1>7 DEF Doing
  <2>2. \A k \in 1 .. Len(s.turn) : s.turn[k] = TurnRow(s, k)
      BY <1>2, <1>6, <1>7 DEF TurnRow
  <2>3. QED
      BY <1>1, <1>4, <1>6, <1>7, <2>1, <2>2 DEF InTurn
<1>9. QED
    BY <1>1, <1>4, <1>7, <1>8, OwnStepKeeps

LEMMA RunToolKeeps ==
    ASSUME ChatInv, NEW t \in Sender, RunTool(t)
    PROVE  ChatInv'
<1>1. /\ sender[t] \in Doing /\ sender[t].conv # 0 /\ writer = t /\ InTurn(sender[t])
      /\ sender[t].conv \in DOMAIN conversations
    BY DEF RunTool, ChatInv, SenderTyped, InTurn
<1>2. PICK n \in Nat : n = Len(sender[t].turn)
    BY <1>1, LenProperties DEF Doing
<1>3. n <= sender[t].tools /\ n >= 1 /\ sender[t].tools \in Nat
    BY <1>1, <1>2 DEF RunTool, InTurn, Doing
<1>4. PICK line : line = Message(sender[t].conv, "tool", n)
    OBVIOUS
<1>5. line \in Sent
  <2>1. sender[t].conv \in 1 .. MaxConversation
      BY <1>1 DEF Doing
  <2>2. QED
      BY <1>4, <2>1 DEF Sent, Message
<1>6. PICK turn : turn = Append(sender[t].turn, line)
    OBVIOUS
<1>7. /\ turn \in Seq(Sent) /\ Len(turn) = n + 1 /\ turn[n + 1] = line
      /\ \A k \in 1 .. n : turn[k] = sender[t].turn[k]
    BY <1>1, <1>2, <1>5, <1>6, AppendProperties DEF Doing
<1>8. PICK s : s = [sender[t] EXCEPT !.turn = turn]
    OBVIOUS
<1>9. sender' = [sender EXCEPT ![t] = s] /\ UNCHANGED <<conversations, messages, writer>>
    BY <1>2, <1>4, <1>6, <1>8 DEF RunTool, ChatInv, SenderTyped
<1>10. s \in Doing /\ s.pc = "turn" /\ s.conv = sender[t].conv /\ s.tools = sender[t].tools
      /\ s.turn = turn
    BY <1>1, <1>7, <1>8 DEF Doing, RunTool
<1>11. InTurn(s)
  <2>1. ASSUME NEW k \in 1 .. n + 1 PROVE turn[k] = TurnRow(s, k)
    <3>1. CASE k = n + 1
        BY <1>3, <1>4, <1>7, <1>10, <3>1 DEF TurnRow
    <3>2. CASE k # n + 1
        BY <1>1, <1>2, <1>7, <1>10, <3>2 DEF TurnRow, InTurn
    <3>3. QED
        BY <3>1, <3>2
  <2>2. n + 1 \in 1 .. s.tools + 1
      BY <1>3, <1>10
  <2>3. QED
      BY <1>1, <1>7, <1>10, <2>1, <2>2 DEF InTurn
<1>12. QED
    BY <1>1, <1>9, <1>10, <1>11, OwnStepKeeps

LEMMA SaveQuestionKeeps ==
    ASSUME ChatInv, NEW t \in Sender, SaveQuestion(t)
    PROVE  ChatInv'
<1>1. /\ sender[t] \in Doing /\ writer = NoOne /\ sender[t].pc = "admitted"
      /\ sender[t].user \in Owner /\ (sender[t].conv = 0 => sender[t].relabel)
    BY DEF SaveQuestion, ChatInv, SenderTyped
<1>2. PICK c : c = IF sender[t].conv = 0 THEN NextId ELSE sender[t].conv
    OBVIOUS
<1>3. PICK line : line = IF sender[t].relabel
                         THEN [user |-> sender[t].user, company |-> sender[t].label]
                         ELSE conversations[c]
    OBVIOUS
<1>4. PICK s : s = [NoRequest EXCEPT !.pc = "asking", !.conv = c, !.stream = sender[t].stream]
    OBVIOUS
<1>5. /\ sender[t].conv # 0 => c \in DOMAIN conversations
      /\ c <= MaxConversation /\ NextMessage <= MaxMessages
      /\ conversations' = [d \in DOMAIN conversations \cup {c} |->
                              IF d = c THEN line ELSE conversations[d]]
      /\ Insert(<<Message(c, "user", 0)>>)
      /\ sender' = [sender EXCEPT ![t] = s] /\ UNCHANGED writer
    BY <1>2, <1>3, <1>4 DEF SaveQuestion
<1>6. c \in 1 .. MaxConversation
  <2>1. CASE sender[t].conv = 0
    <3>1. MaxConversation \in Nat
        BY ChatAssumption
    <3>2. DOMAIN conversations \in SUBSET (1 .. MaxConversation)
        BY DEF ChatInv, ConversationsTyped
    <3>3. PICK m : m = Max({0} \cup DOMAIN conversations)
        OBVIOUS
    <3>4. m \in 0 .. MaxConversation
        BY <3>1, <3>2, <3>3, MaxUpTo
    <3>5. c = m + 1
        BY <1>2, <2>1, <3>3 DEF NextId
    <3>6. QED
        BY <1>5, <3>1, <3>4, <3>5
  <2>2. CASE sender[t].conv # 0
      BY <1>5, <2>2 DEF ChatInv, ConversationsTyped
  <2>3. QED
      BY <2>1, <2>2
<1>7. line \in Labelled
    BY <1>1, <1>2, <1>3, <1>5 DEF Doing, Labelled, ChatInv, ConversationsTyped
<1>8. DOMAIN conversations' = DOMAIN conversations \cup {c} /\ ConversationsTyped'
    BY <1>5, <1>6, <1>7 DEF ChatInv, ConversationsTyped
<1>9. PICK q : q = Message(c, "user", 0)
    OBVIOUS
<1>10. q \in Sent /\ q.conv = c /\ q.role = "user"
    BY <1>6, <1>9 DEF Message, Sent
<1>11. PICK new : new = <<q>>
    OBVIOUS
<1>12. /\ new \in Seq(Sent) /\ Len(new) = 1
       /\ \A k \in 1 .. Len(new) : new[k] = q
    BY <1>10, <1>11
<1>13. RowsTyped' /\ Neighbours'
  <2>1. Insert(new) /\ NextMessage + Len(new) - 1 <= MaxMessages
    <3>1. NextMessage \in Int
        BY NextMessageIs DEF ChatInv
    <3>2. QED
        BY <1>5, <1>9, <1>11, <1>12, <3>1
  <2>2. \A i \in DOMAIN messages : messages[i].conv \in DOMAIN conversations'
      BY <1>8 DEF ChatInv, RowsTyped
  <2>3. \A k \in 1 .. Len(new) : new[k].conv = c /\ new[k].role = "user"
      BY <1>10, <1>12
  <2>4. c \in DOMAIN conversations'
      BY <1>8
  <2>5. QED
      BY <1>12, <2>1, <2>2, <2>3, <2>4, InsertKeeps DEF ChatInv
<1>14. s \in Doing /\ s.pc = "asking" /\ s.conv # 0
  <2>1. c \in 0 .. MaxConversation /\ c # 0
      BY <1>6
  <2>2. sender[t].stream \in BOOLEAN
      BY <1>1 DEF Doing
  <2>3. PICK r : r = NoRequest
      OBVIOUS
  <2>4. r \in Doing
      BY <2>3, IdleRequest
  <2>5. s = [r EXCEPT !.pc = "asking", !.conv = c, !.stream = sender[t].stream]
      BY <1>4, <2>3
  <2>6. QED
      BY <2>1, <2>2, <2>4, <2>5 DEF Doing
<1>15. SenderTyped'
    BY <1>1, <1>5, <1>14, OtherSenders, ChatAssumption DEF ChatInv
<1>16. QED
    BY <1>8, <1>13, <1>15 DEF ChatInv

LEMMA CommitTurnKeeps ==
    ASSUME ChatInv, NEW t \in Sender, CommitTurn(t)
    PROVE  ChatInv'
<1>1. /\ sender[t] \in Doing /\ sender[t].conv # 0 /\ writer = t /\ InTurn(sender[t])
    BY DEF CommitTurn, ChatInv, SenderTyped
<1>2. PICK c : c = sender[t].conv
    OBVIOUS
<1>3. PICK n \in Nat : n = sender[t].tools
    BY <1>1 DEF Doing
<1>4. PICK new : new = sender[t].turn
    OBVIOUS
<1>5. /\ new \in Seq(Sent) /\ Len(new) = n + 1 /\ c \in DOMAIN conversations
      /\ Insert(new) /\ NextMessage + n <= MaxMessages /\ UNCHANGED conversations
      /\ \A k \in 1 .. n + 1 : new[k] = TurnRow(sender[t], k)
    BY <1>1, <1>2, <1>3, <1>4 DEF CommitTurn, InTurn, Doing
<1>6. /\ new[1] = Message(c, IF n = 0 THEN "assistant" ELSE "batch", n)
      /\ \A k \in 2 .. n + 1 : new[k] = Message(c, "tool", k - 1)
    BY <1>2, <1>3, <1>5 DEF TurnRow
<1>7. /\ new[1].conv = c /\ new[1].call = n /\ new[1].role \in {"assistant", "batch"}
      /\ n # 0 => new[1].role = "batch"
      /\ \A k \in 2 .. n + 1 : new[k].conv = c /\ new[k].role = "tool" /\ new[k].call = k - 1
  <2>1. PICK role : role = IF n = 0 THEN "assistant" ELSE "batch"
      OBVIOUS
  <2>2. new[1] = [conv |-> c, role |-> role, call |-> n]
      BY <1>6, <2>1 DEF Message
  <2>3. role \in {"assistant", "batch"} /\ (n # 0 => role = "batch")
      BY <2>1
  <2>4. ASSUME NEW k \in 2 .. n + 1
        PROVE  new[k].conv = c /\ new[k].role = "tool" /\ new[k].call = k - 1
    <3>1. PICK j : j = k - 1
        OBVIOUS
    <3>2. new[k] = [conv |-> c, role |-> "tool", call |-> j]
        BY <1>6, <3>1 DEF Message
    <3>3. QED
        BY <3>1, <3>2
  <2>5. QED
      BY <2>2, <2>3, <2>4
<1>8. \A k \in 1 .. n + 1 : new[k].conv = c
  <2>1. \A k \in 1 .. n + 1 : k = 1 \/ k \in 2 .. n + 1
      OBVIOUS
  <2>2. QED
      BY <1>7, <2>1
<1>9. ASSUME NEW k \in 1 .. n + 1, new[k].role = "batch", NEW j \in 1 .. new[k].call
      PROVE  k + j \in 1 .. n + 1 /\ new[k + j] = Message(c, "tool", j)
  <2>1. k = 1 \/ k \in 2 .. n + 1
      OBVIOUS
  <2>2. k = 1 /\ j \in 1 .. n
      BY <1>7, <1>9, <2>1
  <2>3. j + 1 \in 2 .. n + 1 /\ (j + 1) - 1 = j /\ k + j = j + 1
      BY <2>2
  <2>4. QED
      BY <1>6, <2>3
<1>10. ASSUME NEW k \in 1 .. n + 1, new[k].role = "tool"
       PROVE  /\ k - 1 \in 1 .. n + 1
              /\ \/ new[k - 1].role = "tool" /\ new[k - 1].call = new[k].call - 1
                 \/ new[k - 1].role = "batch" /\ new[k].call = 1
  <2>1. k # 1
      BY <1>7, <1>10
  <2>2. k \in 2 .. n + 1 /\ n # 0 /\ k - 1 \in 1 .. n + 1
      BY <2>1
  <2>3. CASE k = 2
      BY <1>7, <2>2, <2>3
  <2>4. CASE k # 2
    <3>1. k - 1 \in 2 .. n + 1
        BY <2>2, <2>4
    <3>2. QED
        BY <1>7, <2>2, <3>1
  <2>5. QED
      BY <2>3, <2>4
<1>11. RowsTyped' /\ Neighbours'
  <2>1. NextMessage + Len(new) - 1 <= MaxMessages
    <3>1. NextMessage \in Int
        BY NextMessageIs DEF ChatInv
    <3>2. QED
        BY <1>5, <3>1
  <2>2. \A i \in DOMAIN messages : messages[i].conv \in DOMAIN conversations'
      BY <1>5 DEF ChatInv, RowsTyped
  <2>3. c \in DOMAIN conversations' /\ RowsTyped /\ Neighbours
      BY <1>5 DEF ChatInv
  <2>4. QED
      BY <1>5, <1>8, <1>9, <1>10, <2>1, <2>2, <2>3, InsertKeeps
<1>12. PICK s : s = IF n = 0 THEN NoRequest
                    ELSE [sender[t] EXCEPT !.pc = "asking", !.turn = <<>>, !.tools = 0]
    OBVIOUS
<1>13. sender' = [sender EXCEPT ![t] = s] /\ writer' = NoOne
    BY <1>3, <1>12 DEF CommitTurn
<1>14. s \in Doing /\ s.pc \in {"idle", "asking"} /\ (s.pc = "asking" => s.conv # 0)
    BY <1>1, <1>12, IdleRequest DEF Doing
<1>15. NoOne \notin Sender
    BY ChatAssumption
<1>16. SenderTyped'
    BY <1>1, <1>13, <1>14, <1>15, OtherSenders DEF ChatInv
<1>17. ConversationsTyped'
    BY <1>5 DEF ChatInv, ConversationsTyped
<1>18. QED
    BY <1>11, <1>16, <1>17 DEF ChatInv

-----------------------------------------------------------------------------
(* Chat: beside it                                                         *)

LEMMA KeepKeeps ==
    ASSUME ChatInv, NEW ids, Keep(ids)
    PROVE  ChatInv'
<1> DEFINE gone == {i \in DOMAIN messages : messages[i].conv \notin ids}
<1>1. writer = NoOne /\ UNCHANGED <<sender, writer>>
    BY DEF Keep
<1>2. {j \in DOMAIN messages : messages[j].conv \in ids} = DOMAIN messages \ gone
    OBVIOUS
<1>3. messages' = [i \in DOMAIN messages \ gone |-> messages[i]]
    BY <1>2 DEF Keep
<1>4. DOMAIN conversations' = DOMAIN conversations \cap ids /\ ConversationsTyped'
    BY DEF Keep, ChatInv, ConversationsTyped
<1>5. \A i \in DOMAIN messages \ gone : messages[i].conv \in DOMAIN conversations'
    BY <1>4 DEF ChatInv, RowsTyped
<1>6. \A i, j \in DOMAIN messages : messages[i].conv = messages[j].conv => (i \in gone <=> j \in gone)
    OBVIOUS
<1> HIDE DEF gone
<1>7. RowsTyped' /\ Neighbours'
    BY <1>3, <1>5, <1>6, DeleteKeeps DEF ChatInv
<1>8. SenderTyped'
    BY <1>1, SendersIdle DEF ChatInv
<1>9. QED
    BY <1>4, <1>7, <1>8 DEF ChatInv

LEMMA AuditRetentionKeeps ==
    ASSUME ChatInv, NEW n, AuditRetention(n)
    PROVE  ChatInv'
<1> DEFINE gone == {i \in DOMAIN messages : ~(i > n)}
<1>1. writer = NoOne /\ UNCHANGED <<sender, writer, conversations>> /\ n \in DOMAIN messages
    BY DEF AuditRetention
<1>2. {j \in DOMAIN messages : j > n} = DOMAIN messages \ gone
    OBVIOUS
<1>3. messages' = [i \in DOMAIN messages \ gone |-> messages[i]]
    BY <1>2 DEF AuditRetention
<1>4. \A i \in DOMAIN messages \ gone : messages[i].conv \in DOMAIN conversations'
    BY <1>1 DEF ChatInv, RowsTyped
<1>5. \A i, j \in DOMAIN messages : i \in gone /\ j <= i => j \in gone
  <2>1. \A i \in DOMAIN messages : i \in Nat
      BY DEF ChatInv, RowsTyped
  <2>2. QED
      BY <1>1, <2>1
<1> HIDE DEF gone
<1>6. RowsTyped' /\ Neighbours'
    BY <1>3, <1>4, <1>5, DeleteKeeps DEF ChatInv
<1>7. SenderTyped'
    BY <1>1, SendersIdle DEF ChatInv
<1>8. QED
    BY <1>1, <1>6, <1>7 DEF ChatInv, ConversationsTyped

LEMMA RelabelKeeps ==
    ASSUME ChatInv, NEW c, NEW k \in Firm \cup {NoCompany}, Relabel(c, k)
    PROVE  ChatInv'
<1>1. writer = NoOne /\ UNCHANGED <<sender, writer, messages>>
    BY DEF Relabel
<1>2. DOMAIN conversations' = DOMAIN conversations /\ ConversationsTyped'
    BY DEF Relabel, ChatInv, ConversationsTyped, Labelled
<1>3. SenderTyped'
    BY <1>1, SendersIdle DEF ChatInv
<1>4. QED
    BY <1>1, <1>2, <1>3 DEF ChatInv, RowsTyped, Neighbours, Followed, Called, Heads, RowsOf

LEMMA NothingKeeps ==
    ASSUME ChatInv, UNCHANGED <<conversations, messages, sender, writer>>
    PROVE  ChatInv'
<1>1. NextMessage' = NextMessage
    BY DEF NextMessage
<1>2. \A t \in Sender : InTurn(sender[t]) => InTurn(sender[t])'
    BY <1>1 DEF InTurn, TurnRow
<1>3. SenderTyped'
    BY <1>2 DEF ChatInv, SenderTyped
<1>4. QED
    BY <1>3 DEF ChatInv, ConversationsTyped, RowsTyped, Neighbours, Followed, Called, Heads, RowsOf

LEMMA ChatInvNext ==
    ASSUME ChatInv, [ChatNext]_chatVars
    PROVE  ChatInv'
<1>1. CASE \E t \in Sender, u \in Owner, c \in 0 .. MaxConversation, stream \in BOOLEAN,
              named \in Firm \cup {NoCompany}, mentions \in SUBSET Firm :
                 Admit(t, u, c, stream, named, mentions)
    BY <1>1, AdmitKeeps
<1>2. CASE \E t \in Sender : SaveQuestion(t)
    BY <1>2, SaveQuestionKeeps
<1>3. CASE \E t \in Sender : QuestionFails(t) \/ TurnFails(t)
  <2>1. PICK t \in Sender : QuestionFails(t) \/ TurnFails(t)
      BY <1>3
  <2>2. /\ sender' = [sender EXCEPT ![t] = NoRequest]
        /\ UNCHANGED <<conversations, messages, writer>> /\ writer # t
      BY <2>1 DEF QuestionFails, TurnFails, ChatInv, SenderTyped
  <2>3. QED
      BY <2>2, BecomesIdle
<1>4. CASE \E t \in Sender, tools \in 0 .. MaxTools : Answer(t, tools)
    BY <1>4, AnswerKeeps
<1>5. CASE \E t \in Sender : GiveUp(t)
    BY <1>5, BecomesIdle DEF GiveUp
<1>6. CASE \E t \in Sender : ChatTurn(t)
    BY <1>6, ChatTurnKeeps
<1>7. CASE \E t \in Sender : RunTool(t)
    BY <1>7, RunToolKeeps
<1>8. CASE \E t \in Sender : CommitTurn(t)
    BY <1>8, CommitTurnKeeps
<1>9. CASE \E c \in 1 .. MaxConversation : Delete(c) \/ Retention(c)
    BY <1>9, KeepKeeps DEF Delete, Retention
<1>10. CASE \E n \in 1 .. MaxMessages : AuditRetention(n)
    BY <1>10, AuditRetentionKeeps
<1>11. CASE \E c \in 1 .. MaxConversation, k \in Firm \cup {NoCompany} : Relabel(c, k)
    BY <1>11, RelabelKeeps
<1>12. CASE (\E u \in Owner, ks \in SUBSET Firm : SaveScope(u, ks)) \/ Midnight \/ UNCHANGED chatVars
    BY <1>12, NothingKeeps DEF SaveScope, Midnight, chatVars
<1>13. QED
    BY <1>1, <1>2, <1>3, <1>4, <1>5, <1>6, <1>7, <1>8, <1>9, <1>10, <1>11, <1>12 DEF ChatNext

-----------------------------------------------------------------------------
(* Chat: the theorems                                                      *)

\* The history that is sent is the end of a conversation.
LEMMA HistoryIsAnEnd ==
    ASSUME ChatInv, NEW c, NEW i \in _load_history(c), NEW k \in RowsOf(c), i <= k
    PROVE  k \in _load_history(c)
<1> DEFINE From(x) == {j \in RowsOf(c) : x <= j}
<1>1. HISTORY_TURN_LIMIT \in Nat /\ MaxMessages \in Nat
    BY ChatAssumption
<1>2. RowsOf(c) \subseteq 1 .. MaxMessages /\ i \in RowsOf(c)
    BY DEF ChatInv, RowsTyped, RowsOf, _load_history
<1>3. From(k) \subseteq From(i)
    BY <1>1, <1>2
<1>4. IsFiniteSet(From(i))
  <2>1. From(i) \subseteq 1 .. MaxMessages
      BY <1>2
  <2>2. IsFiniteSet(1 .. MaxMessages)
      BY <1>1, FS_Interval
  <2>3. QED
      BY <2>1, <2>2, FS_Subset
<1>5. /\ Cardinality(From(k)) <= Cardinality(From(i))
      /\ Cardinality(From(k)) \in Nat /\ Cardinality(From(i)) \in Nat
    BY <1>3, <1>4, FS_Subset, FS_CardinalityType
<1>6. Cardinality(From(i)) <= HISTORY_TURN_LIMIT
    BY DEF _load_history
<1>7. Cardinality(From(k)) <= HISTORY_TURN_LIMIT
    BY <1>1, <1>5, <1>6
<1>8. QED
    BY <1>7 DEF _load_history

LEMMA EndsAreWhole ==
    ASSUME ChatInv, NEW c, NEW ids \in SUBSET RowsOf(c),
           \A i \in ids, k \in RowsOf(c) : i <= k => k \in ids
    PROVE  Whole(ids)
<1>1. \A i \in RowsOf(c) : /\ i \in DOMAIN messages /\ i \in Nat /\ messages[i].conv = c
                           /\ messages[i].call \in Nat
    BY DEF RowsOf, ChatInv, RowsTyped, Sent
<1>2. ASSUME NEW i \in ids, messages[i].role = "batch", NEW j \in 1 .. messages[i].call
      PROVE  i + j \in ids /\ messages[i + j] = Message(messages[i].conv, "tool", j)
  <2>1. i + j \in DOMAIN messages /\ messages[i + j] = Message(messages[i].conv, "tool", j)
      BY <1>1, <1>2 DEF ChatInv, Neighbours, Followed
  <2>2. i + j \in RowsOf(c) /\ i <= i + j
      BY <1>1, <2>1 DEF RowsOf, Message
  <2>3. QED
      BY <2>1, <2>2
<1>3. ASSUME NEW i \in ids, messages[i].role = "tool", ~\A k \in ids : i <= k
      PROVE  /\ i - 1 \in ids
             /\ \/ messages[i - 1].role = "tool" /\ messages[i - 1].call = messages[i].call - 1
                \/ messages[i - 1].role = "batch" /\ messages[i].call = 1
  <2>1. PICK k \in ids : ~(i <= k)
      BY <1>3
  <2>2. k \in RowsOf(c) /\ i \in RowsOf(c)
      OBVIOUS
  <2>3. ~Heads(i)
      BY <1>1, <2>1, <2>2 DEF Heads
  <2>4. Called(i)
      BY <1>1, <1>3, <2>2, <2>3 DEF ChatInv, Neighbours
  <2>5. i - 1 \in RowsOf(c) /\ k <= i - 1
      BY <1>1, <2>1, <2>2, <2>4 DEF Called, RowsOf
  <2>6. QED
      BY <2>4, <2>5 DEF Called
<1>4. QED
    BY <1>2, <1>3 DEF Whole

\* No conversation, and no history sent to the provider, holds half a turn
\* (_load_history and the loops of chat and chat_stream in app/routes/ai.py).
THEOREM HistoriesAreWhole == ChatInit /\ [][ChatNext]_chatVars => []HistoryWhole
<1>1. ChatInit => ChatInv
    BY ChatInvInit
<1>2. ChatInv /\ [ChatNext]_chatVars => ChatInv'
    BY ChatInvNext
<1>3. ChatInv => HistoryWhole
  <2>1. ASSUME ChatInv, NEW c \in DOMAIN conversations
        PROVE  Whole(RowsOf(c)) /\ Whole(_load_history(c))
    <3>1. Whole(RowsOf(c))
        BY <2>1, EndsAreWhole
    <3>2. _load_history(c) \in SUBSET RowsOf(c)
        BY DEF _load_history
    <3>3. Whole(_load_history(c))
        BY <2>1, <3>2, HistoryIsAnEnd, EndsAreWhole
    <3>4. QED
        BY <3>1, <3>3
  <2>2. QED
      BY <2>1 DEF HistoryWhole
<1>4. QED
    BY <1>1, <1>2, <1>3, PTL

\* Rows belong to a conversation there is, and whoever is in a turn holds the
\* write lock (the transaction of app/routes/ai.py).
THEOREM ChatTypeCorrect == ChatInit /\ [][ChatNext]_chatVars => []ChatTypeOK
<1>1. ChatInit => ChatInv
    BY ChatInvInit
<1>2. ChatInv /\ [ChatNext]_chatVars => ChatInv'
    BY ChatInvNext
<1>3. ChatInv => ChatTypeOK
    BY DEF ChatInv, ConversationsTyped, RowsTyped, SenderTyped, Labelled, ChatTypeOK
<1>4. QED
    BY <1>1, <1>2, <1>3, PTL

-----------------------------------------------------------------------------
(***************************************************************************)
(* Settings.  What a process still uses of an old value has a time left,   *)
(* which the caches, the readers under way and the lists of models share.  *)
(***************************************************************************)

-----------------------------------------------------------------------------
(* The forms                                                               *)

AISection == {"connection", "models", "limits", "fallback", "flags"}

\* A form stores at least one setting, and none is called "models".
LEMMA KeysOfForm ==
    ASSUME NEW s \in AISection, NEW typed \in BOOLEAN
    PROVE  /\ KeysOf(s, typed) # <<>>
           /\ \A i \in DOMAIN KeysOf(s, typed) : KeysOf(s, typed)[i] # "models"
<1>1. CASE s = "connection"
    BY <1>1 DEF KeysOf
<1>2. CASE s = "models"
    BY <1>2 DEF KeysOf
<1>3. CASE s = "limits"
    BY <1>3 DEF KeysOf
<1>4. CASE s = "fallback"
    BY <1>4 DEF KeysOf
<1>5. CASE s = "flags"
    BY <1>5 DEF KeysOf
<1>6. QED
    BY <1>1, <1>2, <1>3, <1>4, <1>5 DEF AISection

LEMMA SettingFacts ==
    /\ "models" \notin Setting
    /\ "base_url" \in SETTINGS_REGISTRY
    /\ SETTINGS_REGISTRY \subseteq Setting /\ AppKey \subseteq Setting
    /\ AppKey \cap {"base_url"} = {}
<1>1. \A s \in Section \ AppKey : s \in AISection \/ s = "units"
    BY SettingsAssumption DEF AppKey, AISection
<1>2. KeysOf("units", TRUE) = <<>>
    BY DEF KeysOf
<1>3. "models" \notin SETTINGS_REGISTRY
  <2>1. ASSUME NEW s \in Section \ AppKey, NEW i \in DOMAIN KeysOf(s, TRUE)
        PROVE  KeysOf(s, TRUE)[i] # "models"
    <3>1. CASE s \in AISection
        BY <3>1, KeysOfForm
    <3>2. CASE s = "units"
      <4>1. DOMAIN <<>> = {}
          OBVIOUS
      <4>2. QED
          BY <1>2, <2>1, <3>2, <4>1
    <3>3. QED
        BY <1>1, <3>1, <3>2
  <2>2. SUFFICES ASSUME "models" \in SETTINGS_REGISTRY PROVE FALSE
      OBVIOUS
  <2>3. PICK s \in Section \ AppKey :
            "models" \in {KeysOf(s, TRUE)[i] : i \in DOMAIN KeysOf(s, TRUE)}
      BY <2>2 DEF SETTINGS_REGISTRY
  <2>4. QED
      BY <2>1, <2>3
<1>4. "models" \notin AppKey /\ AppKey \cap {"base_url"} = {}
    BY DEF AppKey
<1>5. "base_url" \in SETTINGS_REGISTRY
    BY DEF SETTINGS_REGISTRY
<1>6. QED
    BY <1>3, <1>4, <1>5 DEF Setting

LEMMA FormNotEmpty ==
    ASSUME NEW s \in Section, s # "units", NEW typed \in BOOLEAN
    PROVE  KeysOf(s, typed) # <<>>
<1>1. CASE s \in AISection
    BY <1>1, KeysOfForm
<1>2. CASE s \in {"risk_tier_uppers", "combos_enabled", "number_format"}
    BY <1>2 DEF KeysOf
<1>3. QED
    BY <1>1, <1>2, SettingsAssumption DEF AISection

-----------------------------------------------------------------------------
(* What the threads may hold                                               *)

Reading == [op : {"read"}, key : Setting, value : Value, then : {"nothing", "models"}]
Fetching == [op : {"fetch"}, value : Value]
Loading == [op : {"load"}, aliases : Given .. Given + MaxSave]
ReaderState == {AtRest} \cup Reading \cup Fetching \cup Loading

\* A form that is being stored, whatever is still to be stored of it.
IsForm(f) ==
    /\ DOMAIN f = {"op", "section", "form", "todo"}
    /\ f.op \in {"commit", "bust", "invalidate"}
    /\ f.section \in Section
    /\ f.form \in Given .. Given + MaxSave

ModelsEntry == {NoEntry} \cup [value : Value, left : 1 .. MODELS_TTL]

SettingsTyped ==
    /\ running \in BOOLEAN
    /\ row \in [Setting -> Value \cup {Unset}]
    /\ cached \in [Setting -> Entry]
    /\ models \in ModelsEntry
    /\ unitTable \in Given .. Given + MaxSave
    /\ reader \in [Reader -> ReaderState]
    /\ DOMAIN saver = Saver
    /\ \A s \in Saver : saver[s] = AtRest \/ IsForm(saver[s])
    /\ sent \in 0 .. MaxSave
    /\ spell \in [Watched -> Nat]

\* Who loads the units holds their lock; the models are asked for after the
\* address; a form has something to store; a process that is down holds nothing.
Orderly ==
    /\ \A r \in Reader : reader[r].op = "load" <=> unitLock = r
    /\ \A r \in Reader : reader[r].op = "read" /\ reader[r].then = "models" =>
          reader[r].key = "base_url"
    /\ \A s \in Saver : saver[s].op = "commit" /\ saver[s].section # "units" =>
          saver[s].todo # <<>>
    /\ \A s \in Saver : saver[s].op = "bust" => saver[s].section # "units"
    /\ ~running => /\ \A k \in Setting : cached[k] = NoEntry
                   /\ models = NoEntry
                   /\ \A r \in Reader : reader[r] = AtRest
                   /\ \A k \in Watched : spell[k] = 0

\* Units that are, or are being, loaded as they were before a change will be
\* dropped by the one who changed them.
UnitsFollow ==
    /\ units \notin {NoUnits, <<unitTable, unitTable>>} =>
          \E s \in Saver : saver[s].op = "invalidate"
    /\ \A r \in Reader : reader[r].op = "load" /\ reader[r].aliases # unitTable =>
          \E s \in Saver : saver[s].op = "invalidate"

LEMMA InitTyped ==
    ASSUME SettingsInit
    PROVE  SettingsTyped /\ Orderly /\ UnitsFollow
<1>1. SettingsTyped
  <2>1. row \in [Setting -> Value \cup {Unset}]
      BY DEF SettingsInit
  <2>2. cached \in [Setting -> Entry]
      BY DEF SettingsInit, Entry
  <2>3. reader \in [Reader -> ReaderState]
      BY DEF SettingsInit, ReaderState
  <2>4. unitTable \in Given .. Given + MaxSave /\ sent \in 0 .. MaxSave
      BY SettingsAssumption DEF SettingsInit, Given
  <2>5. DOMAIN saver = Saver /\ \A s \in Saver : saver[s] = AtRest
      BY DEF SettingsInit
  <2>6. QED
      BY <2>1, <2>2, <2>3, <2>4, <2>5 DEF SettingsInit, SettingsTyped, ModelsEntry
<1>2. Orderly
    BY SettingsAssumption DEF SettingsInit, Orderly, AtRest
<1>3. UnitsFollow
    BY DEF SettingsInit, UnitsFollow, AtRest
<1>4. QED
    BY <1>1, <1>2, <1>3

-----------------------------------------------------------------------------
(* Types                                                                   *)

\* One step of a thread that reads, of a thread that saves, and of the rest.
ReaderMoves(r) ==
    \/ \E k \in Asked, then \in {"nothing", "models"} : ReadRow(r, k, then)
    \/ FetchModels(r)
    \/ LoadAliases(r)
    \/ GoOnReading(r)
SaverMoves(s) ==
    \/ \E section \in Section, typed \in BOOLEAN : Send(s, section, typed)
    \/ GoOnSaving(s)

LEMMA EffectiveTyped ==
    ASSUME SettingsTyped, NEW k \in Setting
    PROVE  Effective(k) \in Value
BY SettingsAssumption DEF SettingsTyped, Effective, Value, Unset, Default, Given

LEMMA OlderTyped ==
    ASSUME NEW n \in Nat \ {0}, NEW e \in {NoEntry} \cup [value : Value, left : 1 .. n]
    PROVE  /\ Older(e) \in {NoEntry} \cup [value : Value, left : 1 .. n]
           /\ Older(e) # NoEntry => /\ e # NoEntry
                                    /\ Older(e).value = e.value
                                    /\ Older(e).left = e.left - 1
           /\ e # NoEntry => e.left >= 1
<1>1. CASE e = NoEntry
    BY <1>1 DEF Older, NoEntry
<1>2. CASE e \in [value : Value, left : 1 .. n]
  <2>1. e.left \in 1 .. n /\ e.value \in Value /\ e # NoEntry
      BY <1>2 DEF NoEntry
  <2>2. CASE e.left <= 1
      BY <2>1, <2>2 DEF Older
  <2>3. CASE ~(e.left <= 1)
    <3>1. Older(e) = [e EXCEPT !.left = e.left - 1]
        BY <2>1, <2>3 DEF Older
    <3>2. e.left - 1 \in 1 .. n
        BY <2>1, <2>3
    <3>3. [e EXCEPT !.left = e.left - 1] \in [value : Value, left : 1 .. n]
          /\ [e EXCEPT !.left = e.left - 1].value = e.value
          /\ [e EXCEPT !.left = e.left - 1].left = e.left - 1
        BY <1>2, <3>2
    <3>4. QED
        BY <2>1, <3>1, <3>3
  <2>4. QED
      BY <2>2, <2>3
<1>3. QED
    BY <1>1, <1>2

\* A reader is at rest or holds one of three things.
LEMMA ReaderKinds ==
    ASSUME SettingsTyped, NEW r \in Reader
    PROVE  /\ reader[r].op \in {"none", "read", "fetch", "load"}
           /\ reader[r].op = "none" => reader[r] = AtRest
           /\ reader[r].op = "read" => reader[r] \in Reading
           /\ reader[r].op = "fetch" => reader[r] \in Fetching
           /\ reader[r].op = "load" => reader[r] \in Loading
<1>1. reader[r] \in ReaderState
    BY DEF SettingsTyped
<1>2. QED
    BY <1>1 DEF ReaderState, AtRest, Reading, Fetching, Loading

LEMMA FormKinds ==
    ASSUME SettingsTyped, NEW s \in Saver, saver[s].op \in {"commit", "bust", "invalidate"}
    PROVE  IsForm(saver[s]) /\ saver[s].form \in Value
<1>1. IsForm(saver[s])
    BY DEF SettingsTyped, AtRest
<1>2. Given .. Given + MaxSave \subseteq Value
    BY SettingsAssumption DEF Given, Value, Default
<1>3. QED
    BY <1>1, <1>2 DEF IsForm

LEMMA TypedReader ==
    ASSUME SettingsTyped, NEW r \in Reader, ReaderMoves(r)
    PROVE  SettingsTyped'
<1>1. ASSUME NEW x \in ReaderState, reader' = [reader EXCEPT ![r] = x],
             cached' \in [Setting -> Entry], models' \in ModelsEntry,
             UNCHANGED <<running, row, unitTable, saver, sent, spell>>
      PROVE  SettingsTyped'
    BY <1>1 DEF SettingsTyped
<1>2. ASSUME NEW k \in Asked, NEW then \in {"nothing", "models"}, ReadRow(r, k, then)
      PROVE  SettingsTyped'
  <2>1. k \in Setting /\ Effective(k) \in Value
      BY EffectiveTyped, SettingsAssumption
  <2>2. [op |-> "read", key |-> k, value |-> Effective(k), then |-> then] \in ReaderState
      BY <2>1 DEF ReaderState, Reading
  <2>3. QED
      BY <1>1, <1>2, <2>2 DEF ReadRow, SettingsTyped
<1>3. CASE FetchModels(r)
  <2>1. cached["base_url"] \in Entry /\ cached["base_url"] # NoEntry
      BY <1>3, SettingFacts DEF FetchModels, SettingsTyped
  <2>2. [op |-> "fetch", value |-> cached["base_url"].value] \in ReaderState
      BY <2>1 DEF ReaderState, Fetching, Entry
  <2>3. QED
      BY <1>1, <1>3, <2>2 DEF FetchModels, SettingsTyped
<1>4. CASE LoadAliases(r)
  <2>1. [op |-> "load", aliases |-> unitTable] \in ReaderState
      BY DEF ReaderState, Loading, SettingsTyped
  <2>2. QED
      BY <1>1, <1>4, <2>1 DEF LoadAliases, SettingsTyped
<1>5. AtRest \in ReaderState
    BY DEF ReaderState
<1>6. CASE PutCached(r)
  <2>1. reader[r] \in Reading
      BY <1>6, ReaderKinds DEF PutCached
  <2>2. reader[r].key \in Setting /\ reader[r].value \in Value
      BY <2>1 DEF Reading
  <2>3. [value |-> reader[r].value, left |-> TTL] \in Entry
      BY <2>2, SettingsAssumption DEF Entry
  <2>4. cached' \in [Setting -> Entry]
      BY <1>6, <2>2, <2>3 DEF PutCached, SettingsTyped
  <2>5. [op |-> "fetch", value |-> reader[r].value] \in ReaderState
      BY <2>2 DEF ReaderState, Fetching
  <2>6. \E x \in ReaderState : reader' = [reader EXCEPT ![r] = x]
    <3>1. reader' = [reader EXCEPT ![r] = IF reader[r].then = "models"
                                          THEN [op |-> "fetch", value |-> reader[r].value]
                                          ELSE AtRest]
        BY <1>6 DEF PutCached, SettingsTyped
    <3>2. QED
        BY <1>5, <2>5, <3>1
  <2>7. QED
      BY <1>1, <1>6, <2>4, <2>6 DEF PutCached, SettingsTyped
<1>7. CASE LoadFamilies(r)
    BY <1>1, <1>5, <1>7 DEF LoadFamilies, SettingsTyped
<1>8. ASSUME NEW ok \in BOOLEAN, Fetched(r, ok) PROVE SettingsTyped'
  <2>1. reader[r] \in Fetching
      BY <1>8, ReaderKinds DEF Fetched
  <2>2. [value |-> reader[r].value, left |-> MODELS_TTL] \in ModelsEntry
      BY <2>1, SettingsAssumption DEF Fetching, ModelsEntry
  <2>3. models' \in ModelsEntry
      BY <1>8, <2>2 DEF Fetched, SettingsTyped
  <2>4. QED
      BY <1>1, <1>5, <1>8, <2>3 DEF Fetched, SettingsTyped
<1>9. QED
    BY <1>2, <1>3, <1>4, <1>6, <1>7, <1>8 DEF ReaderMoves, GoOnReading

LEMMA TypedSaver ==
    ASSUME SettingsTyped, NEW s \in Saver, SaverMoves(s)
    PROVE  SettingsTyped'
<1>1. ASSUME NEW x, x = AtRest \/ IsForm(x), saver' = [saver EXCEPT ![s] = x],
             row' \in [Setting -> Value \cup {Unset}],
             cached' \in [Setting -> Entry], models' \in ModelsEntry,
             unitTable' \in Given .. Given + MaxSave, sent' \in 0 .. MaxSave,
             spell' \in [Watched -> Nat],
             UNCHANGED <<running, reader>>
      PROVE  SettingsTyped'
    BY <1>1 DEF SettingsTyped
<1>2. ASSUME NEW section \in Section, NEW typed \in BOOLEAN, Send(s, section, typed)
      PROVE  SettingsTyped'
  <2>1. sent' \in 0 .. MaxSave /\ Given + sent + 1 \in Given .. Given + MaxSave
      BY <1>2, SettingsAssumption DEF Send, SettingsTyped, Given
  <2>2. IsForm([op |-> "commit", section |-> section, form |-> Given + sent + 1,
                todo |-> KeysOf(section, typed)])
      BY <2>1 DEF IsForm
  <2>3. QED
      BY <1>1, <1>2, <2>1, <2>2 DEF Send, SettingsTyped
<1>3. CASE CommitRow(s)
  <2>1. IsForm(saver[s]) /\ saver[s].form \in Value
      BY <1>3, FormKinds DEF CommitRow
  <2> DEFINE x == [saver[s] EXCEPT !.op = "bust", !.todo = Tail(saver[s].todo)]
  <2>4. saver' = [saver EXCEPT ![s] = x]
      BY <1>3 DEF CommitRow, SettingsTyped
  <2>5. IsForm(x)
      BY <2>1 DEF IsForm
  <2>6. row' \in [Setting -> Value \cup {Unset}]
      BY <1>3, <2>1 DEF CommitRow, SettingsTyped
  <2>7. spell' \in [Watched -> Nat]
      BY <1>3 DEF CommitRow, SettingsTyped
  <2> HIDE DEF x
  <2>8. QED
      BY <1>1, <1>3, <2>4, <2>5, <2>6, <2>7 DEF CommitRow, SettingsTyped
<1>4. CASE bust_cache(s)
  <2>1. IsForm(saver[s])
      BY <1>4, FormKinds DEF bust_cache
  <2>2. IsForm([saver[s] EXCEPT !.op = "commit"])
      BY <2>1 DEF IsForm
  <2> DEFINE x == IF saver[s].todo = <<>> THEN AtRest ELSE [saver[s] EXCEPT !.op = "commit"]
  <2>3. saver' = [saver EXCEPT ![s] = x] /\ (x = AtRest \/ IsForm(x))
      BY <1>4, <2>2 DEF bust_cache, SettingsTyped
  <2>4. cached' \in [Setting -> Entry]
      BY <1>4 DEF bust_cache, SettingsTyped, Entry
  <2>5. models' \in ModelsEntry
      BY <1>4 DEF bust_cache, SettingsTyped, ModelsEntry
  <2> HIDE DEF x
  <2>6. QED
      BY <1>1, <1>4, <2>3, <2>4, <2>5 DEF bust_cache, SettingsTyped
<1>5. CASE CommitUnits(s)
  <2>1. IsForm(saver[s])
      BY <1>5, FormKinds DEF CommitUnits
  <2> DEFINE x == [saver[s] EXCEPT !.op = "invalidate"]
  <2>2. IsForm(x)
      BY <2>1 DEF IsForm
  <2>3. saver' = [saver EXCEPT ![s] = x]
      BY <1>5 DEF CommitUnits, SettingsTyped
  <2>4. unitTable' \in Given .. Given + MaxSave
      BY <1>5, <2>1 DEF CommitUnits, IsForm
  <2> HIDE DEF x
  <2>5. QED
      BY <1>1, <1>5, <2>2, <2>3, <2>4 DEF CommitUnits, SettingsTyped
<1>6. CASE invalidate_units(s)
    BY <1>1, <1>6 DEF invalidate_units, SettingsTyped
<1>7. QED
    BY <1>2, <1>3, <1>4, <1>5, <1>6 DEF SaverMoves, GoOnSaving

LEMMA TypedProcess ==
    ASSUME SettingsTyped, (\E seeds \in BOOLEAN : BootProcess(seeds)) \/ Die \/ TimePasses
    PROVE  SettingsTyped'
<1>1. ASSUME NEW seeds \in BOOLEAN, BootProcess(seeds) PROVE SettingsTyped'
  <2>1. Default \in Value /\ Given \in Value
      BY SettingsAssumption DEF Default, Given, Value
  <2>2. row' \in [Setting -> Value \cup {Unset}]
      BY <1>1, <2>1 DEF BootProcess, SettingsTyped
  <2>3. QED
      BY <1>1, <2>2 DEF BootProcess, SettingsTyped
<1>2. CASE Die
  <2>1. cached' \in [Setting -> Entry] /\ models' \in ModelsEntry
      BY <1>2 DEF Die, Entry, ModelsEntry
  <2>2. reader' \in [Reader -> ReaderState]
      BY <1>2 DEF Die, ReaderState
  <2>3. DOMAIN saver' = Saver /\ \A s \in Saver : saver'[s] = AtRest
      BY <1>2 DEF Die
  <2>4. QED
      BY <1>2, <2>1, <2>2, <2>3 DEF Die, SettingsTyped
<1>3. CASE TimePasses
  <2>1. \A k \in Setting : Older(cached[k]) \in Entry
      BY OlderTyped, SettingsAssumption DEF SettingsTyped, Entry
  <2>2. cached' \in [Setting -> Entry]
      BY <1>3, <2>1 DEF TimePasses
  <2>3. models' \in ModelsEntry
      BY <1>3, OlderTyped, SettingsAssumption DEF TimePasses, SettingsTyped, ModelsEntry
  <2>4. spell' \in [Watched -> Nat]
      BY <1>3 DEF TimePasses, SettingsTyped
  <2>5. QED
      BY <1>3, <2>2, <2>3, <2>4 DEF TimePasses, SettingsTyped
<1>4. QED
    BY <1>1, <1>2, <1>3

-----------------------------------------------------------------------------
(* Order                                                                   *)

LEMMA OrderlyReader ==
    ASSUME SettingsTyped, Orderly, NEW r \in Reader, ReaderMoves(r)
    PROVE  Orderly'
<1>1. running \/ reader[r] # AtRest
    BY DEF ReaderMoves, GoOnReading, ReadRow, FetchModels, LoadAliases, PutCached, LoadFamilies,
           Fetched, AtRest
<1>2. running
    BY <1>1 DEF Orderly
<1>3. ASSUME NEW x \in ReaderState, reader' = [reader EXCEPT ![r] = x],
             x.op = "read" /\ x.then = "models" => x.key = "base_url",
             reader[r].op # "load", x.op # "load", UNCHANGED <<unitLock, running, saver>>
      PROVE  Orderly'
    BY <1>2, <1>3 DEF Orderly, SettingsTyped
<1>4. ASSUME NEW k \in Asked, NEW then \in {"nothing", "models"}, ReadRow(r, k, then)
      PROVE  Orderly'
  <2>1. k \in Setting /\ Effective(k) \in Value
      BY EffectiveTyped, SettingsAssumption
  <2> DEFINE x == [op |-> "read", key |-> k, value |-> Effective(k), then |-> then]
  <2>2. x \in ReaderState
      BY <2>1 DEF ReaderState, Reading
  <2>3. x.op = "read" /\ (x.then = "models" => x.key = "base_url")
      BY <1>4 DEF ReadRow
  <2>4. reader' = [reader EXCEPT ![r] = x] /\ reader[r].op # "load"
        /\ UNCHANGED <<unitLock, running, saver>>
      BY <1>4 DEF ReadRow, AtRest
  <2> HIDE DEF x
  <2>5. QED
      BY <1>3, <2>2, <2>3, <2>4
<1>5. CASE FetchModels(r)
  <2>1. cached["base_url"] \in Entry /\ cached["base_url"] # NoEntry
      BY <1>5, SettingFacts DEF FetchModels, SettingsTyped
  <2> DEFINE x == [op |-> "fetch", value |-> cached["base_url"].value]
  <2>2. x \in ReaderState /\ x.op = "fetch"
      BY <2>1 DEF ReaderState, Fetching, Entry
  <2>3. reader' = [reader EXCEPT ![r] = x] /\ reader[r].op # "load"
        /\ UNCHANGED <<unitLock, running, saver>>
      BY <1>5 DEF FetchModels, AtRest
  <2> HIDE DEF x
  <2>4. QED
      BY <1>3, <2>2, <2>3
<1>6. CASE LoadAliases(r)
  <2> DEFINE x == [op |-> "load", aliases |-> unitTable]
  <2>1. reader' = [reader EXCEPT ![r] = x] /\ x.op = "load" /\ unitLock' = r /\ unitLock = Nobody
        /\ UNCHANGED <<running, saver>>
      BY <1>6 DEF LoadAliases
  <2> HIDE DEF x
  <2>2. \A q \in Reader : reader[q].op # "load"
      BY <2>1, SettingsAssumption DEF Orderly
  <2>3. QED
      BY <1>2, <2>1, <2>2 DEF Orderly, SettingsTyped
<1>7. AtRest \in ReaderState /\ AtRest.op = "none"
    BY DEF ReaderState, AtRest
<1>8. CASE PutCached(r)
  <2>1. reader[r] \in Reading
      BY <1>8, ReaderKinds DEF PutCached
  <2> DEFINE x == IF reader[r].then = "models" THEN [op |-> "fetch", value |-> reader[r].value]
                  ELSE AtRest
  <2>2. x \in ReaderState /\ x.op \in {"fetch", "none"}
      BY <1>7, <2>1 DEF ReaderState, Fetching, Reading
  <2>3. reader' = [reader EXCEPT ![r] = x] /\ reader[r].op # "load"
        /\ UNCHANGED <<unitLock, running, saver>>
      BY <1>8 DEF PutCached, SettingsTyped
  <2> HIDE DEF x
  <2>4. QED
      BY <1>3, <2>2, <2>3
<1>9. CASE LoadFamilies(r)
  <2>1. reader' = [reader EXCEPT ![r] = AtRest] /\ unitLock' = Nobody /\ unitLock = r
        /\ UNCHANGED <<running, saver>>
      BY <1>9 DEF LoadFamilies, Orderly
  <2>2. \A q \in Reader : q # r => reader[q].op # "load"
      BY <2>1 DEF Orderly
  <2>3. QED
      BY <1>2, <1>7, <2>1, <2>2, SettingsAssumption DEF Orderly, SettingsTyped
<1>10. ASSUME NEW ok \in BOOLEAN, Fetched(r, ok) PROVE Orderly'
    BY <1>3, <1>7, <1>10 DEF Fetched
<1>11. QED
    BY <1>4, <1>5, <1>6, <1>8, <1>9, <1>10 DEF ReaderMoves, GoOnReading

LEMMA OrderlySaver ==
    ASSUME SettingsTyped, Orderly, NEW s \in Saver, SaverMoves(s)
    PROVE  Orderly'
<1>1. ASSUME NEW x, saver' = [saver EXCEPT ![s] = x],
             x.op = "commit" /\ x.section # "units" => x.todo # <<>>,
             x.op = "bust" => x.section # "units",
             UNCHANGED <<running, unitLock, reader>>,
             ~running => UNCHANGED spell,
             \A k \in Setting : cached'[k] = cached[k] \/ cached'[k] = NoEntry,
             models' = models \/ models' = NoEntry
      PROVE  Orderly'
    BY <1>1 DEF Orderly, SettingsTyped
<1>2. ASSUME NEW section \in Section, NEW typed \in BOOLEAN, Send(s, section, typed)
      PROVE  Orderly'
  <2> DEFINE x == [op |-> "commit", section |-> section, form |-> Given + sent + 1,
                   todo |-> KeysOf(section, typed)]
  <2>1. /\ saver' = [saver EXCEPT ![s] = x]
        /\ UNCHANGED <<running, cached, models, unitLock, reader, spell>>
      BY <1>2 DEF Send
  <2>2. x.op = "commit" /\ (x.section # "units" => x.todo # <<>>)
      BY FormNotEmpty
  <2> HIDE DEF x
  <2>3. QED
      BY <1>1, <2>1, <2>2
<1>3. CASE CommitRow(s)
  <2>1. IsForm(saver[s]) /\ saver[s].section # "units"
      BY <1>3, FormKinds DEF CommitRow
  <2> DEFINE x == [saver[s] EXCEPT !.op = "bust", !.todo = Tail(saver[s].todo)]
  <2>2. x.op = "bust" /\ x.section # "units"
      BY <2>1 DEF IsForm
  <2>3. /\ saver' = [saver EXCEPT ![s] = x]
        /\ UNCHANGED <<running, cached, models, unitLock, reader>>
        /\ spell' = [k \in Watched |->
             IF Head(saver[s].todo) = (IF k = "models" THEN "base_url" ELSE k) THEN 0 ELSE spell[k]]
      BY <1>3 DEF CommitRow, SettingsTyped
  <2>4. ~running => \A k \in Watched : spell'[k] = 0
      BY <2>3 DEF Orderly
  <2> HIDE DEF x
  <2>5. QED
      BY <2>2, <2>3, <2>4 DEF Orderly, SettingsTyped
<1>4. CASE bust_cache(s)
  <2>1. IsForm(saver[s]) /\ saver[s].section # "units"
      BY <1>4, FormKinds DEF bust_cache, Orderly
  <2> DEFINE x == IF saver[s].todo = <<>> THEN AtRest ELSE [saver[s] EXCEPT !.op = "commit"]
  <2>2. /\ saver' = [saver EXCEPT ![s] = x]
        /\ UNCHANGED <<running, unitLock, reader, spell>>
        /\ models' = models \/ models' = NoEntry
      BY <1>4 DEF bust_cache, SettingsTyped
  <2>3. \A k \in Setting : cached'[k] = cached[k] \/ cached'[k] = NoEntry
      BY <1>4 DEF bust_cache
  <2>4. x.op # "bust" /\ (x.op = "commit" => x.todo # <<>>)
      BY <2>1 DEF IsForm, AtRest
  <2> HIDE DEF x
  <2>5. QED
      BY <1>1, <2>2, <2>3, <2>4
<1>5. CASE CommitUnits(s)
  <2>1. IsForm(saver[s])
      BY <1>5, FormKinds DEF CommitUnits
  <2> DEFINE x == [saver[s] EXCEPT !.op = "invalidate"]
  <2>2. x.op = "invalidate"
      BY <2>1 DEF IsForm
  <2>3. saver' = [saver EXCEPT ![s] = x] /\ UNCHANGED <<running, cached, models, unitLock, reader, spell>>
      BY <1>5 DEF CommitUnits, SettingsTyped
  <2> HIDE DEF x
  <2>4. QED
      BY <1>1, <2>2, <2>3
<1>6. CASE invalidate_units(s)
  <2>1. AtRest.op = "none"
      BY DEF AtRest
  <2>2. QED
      BY <1>1, <1>6, <2>1 DEF invalidate_units
<1>7. QED
    BY <1>2, <1>3, <1>4, <1>5, <1>6 DEF SaverMoves, GoOnSaving

LEMMA OrderlyProcess ==
    ASSUME SettingsTyped, Orderly, (\E seeds \in BOOLEAN : BootProcess(seeds)) \/ Die \/ TimePasses
    PROVE  Orderly'
<1>1. CASE \E seeds \in BOOLEAN : BootProcess(seeds)
    BY <1>1 DEF BootProcess, Orderly
<1>2. CASE Die
    BY <1>2, SettingsAssumption DEF Die, Orderly, AtRest
<1>3. CASE TimePasses
  <2>1. ~running => UNCHANGED <<cached, models>>
    <3>1. Older(NoEntry) = NoEntry
        BY DEF Older, NoEntry
    <3>2. ASSUME ~running PROVE cached' = cached /\ models' = models
      <4>1. \A k \in Setting : cached'[k] = cached[k]
          BY <1>3, <3>1, <3>2 DEF TimePasses, Orderly
      <4>2. QED
          BY <1>3, <3>1, <3>2, <4>1 DEF TimePasses, Orderly, SettingsTyped
    <3>3. QED
        BY <3>2
  <2>2. running
      BY <1>3, <2>1 DEF TimePasses
  <2>3. QED
      BY <1>3, <2>2 DEF TimePasses, Orderly
<1>4. QED
    BY <1>1, <1>2, <1>3

-----------------------------------------------------------------------------
(* The units                                                               *)

LEMMA UnitsReader ==
    ASSUME SettingsTyped, Orderly, UnitsFollow, NEW r \in Reader, ReaderMoves(r)
    PROVE  UnitsFollow'
<1>1. UNCHANGED <<unitTable, saver>>
    BY DEF ReaderMoves, GoOnReading, ReadRow, FetchModels, LoadAliases, PutCached, LoadFamilies,
           Fetched
<1>2. ASSUME NEW x, reader' = [reader EXCEPT ![r] = x],
             x.op = "load" => x.aliases = unitTable,
             UNCHANGED units
      PROVE  UnitsFollow'
    BY <1>1, <1>2 DEF UnitsFollow, SettingsTyped
<1>3. ASSUME NEW k \in Asked, NEW then \in {"nothing", "models"}, ReadRow(r, k, then)
      PROVE  UnitsFollow'
    BY <1>2, <1>3 DEF ReadRow
<1>4. CASE FetchModels(r)
    BY <1>2, <1>4 DEF FetchModels
<1>5. CASE LoadAliases(r)
    BY <1>2, <1>5 DEF LoadAliases
<1>6. CASE PutCached(r)
  <2> DEFINE x == IF reader[r].then = "models" THEN [op |-> "fetch", value |-> reader[r].value]
                  ELSE AtRest
  <2>1. reader' = [reader EXCEPT ![r] = x] /\ UNCHANGED units
      BY <1>6 DEF PutCached, SettingsTyped
  <2>2. x.op # "load"
      BY DEF AtRest
  <2> HIDE DEF x
  <2>3. QED
      BY <1>2, <2>1, <2>2
<1>7. CASE LoadFamilies(r)
  <2>1. /\ reader' = [reader EXCEPT ![r] = AtRest]
        /\ units' = <<reader[r].aliases, unitTable>>
        /\ reader[r].op = "load"
      BY <1>7 DEF LoadFamilies
  <2>2. reader[r].aliases = unitTable \/ \E s \in Saver : saver[s].op = "invalidate"
      BY <2>1 DEF UnitsFollow
  <2>3. QED
      BY <1>1, <2>1, <2>2 DEF UnitsFollow, SettingsTyped, AtRest
<1>8. ASSUME NEW ok \in BOOLEAN, Fetched(r, ok) PROVE UnitsFollow'
  <2>1. AtRest.op # "load"
      BY DEF AtRest
  <2>2. QED
      BY <1>2, <1>8, <2>1 DEF Fetched
<1>9. QED
    BY <1>3, <1>4, <1>5, <1>6, <1>7, <1>8 DEF ReaderMoves, GoOnReading

LEMMA UnitsSaver ==
    ASSUME SettingsTyped, Orderly, UnitsFollow, NEW s \in Saver, SaverMoves(s)
    PROVE  UnitsFollow'
<1>1. ASSUME NEW x, saver' = [saver EXCEPT ![s] = x], saver[s].op # "invalidate",
             UNCHANGED <<units, unitTable, reader>>
      PROVE  UnitsFollow'
    BY <1>1 DEF UnitsFollow, SettingsTyped
<1>2. ASSUME NEW section \in Section, NEW typed \in BOOLEAN, Send(s, section, typed)
      PROVE  UnitsFollow'
  <2>1. \E x : saver' = [saver EXCEPT ![s] = x]
      BY <1>2 DEF Send
  <2>2. saver[s].op # "invalidate" /\ UNCHANGED <<units, unitTable, reader>>
      BY <1>2 DEF Send, AtRest
  <2>3. QED
      BY <1>1, <2>1, <2>2
<1>3. CASE CommitRow(s)
  <2>1. \E x : saver' = [saver EXCEPT ![s] = x]
      BY <1>3 DEF CommitRow, SettingsTyped
  <2>2. QED
      BY <1>1, <1>3, <2>1 DEF CommitRow
<1>4. CASE bust_cache(s)
  <2>1. \E x : saver' = [saver EXCEPT ![s] = x]
      BY <1>4 DEF bust_cache, SettingsTyped
  <2>2. QED
      BY <1>1, <1>4, <2>1 DEF bust_cache
<1>5. CASE CommitUnits(s)
  <2>1. IsForm(saver[s])
      BY <1>5, FormKinds DEF CommitUnits
  <2>2. saver'[s].op = "invalidate"
      BY <1>5, <2>1 DEF CommitUnits, SettingsTyped, IsForm
  <2>3. QED
      BY <2>2 DEF UnitsFollow
<1>6. CASE invalidate_units(s)
  <2>1. \A r \in Reader : reader[r].op # "load"
      BY <1>6, SettingsAssumption DEF invalidate_units, Orderly
  <2>2. QED
      BY <1>6, <2>1 DEF invalidate_units, UnitsFollow
<1>7. QED
    BY <1>2, <1>3, <1>4, <1>5, <1>6 DEF SaverMoves, GoOnSaving

LEMMA UnitsProcess ==
    ASSUME UnitsFollow, (\E seeds \in BOOLEAN : BootProcess(seeds)) \/ Die \/ TimePasses
    PROVE  UnitsFollow'
BY DEF BootProcess, Die, TimePasses, UnitsFollow, AtRest

-----------------------------------------------------------------------------
(* What is old and may still be served                                     *)

Stale(k) == cached[k] # NoEntry /\ cached[k].value # Effective(k)
StaleModels == models # NoEntry /\ models.value # Effective("base_url")

\* Readers in the middle of reading setting k, or of fetching a list, who hold
\* what has been replaced.
StaleReaders(k) ==
    {r \in Reader : reader[r].op = "read" /\ reader[r].key = k /\ reader[r].value # Effective(k)}
StaleFetchers ==
    {r \in Reader : reader[r].op = "fetch" /\ reader[r].value # Effective("base_url")}

Left(k) == IF Stale(k) THEN cached[k].left ELSE 0

Times == Cardinality(Reader) + 1
\* For how long the lists of an old address can be served once the address is
\* no longer in the cache, and while it is.
AllLists == MODELS_TTL * Times
ModelsLeft ==
    IF Stale("base_url") THEN AllLists
    ELSE (IF StaleModels THEN models.left ELSE 0) + MODELS_TTL * Cardinality(StaleFetchers)

\* How long an old value was served, and how long it still may be, is never
\* more than what a change leaves.
SettingReserve(k) ==
    spell[k] + Left(k) + TTL * Cardinality(StaleReaders(k)) <= TTL * Times
ModelsReserve ==
    spell["models"] + Left("base_url") + ModelsLeft
        + (TTL + AllLists) * Cardinality(StaleReaders("base_url")) <= Patience

Reserves == (\A k \in Setting : SettingReserve(k)) /\ ModelsReserve

LEMMA Products ==
    ASSUME NEW m \in Nat, NEW a \in Nat, NEW b \in Nat, a <= b
    PROVE  /\ m * a \in Nat /\ m * b \in Nat
           /\ m * a <= m * b
           /\ a < b => m * a + m <= m * b
<1>1. m * a \in Nat /\ m * b \in Nat
    OBVIOUS
<1>2. PICK d \in Nat : b = a + d
  <2>1. b - a \in Nat /\ b = a + (b - a)
      OBVIOUS
  <2>2. QED
      BY <2>1
<1>3. m * b = m * a + m * d /\ m * d \in Nat
    BY <1>2
<1>4. a < b => m * d >= m
  <2>1. SUFFICES ASSUME a < b PROVE m * d >= m
      OBVIOUS
  <2>2. PICK e \in Nat : d = e + 1
    <3>1. d - 1 \in Nat /\ d = (d - 1) + 1
        BY <1>2, <2>1
    <3>2. QED
        BY <3>1
  <2>3. m * d = m * e + m /\ m * e \in Nat
      BY <2>2
  <2>4. QED
      BY <2>3
<1>5. QED
    BY <1>1, <1>3, <1>4

\* Sets of readers weigh no more than the sets they are part of.
LEMMA Weights ==
    ASSUME NEW S \in SUBSET Reader, NEW T \in SUBSET S, NEW m \in Nat
    PROVE  /\ m * Cardinality(S) \in Nat /\ m * Cardinality(T) \in Nat
           /\ m * Cardinality(T) <= m * Cardinality(S)
           /\ T # S => m * Cardinality(T) + m <= m * Cardinality(S)
           /\ m * Cardinality(S) + m <= m * Times
           /\ m * Times \in Nat
<1>1. IsFiniteSet(Reader) /\ IsFiniteSet(S) /\ IsFiniteSet(T)
    BY FS_Subset, SettingsAssumption
<1>2. /\ Cardinality(Reader) \in Nat /\ Cardinality(S) \in Nat /\ Cardinality(T) \in Nat
      /\ Cardinality(S) <= Cardinality(Reader) /\ Cardinality(T) <= Cardinality(S)
      /\ T # S => Cardinality(T) < Cardinality(S)
    BY <1>1, FS_Subset, FS_CardinalityType
<1>3. Times \in Nat /\ Cardinality(S) < Times /\ Cardinality(S) <= Times
    BY <1>2 DEF Times
<1>4. PICK a \in Nat : a = Cardinality(S)
    BY <1>2
<1>5. PICK b \in Nat : b = Cardinality(T)
    BY <1>2
<1>6. PICK c \in Nat : c = Times
    BY <1>3
<1>7. /\ m * a \in Nat /\ m * b \in Nat /\ m * c \in Nat
      /\ m * b <= m * a
      /\ b < a => m * b + m <= m * a
      /\ m * a + m <= m * c
  <2>1. b <= a /\ a < c /\ a <= c
      BY <1>2, <1>3, <1>4, <1>5, <1>6
  <2>2. QED
      BY <2>1, Products
<1>8. QED
    BY <1>2, <1>4, <1>5, <1>6, <1>7

LEMMA LeftTyped == SettingsTyped => \A k \in Setting : Left(k) \in 0 .. TTL
<1> SUFFICES ASSUME SettingsTyped, NEW k \in Setting PROVE Left(k) \in 0 .. TTL
    OBVIOUS
<1>1. cached[k] \in Entry /\ TTL \in Nat
    BY SettingsAssumption DEF SettingsTyped
<1>2. QED
    BY <1>1 DEF Left, Stale, Entry

LEMMA StaleSets ==
    ASSUME NEW k
    PROVE  StaleReaders(k) \in SUBSET Reader /\ StaleFetchers \in SUBSET Reader
BY DEF StaleReaders, StaleFetchers

LEMMA AllListsTyped == AllLists \in Nat /\ TTL \in Nat /\ TTL + AllLists \in Nat
<1>1. MODELS_TTL \in Nat /\ TTL \in Nat
    BY SettingsAssumption
<1>2. MODELS_TTL * Times \in Nat
    BY <1>1, Weights
<1>3. QED
    BY <1>1, <1>2 DEF AllLists

LEMMA ModelsLeftTyped == SettingsTyped => ModelsLeft \in 0 .. AllLists
<1> SUFFICES ASSUME SettingsTyped PROVE ModelsLeft \in 0 .. AllLists
    OBVIOUS
<1>1. CASE Stale("base_url")
    BY <1>1, AllListsTyped DEF ModelsLeft
<1>2. CASE ~Stale("base_url")
  <2>1. PICK x \in 0 .. MODELS_TTL : x = IF StaleModels THEN models.left ELSE 0
      BY SettingsAssumption DEF SettingsTyped, StaleModels, ModelsEntry
  <2>2. PICK y \in Nat : y = MODELS_TTL * Cardinality(StaleFetchers) /\ y + MODELS_TTL <= AllLists
      BY Weights, StaleSets, SettingsAssumption DEF AllLists
  <2>3. ModelsLeft = x + y
      BY <1>2, <2>1, <2>2 DEF ModelsLeft
  <2>4. QED
      BY <2>1, <2>2, <2>3, AllListsTyped, SettingsAssumption
<1>3. QED
    BY <1>1, <1>2

LEMMA LeftTypedNext == SettingsTyped' => (\A k \in Setting : Left(k) \in 0 .. TTL)'
BY LeftTyped, PTL

LEMMA ModelsLeftTypedNext == SettingsTyped' => (ModelsLeft \in 0 .. AllLists)'
BY ModelsLeftTyped, PTL

\* The three ways in which the account of a setting moves: it does not grow; a
\* reader puts back what is old and is one less; a change starts it anew.
LEMMA SettingMoves ==
    ASSUME SettingsTyped, SettingsTyped', NEW k \in Setting, SettingReserve(k),
           \/ /\ spell'[k] + Left(k)' <= spell[k] + Left(k)
              /\ StaleReaders(k)' \subseteq StaleReaders(k)
           \/ /\ spell'[k] = spell[k]
              /\ StaleReaders(k)' \subseteq StaleReaders(k) /\ StaleReaders(k)' # StaleReaders(k)
           \/ spell'[k] = 0
    PROVE  SettingReserve(k)'
<1>1. k \in Watched
    BY DEF Watched
<1>2. spell[k] \in Nat /\ spell'[k] \in Nat
    BY <1>1 DEF SettingsTyped
<1>3. Left(k) \in 0 .. TTL /\ Left(k)' \in 0 .. TTL /\ TTL \in Nat
    BY LeftTyped, LeftTypedNext, SettingsAssumption
<1>4. PICK S \in SUBSET Reader : S = StaleReaders(k)
    BY StaleSets
<1>5. PICK T \in SUBSET Reader : T = StaleReaders(k)'
    BY DEF StaleReaders
<1>6. /\ TTL * Cardinality(S) \in Nat /\ TTL * Cardinality(T) \in Nat /\ TTL * Times \in Nat
      /\ T \subseteq S => TTL * Cardinality(T) <= TTL * Cardinality(S)
      /\ T \subseteq S /\ T # S => TTL * Cardinality(T) + TTL <= TTL * Cardinality(S)
      /\ TTL * Cardinality(T) + TTL <= TTL * Times
    BY <1>3, Weights
<1> DEFINE s == TTL * Cardinality(S)  t == TTL * Cardinality(T)  all == TTL * Times
           l == Left(k)  m == Left(k)'
<1>7. spell[k] + l + s <= all
    BY <1>4 DEF SettingReserve
<1>8. spell'[k] + m + t <= all
  <2>1. s \in Nat /\ t \in Nat /\ all \in Nat /\ l \in 0 .. TTL /\ m \in 0 .. TTL
      BY <1>3, <1>6
  <2>2. /\ T \subseteq S => t <= s
        /\ T \subseteq S /\ T # S => t + TTL <= s
        /\ t + TTL <= all
      BY <1>6
  <2>3. \/ spell'[k] + m <= spell[k] + l /\ T \subseteq S
        \/ spell'[k] = spell[k] /\ T \subseteq S /\ T # S
        \/ spell'[k] = 0
      BY <1>4, <1>5
  <2> HIDE DEF s, t, all, l, m
  <2>4. QED
      BY <1>2, <1>3, <1>7, <2>1, <2>2, <2>3
<1>9. QED
    BY <1>5, <1>8 DEF SettingReserve

\* The same of the list of models.
LEMMA ModelsMove ==
    ASSUME SettingsTyped, SettingsTyped', ModelsReserve,
           \/ /\ spell'["models"] + Left("base_url")' + ModelsLeft'
                    <= spell["models"] + Left("base_url") + ModelsLeft
              /\ StaleReaders("base_url")' \subseteq StaleReaders("base_url")
           \/ /\ spell'["models"] = spell["models"]
              /\ StaleReaders("base_url")' \subseteq StaleReaders("base_url")
              /\ StaleReaders("base_url")' # StaleReaders("base_url")
           \/ spell'["models"] = 0
    PROVE  ModelsReserve'
<1>1. spell["models"] \in Nat /\ spell'["models"] \in Nat
    BY DEF SettingsTyped, Watched
<1>2. Left("base_url") \in 0 .. TTL /\ Left("base_url")' \in 0 .. TTL /\ TTL \in Nat
    BY LeftTyped, LeftTypedNext, SettingFacts, SettingsAssumption
<1>3. ModelsLeft \in 0 .. AllLists /\ ModelsLeft' \in 0 .. AllLists /\ AllLists \in Nat
    BY ModelsLeftTyped, ModelsLeftTypedNext, AllListsTyped
<1>4. PICK S \in SUBSET Reader : S = StaleReaders("base_url")
    BY StaleSets
<1>5. PICK T \in SUBSET Reader : T = StaleReaders("base_url")'
    BY DEF StaleReaders
<1>6. PICK w \in Nat : w = TTL + AllLists
    BY AllListsTyped
<1>7. /\ w * Cardinality(S) \in Nat /\ w * Cardinality(T) \in Nat /\ w * Times \in Nat
      /\ T \subseteq S => w * Cardinality(T) <= w * Cardinality(S)
      /\ T \subseteq S /\ T # S => w * Cardinality(T) + w <= w * Cardinality(S)
      /\ w * Cardinality(T) + w <= w * Times
    BY <1>6, Weights
<1>8. Patience = w * Times
    BY <1>6 DEF Patience, Times, AllLists
<1> DEFINE s == w * Cardinality(S)  t == w * Cardinality(T)  all == w * Times
           l == Left("base_url")  m == Left("base_url")'
           f == ModelsLeft  g == ModelsLeft'
<1>9. spell["models"] + l + f + s <= all
    BY <1>4, <1>6, <1>8 DEF ModelsReserve
<1>10. spell'["models"] + m + g + t <= all
  <2>1. /\ s \in Nat /\ t \in Nat /\ all \in Nat /\ l \in 0 .. TTL /\ m \in 0 .. TTL
        /\ f \in 0 .. AllLists /\ g \in 0 .. AllLists
      BY <1>2, <1>3, <1>7
  <2>2. /\ T \subseteq S => t <= s
        /\ T \subseteq S /\ T # S => t + w <= s
        /\ t + w <= all
      BY <1>7
  <2>3. \/ spell'["models"] + m + g <= spell["models"] + l + f /\ T \subseteq S
        \/ spell'["models"] = spell["models"] /\ T \subseteq S /\ T # S
        \/ spell'["models"] = 0
      BY <1>4, <1>5
  <2> HIDE DEF s, t, all, l, m, f, g
  <2>4. QED
      BY <1>1, <1>2, <1>3, <1>6, <1>9, <2>1, <2>2, <2>3
<1>11. Patience' = Patience
    BY DEF Patience
<1>12. QED
    BY <1>5, <1>6, <1>8, <1>10 DEF ModelsReserve

\* The lists that may still come grow fewer unless an old address comes back.
LEMMA ModelsShrink ==
    ASSUME SettingsTyped, SettingsTyped', Stale("base_url")' => Stale("base_url"),
           ~Stale("base_url") => /\ StaleModels' => StaleModels /\ models' = models
                                 /\ StaleFetchers' \subseteq StaleFetchers
    PROVE  ModelsLeft' <= ModelsLeft
<1>1. ModelsLeft \in 0 .. AllLists /\ ModelsLeft' \in 0 .. AllLists /\ AllLists \in Nat
    BY ModelsLeftTyped, ModelsLeftTypedNext, AllListsTyped
<1>2. CASE Stale("base_url")
  <2>1. ModelsLeft = AllLists
      BY <1>2 DEF ModelsLeft
  <2>2. QED
      BY <1>1, <2>1
<1>3. CASE ~Stale("base_url")
  <2>1. PICK S \in SUBSET Reader : S = StaleFetchers
      BY StaleSets
  <2>2. PICK T \in SUBSET S : T = StaleFetchers'
      BY <1>3, <2>1
  <2>3. PICK a \in Nat : a = MODELS_TTL * Cardinality(S)
      BY <2>1, Weights, SettingsAssumption
  <2>4. PICK b \in Nat : b = MODELS_TTL * Cardinality(T) /\ b <= a
      BY <2>1, <2>3, Weights, SettingsAssumption
  <2>5. PICK x \in Nat : x = IF StaleModels THEN models.left ELSE 0
      BY SettingsAssumption DEF SettingsTyped, StaleModels, ModelsEntry
  <2>6. PICK y \in Nat : y = (IF StaleModels' THEN models'.left ELSE 0) /\ y <= x
      BY <1>3, <2>5 DEF SettingsTyped, StaleModels
  <2>7. ModelsLeft = x + a
      BY <1>3, <2>1, <2>3, <2>5 DEF ModelsLeft
  <2>8. ModelsLeft' = y + b
      BY <1>3, <2>2, <2>4, <2>6 DEF ModelsLeft
  <2>9. QED
      BY <2>3, <2>4, <2>5, <2>6, <2>7, <2>8
<1>4. QED
    BY <1>2, <1>3

\* Steps that put nothing old anywhere.
LEMMA ReservesQuiet ==
    ASSUME SettingsTyped, SettingsTyped', Reserves, UNCHANGED spell,
           \A k \in Setting : /\ Left(k)' <= Left(k)
                              /\ StaleReaders(k)' \subseteq StaleReaders(k),
           ModelsLeft' <= ModelsLeft
    PROVE  Reserves'
<1>1. ASSUME NEW k \in Setting PROVE SettingReserve(k)'
  <2>1. spell[k] \in Nat
      BY DEF SettingsTyped, Watched
  <2>2. Left(k) \in 0 .. TTL /\ Left(k)' \in 0 .. TTL
      BY LeftTyped, LeftTypedNext
  <2>3. spell'[k] + Left(k)' <= spell[k] + Left(k)
      BY <2>1, <2>2, AllListsTyped
  <2>4. QED
      BY <2>3, SettingMoves DEF Reserves
<1>2. ModelsReserve'
  <2>1. spell["models"] \in Nat
      BY DEF SettingsTyped, Watched
  <2>2. Left("base_url") \in 0 .. TTL /\ Left("base_url")' \in 0 .. TTL
        /\ Left("base_url")' <= Left("base_url")
      BY LeftTyped, LeftTypedNext, SettingFacts
  <2>3. ModelsLeft \in 0 .. AllLists /\ ModelsLeft' \in 0 .. AllLists
      BY ModelsLeftTyped, ModelsLeftTypedNext
  <2>4. spell'["models"] + Left("base_url")' + ModelsLeft'
            <= spell["models"] + Left("base_url") + ModelsLeft
      BY <2>1, <2>2, <2>3, AllListsTyped
  <2>5. QED
      BY <2>4, ModelsMove, SettingFacts DEF Reserves
<1>3. QED
    BY <1>1, <1>2 DEF Reserves

\* Without a change of the rows and of the cache of settings.
LEMMA CachesSame ==
    ASSUME UNCHANGED <<row, cached>>, NEW k
    PROVE  /\ Effective(k)' = Effective(k)
           /\ Stale(k)' <=> Stale(k)
           /\ Left(k)' = Left(k)
BY DEF Effective, Stale, Left

LEMMA ReservesSame ==
    ASSUME SettingsTyped, SettingsTyped', Reserves, UNCHANGED <<row, cached, models, spell>>,
           \A k \in Setting : StaleReaders(k)' \subseteq StaleReaders(k),
           ~Stale("base_url") => StaleFetchers' \subseteq StaleFetchers
    PROVE  Reserves'
<1>1. StaleModels' <=> StaleModels
    BY DEF StaleModels, Effective
<1>2. ModelsLeft' <= ModelsLeft
    BY <1>1, CachesSame, ModelsShrink
<1>3. \A k \in Setting : Left(k)' <= Left(k)
  <2>1. \A k \in Setting : Left(k)' = Left(k) /\ Left(k) \in 0 .. TTL
      BY CachesSame, LeftTyped
  <2>2. QED
      BY <2>1, AllListsTyped
<1>4. QED
    BY <1>2, <1>3, ReservesQuiet

\* One reader moves; the others hold what they held.
LEMMA OneReader ==
    ASSUME SettingsTyped, NEW r \in Reader, NEW x, reader' = [reader EXCEPT ![r] = x], UNCHANGED row
    PROVE  /\ \A k : x.op # "read" \/ x.key # k \/ x.value = Effective(k) =>
                        StaleReaders(k)' = StaleReaders(k) \ {r}
           /\ x.op # "fetch" \/ x.value = Effective("base_url") =>
                        StaleFetchers' = StaleFetchers \ {r}
<1>1. /\ reader'[r] = x
      /\ \A q \in Reader : q # r => reader'[q] = reader[q]
      /\ \A k : Effective(k)' = Effective(k)
    BY DEF SettingsTyped, Effective
<1>2. QED
    BY <1>1 DEF StaleReaders, StaleFetchers

LEMMA ReservesReader ==
    ASSUME SettingsTyped, SettingsTyped', Orderly, Reserves, NEW r \in Reader, ReaderMoves(r)
    PROVE  Reserves'
<1>1. UNCHANGED <<row, spell>>
    BY DEF ReaderMoves, GoOnReading, ReadRow, FetchModels, LoadAliases, PutCached, LoadFamilies,
           Fetched
<1>2. ASSUME NEW k \in Asked, NEW then \in {"nothing", "models"}, ReadRow(r, k, then)
      PROVE  Reserves'
  <2> DEFINE x == [op |-> "read", key |-> k, value |-> Effective(k), then |-> then]
  <2>1. reader' = [reader EXCEPT ![r] = x] /\ UNCHANGED <<cached, models>>
      BY <1>2 DEF ReadRow
  <2>2. x.op = "read" /\ x.key = k /\ x.value = Effective(k)
      OBVIOUS
  <2> HIDE DEF x
  <2>3. /\ \A j : StaleReaders(j)' = StaleReaders(j) \ {r}
        /\ StaleFetchers' = StaleFetchers \ {r}
      BY <1>1, <2>1, <2>2, OneReader
  <2>4. QED
      BY <1>1, <2>1, <2>3, ReservesSame
<1>3. CASE FetchModels(r)
  <2> DEFINE x == [op |-> "fetch", value |-> cached["base_url"].value]
  <2>1. reader' = [reader EXCEPT ![r] = x] /\ UNCHANGED <<cached, models>>
        /\ cached["base_url"] # NoEntry
      BY <1>3 DEF FetchModels
  <2>2. x.op = "fetch" /\ (~Stale("base_url") => x.value = Effective("base_url"))
      BY <2>1 DEF Stale
  <2> HIDE DEF x
  <2>3. \A j : StaleReaders(j)' = StaleReaders(j) \ {r}
      BY <1>1, <2>1, <2>2, OneReader
  <2>4. ~Stale("base_url") => StaleFetchers' = StaleFetchers \ {r}
      BY <1>1, <2>1, <2>2, OneReader
  <2>5. QED
      BY <1>1, <2>1, <2>3, <2>4, ReservesSame
<1>4. CASE LoadAliases(r)
  <2> DEFINE x == [op |-> "load", aliases |-> unitTable]
  <2>1. reader' = [reader EXCEPT ![r] = x] /\ UNCHANGED <<cached, models>> /\ x.op = "load"
      BY <1>4 DEF LoadAliases
  <2> HIDE DEF x
  <2>2. /\ \A j : StaleReaders(j)' = StaleReaders(j) \ {r}
        /\ StaleFetchers' = StaleFetchers \ {r}
      BY <1>1, <2>1, OneReader
  <2>3. QED
      BY <1>1, <2>1, <2>2, ReservesSame
<1>5. AtRest.op = "none"
    BY DEF AtRest
<1>6. CASE LoadFamilies(r)
  <2>1. reader' = [reader EXCEPT ![r] = AtRest] /\ UNCHANGED <<cached, models>>
      BY <1>6 DEF LoadFamilies
  <2>2. /\ \A j : StaleReaders(j)' = StaleReaders(j) \ {r}
        /\ StaleFetchers' = StaleFetchers \ {r}
      BY <1>1, <1>5, <2>1, OneReader
  <2>3. QED
      BY <1>1, <2>1, <2>2, ReservesSame
<1>7. ASSUME NEW ok \in BOOLEAN, Fetched(r, ok) PROVE Reserves'
  <2>1. /\ reader' = [reader EXCEPT ![r] = AtRest] /\ UNCHANGED cached
        /\ models' = IF ok THEN [value |-> reader[r].value, left |-> MODELS_TTL] ELSE models
        /\ reader[r].op = "fetch"
      BY <1>7 DEF Fetched
  <2>2. /\ \A j : StaleReaders(j)' = StaleReaders(j) \ {r}
        /\ StaleFetchers' = StaleFetchers \ {r}
      BY <1>1, <1>5, <2>1, OneReader
  <2>3. /\ \A k \in Setting : Left(k)' <= Left(k)
        /\ Stale("base_url")' <=> Stale("base_url")
    <3>1. \A k \in Setting : Left(k)' = Left(k) /\ Left(k) \in 0 .. TTL
        BY <1>1, <2>1, CachesSame, LeftTyped
    <3>2. QED
        BY <1>1, <2>1, <3>1, CachesSame, AllListsTyped
  <2>4. CASE models' = models
    <3>1. StaleModels' <=> StaleModels
        BY <1>1, <2>4 DEF StaleModels, Effective
    <3>2. ModelsLeft' <= ModelsLeft
        BY <2>2, <2>3, <2>4, <3>1, ModelsShrink
    <3>3. QED
        BY <1>1, <2>2, <2>3, <3>2, ReservesQuiet
  <2>5. CASE models' # models
    <3>1. models'.value = reader[r].value /\ models'.left = MODELS_TTL
        BY <2>1, <2>5
    <3>2. ModelsLeft' <= ModelsLeft
      <4>1. ModelsLeft \in 0 .. AllLists /\ ModelsLeft' \in 0 .. AllLists /\ AllLists \in Nat
          BY ModelsLeftTyped, ModelsLeftTypedNext, AllListsTyped
      <4>2. CASE Stale("base_url")
          BY <4>1, <4>2 DEF ModelsLeft
      <4>3. CASE ~Stale("base_url") /\ ~StaleModels'
        <5>1. /\ StaleModels' => StaleModels
              /\ ~Stale("base_url")'
            BY <2>3, <4>3
        <5>2. PICK S \in SUBSET Reader : S = StaleFetchers
            BY StaleSets
        <5>3. PICK T \in SUBSET S : T = StaleFetchers'
            BY <2>2, <5>2
        <5>4. PICK a \in Nat : a = MODELS_TTL * Cardinality(S)
            BY <5>2, Weights, SettingsAssumption
        <5>5. PICK b \in Nat : b = MODELS_TTL * Cardinality(T) /\ b <= a
            BY <5>2, <5>4, Weights, SettingsAssumption
        <5>6. PICK y \in Nat : y = IF StaleModels THEN models.left ELSE 0
            BY SettingsAssumption DEF SettingsTyped, StaleModels, ModelsEntry
        <5>7. ModelsLeft = y + a
            BY <4>3, <5>2, <5>4, <5>6 DEF ModelsLeft
        <5>8. ModelsLeft' = b
            BY <4>3, <5>1, <5>3, <5>5 DEF ModelsLeft
        <5>9. QED
            BY <5>4, <5>5, <5>6, <5>7, <5>8
      <4>4. CASE ~Stale("base_url") /\ StaleModels'
        <5>1. reader[r].value # Effective("base_url")
            BY <1>1, <3>1, <4>4 DEF StaleModels, Effective
        <5>2. r \in StaleFetchers /\ ~Stale("base_url")'
            BY <2>1, <2>3, <4>4, <5>1 DEF StaleFetchers
        <5>3. PICK S \in SUBSET Reader : S = StaleFetchers
            BY StaleSets
        <5>4. PICK T \in SUBSET S : T = StaleFetchers' /\ T # S
            BY <2>2, <5>2, <5>3
        <5>5. PICK a \in Nat : a = MODELS_TTL * Cardinality(S)
            BY <5>3, Weights, SettingsAssumption
        <5>6. PICK b \in Nat : b = MODELS_TTL * Cardinality(T) /\ b + MODELS_TTL <= a
            BY <5>3, <5>4, <5>5, Weights, SettingsAssumption
        <5>7. PICK y \in Nat : y = IF StaleModels THEN models.left ELSE 0
            BY SettingsAssumption DEF SettingsTyped, StaleModels, ModelsEntry
        <5>8. ModelsLeft = y + a
            BY <4>4, <5>3, <5>5, <5>7 DEF ModelsLeft
        <5>9. ModelsLeft' = MODELS_TTL + b
            BY <3>1, <4>4, <5>2, <5>4, <5>6 DEF ModelsLeft
        <5>10. QED
            BY <5>5, <5>6, <5>7, <5>8, <5>9, SettingsAssumption
      <4>5. QED
          BY <4>2, <4>3, <4>4
    <3>3. QED
        BY <1>1, <2>2, <2>3, <3>2, ReservesQuiet
  <2>6. QED
      BY <2>4, <2>5
<1>8. CASE PutCached(r)
  <2>1. reader[r] \in Reading
      BY <1>8, ReaderKinds DEF PutCached
  <2>2. PICK b \in Setting : b = reader[r].key
      BY <2>1 DEF Reading
  <2>19. PICK v \in Value : v = reader[r].value
      BY <2>1 DEF Reading
  <2> DEFINE x == IF reader[r].then = "models" THEN [op |-> "fetch", value |-> v] ELSE AtRest
  <2>3. /\ reader[r].op = "read"
        /\ reader' = [reader EXCEPT ![r] = x] /\ UNCHANGED models
        /\ cached' = [cached EXCEPT ![b] = [value |-> v, left |-> TTL]]
      BY <1>8, <2>2, <2>19 DEF PutCached, SettingsTyped
  <2>4. x.op = IF reader[r].then = "models" THEN "fetch" ELSE "none"
      BY <1>5
  <2>5. x.op = "fetch" => x.value = v /\ b = "base_url"
      BY <1>5, <2>2, <2>3 DEF Orderly
  <2>6. /\ x.op # "read"
        /\ v # Effective(b) => r \in StaleReaders(b)
      BY <2>2, <2>3, <2>4, <2>19 DEF StaleReaders
  <2>7. \A k \in Setting : k # b => cached'[k] = cached[k]
      BY <2>2, <2>3 DEF SettingsTyped
  <2>8. cached'[b] = [value |-> v, left |-> TTL] /\ cached'[b] # NoEntry
    <3>1. cached'[b] = [value |-> v, left |-> TTL]
        BY <2>2, <2>3 DEF SettingsTyped
    <3>2. [value |-> v, left |-> TTL] # NoEntry
        BY SettingsAssumption DEF NoEntry
    <3>3. QED
        BY <3>1, <3>2
  <2> HIDE DEF x
  <2>9. \A k : StaleReaders(k)' = StaleReaders(k) \ {r}
      BY <1>1, <2>3, <2>6, OneReader
  <2>10. x.op # "fetch" \/ v = Effective("base_url") => StaleFetchers' = StaleFetchers \ {r}
      BY <1>1, <2>3, <2>5, OneReader
  <2>11. \A k : Effective(k)' = Effective(k)
      BY <1>1 DEF Effective
  <2>12. \A k \in Setting : k # b => (Stale(k)' <=> Stale(k)) /\ Left(k)' = Left(k)
      BY <2>7, <2>11 DEF Stale, Left
  <2>13. Stale(b)' <=> v # Effective(b)
    <3>1. cached'[b].value = v
        BY <2>8
    <3>2. QED
        BY <2>8, <2>11, <3>1 DEF Stale
  <2>14. StaleModels' <=> StaleModels
      BY <2>3, <2>11 DEF StaleModels
  <2>15. "base_url" \in Setting
      BY SettingFacts
  <2>16. CASE v = Effective(b)
    <3>1. Left(b)' = 0
        BY <2>13, <2>16 DEF Left
    <3>2. \A k \in Setting : Left(k)' <= Left(k)
      <4>1. \A k \in Setting : Left(k) \in 0 .. TTL
          BY LeftTyped
      <4>2. QED
          BY <2>12, <3>1, <4>1, AllListsTyped
    <3>3. Stale("base_url")' => Stale("base_url")
        BY <2>12, <2>13, <2>15, <2>16
    <3>4. StaleFetchers' = StaleFetchers \ {r}
        BY <2>5, <2>10, <2>16
    <3>5. ModelsLeft' <= ModelsLeft
        BY <2>3, <2>14, <3>3, <3>4, ModelsShrink
    <3>6. QED
        BY <1>1, <2>9, <3>2, <3>5, ReservesQuiet
  <2>17. CASE v # Effective(b)
    <3>1. StaleReaders(b)' \subseteq StaleReaders(b) /\ StaleReaders(b)' # StaleReaders(b)
        BY <2>6, <2>9, <2>17
    <3>2. ASSUME NEW k \in Setting PROVE SettingReserve(k)'
      <4>1. CASE k = b
          BY <1>1, <3>1, <4>1, SettingMoves DEF Reserves
      <4>2. CASE k # b
        <5>1. spell'[k] + Left(k)' <= spell[k] + Left(k)
          <6>1. spell[k] \in Nat /\ Left(k) \in 0 .. TTL
              BY LeftTyped DEF SettingsTyped, Watched
          <6>2. QED
              BY <1>1, <2>12, <4>2, <6>1, AllListsTyped
        <5>2. QED
            BY <2>9, <5>1, SettingMoves DEF Reserves
      <4>3. QED
          BY <4>1, <4>2
    <3>3. ModelsReserve'
      <4>1. CASE b = "base_url"
          BY <1>1, <3>1, <4>1, ModelsMove DEF Reserves
      <4>2. CASE b # "base_url"
        <5>1. StaleFetchers' = StaleFetchers \ {r}
            BY <2>4, <2>5, <2>10, <4>2
        <5>2. Stale("base_url")' => Stale("base_url")
            BY <2>12, <2>15, <4>2
        <5>3. ModelsLeft' <= ModelsLeft
            BY <2>3, <2>14, <5>1, <5>2, ModelsShrink
        <5>4. Left("base_url")' = Left("base_url") /\ Left("base_url") \in 0 .. TTL
            BY <2>12, <2>15, <4>2, LeftTyped
        <5>5. ModelsLeft \in 0 .. AllLists /\ ModelsLeft' \in 0 .. AllLists
              /\ spell["models"] \in Nat /\ spell'["models"] = spell["models"]
            BY <1>1, ModelsLeftTyped, ModelsLeftTypedNext DEF SettingsTyped, Watched
        <5>6. spell'["models"] + Left("base_url")' + ModelsLeft'
                  <= spell["models"] + Left("base_url") + ModelsLeft
            BY <5>3, <5>4, <5>5, AllListsTyped
        <5>7. QED
            BY <2>9, <5>6, ModelsMove DEF Reserves
      <4>3. QED
          BY <4>1, <4>2
    <3>4. QED
        BY <3>2, <3>3 DEF Reserves
  <2>18. QED
      BY <2>16, <2>17
<1>9. QED
    BY <1>2, <1>3, <1>4, <1>6, <1>7, <1>8 DEF ReaderMoves, GoOnReading

LEMMA ReservesSaver ==
    ASSUME SettingsTyped, SettingsTyped', Reserves, NEW s \in Saver, SaverMoves(s)
    PROVE  Reserves'
<1>1. UNCHANGED reader
    BY DEF SaverMoves, GoOnSaving, Send, CommitRow, bust_cache, CommitUnits, invalidate_units
<1>2. ASSUME UNCHANGED <<row, cached, models, spell>> PROVE Reserves'
  <2>1. /\ \A k : StaleReaders(k)' = StaleReaders(k)
        /\ StaleFetchers' = StaleFetchers
      BY <1>1, <1>2 DEF StaleReaders, StaleFetchers, Effective
  <2>2. QED
      BY <1>2, <2>1, ReservesSame
<1>3. ASSUME NEW section \in Section, NEW typed \in BOOLEAN, Send(s, section, typed)
      PROVE  Reserves'
    BY <1>2, <1>3 DEF Send
<1>4. CASE CommitUnits(s)
    BY <1>2, <1>4 DEF CommitUnits
<1>5. CASE invalidate_units(s)
    BY <1>2, <1>5 DEF invalidate_units
<1>6. CASE CommitRow(s)
  <2>1. PICK b : b = Head(saver[s].todo)
      OBVIOUS
  <2>2. /\ row' = [row EXCEPT ![b] = saver[s].form]
        /\ spell' = [k \in Watched |->
               IF b = (IF k = "models" THEN "base_url" ELSE k) THEN 0 ELSE spell[k]]
        /\ UNCHANGED <<cached, models>>
      BY <1>6, <2>1 DEF CommitRow
  <2>3. ASSUME NEW k \in Setting, k # b
        PROVE  /\ Left(k)' = Left(k) /\ (Stale(k)' <=> Stale(k))
               /\ StaleReaders(k)' = StaleReaders(k)
               /\ Effective(k)' = Effective(k)
    <3>1. row'[k] = row[k]
        BY <2>2, <2>3 DEF SettingsTyped
    <3>2. Effective(k)' = Effective(k)
        BY <3>1 DEF Effective
    <3>3. QED
        BY <1>1, <2>2, <3>2 DEF Left, Stale, StaleReaders
  <2>4. ASSUME NEW k \in Setting PROVE SettingReserve(k)'
    <3>1. k \in Watched /\ k # "models"
        BY <2>4, SettingFacts DEF Watched
    <3>2. CASE k = b
      <4>1. spell'[k] = 0
          BY <2>2, <3>1, <3>2
      <4>2. QED
          BY <4>1, SettingMoves DEF Reserves
    <3>3. CASE k # b
      <4>1. spell'[k] = spell[k] /\ spell[k] \in Nat /\ Left(k) \in 0 .. TTL
          BY <2>2, <3>1, <3>3, LeftTyped DEF SettingsTyped
      <4>2. spell'[k] + Left(k)' <= spell[k] + Left(k)
          BY <2>3, <3>3, <4>1, AllListsTyped
      <4>3. QED
          BY <2>3, <3>3, <4>2, SettingMoves DEF Reserves
    <3>4. QED
        BY <3>2, <3>3
  <2>5. ModelsReserve'
    <3>1. "models" \in Watched /\ "base_url" \in Setting
        BY SettingFacts DEF Watched
    <3>2. CASE b = "base_url"
      <4>1. spell'["models"] = 0
          BY <2>2, <3>1, <3>2
      <4>2. QED
          BY <4>1, ModelsMove DEF Reserves
    <3>3. CASE b # "base_url"
      <4>1. spell'["models"] = spell["models"]
          BY <2>2, <3>1, <3>3
      <4>2. /\ Left("base_url")' = Left("base_url") /\ (Stale("base_url")' <=> Stale("base_url"))
            /\ StaleReaders("base_url")' = StaleReaders("base_url")
            /\ Effective("base_url")' = Effective("base_url")
          BY <2>3, <3>1, <3>3
      <4>3. (StaleModels' <=> StaleModels) /\ StaleFetchers' = StaleFetchers
          BY <1>1, <2>2, <4>2 DEF StaleModels, StaleFetchers
      <4>4. ModelsLeft' <= ModelsLeft
          BY <2>2, <4>2, <4>3, ModelsShrink
      <4>5. /\ spell["models"] \in Nat /\ Left("base_url") \in 0 .. TTL
            /\ ModelsLeft \in 0 .. AllLists /\ ModelsLeft' \in 0 .. AllLists
          BY <3>1, LeftTyped, ModelsLeftTyped, ModelsLeftTypedNext DEF SettingsTyped
      <4>6. spell'["models"] + Left("base_url")' + ModelsLeft'
                <= spell["models"] + Left("base_url") + ModelsLeft
          BY <4>1, <4>2, <4>4, <4>5, AllListsTyped
      <4>7. QED
          BY <4>2, <4>6, ModelsMove DEF Reserves
    <3>4. QED
        BY <3>2, <3>3
  <2>6. QED
      BY <2>4, <2>5 DEF Reserves
<1>7. CASE bust_cache(s)
  <2>1. UNCHANGED <<row, spell>>
      BY <1>7 DEF bust_cache
  <2>2. /\ \A k : StaleReaders(k)' = StaleReaders(k)
        /\ StaleFetchers' = StaleFetchers
        /\ \A k : Effective(k)' = Effective(k)
      BY <1>1, <2>1 DEF StaleReaders, StaleFetchers, Effective
  <2>3. \A k \in Setting : cached'[k] = cached[k] \/ cached'[k] = NoEntry
      BY <1>7 DEF bust_cache
  <2>4. \A k \in Setting : (Stale(k)' => Stale(k)) /\ (Left(k)' = Left(k) \/ Left(k)' = 0)
      BY <2>2, <2>3 DEF Left, Stale
  <2>5. \A k \in Setting : Left(k)' <= Left(k)
    <3>1. \A k \in Setting : Left(k) \in 0 .. TTL
        BY LeftTyped
    <3>2. QED
        BY <2>4, <3>1, AllListsTyped
  <2>6. StaleModels' => StaleModels /\ models' = models
      BY <1>7, <2>2 DEF bust_cache, StaleModels
  <2>7. ModelsLeft' <= ModelsLeft
      BY <2>2, <2>4, <2>6, ModelsShrink, SettingFacts
  <2>8. QED
      BY <2>1, <2>2, <2>5, <2>7, ReservesQuiet
<1>8. QED
    BY <1>3, <1>4, <1>5, <1>6, <1>7 DEF SaverMoves, GoOnSaving

LEMMA ReservesProcess ==
    ASSUME SettingsTyped, SettingsTyped', Orderly, Reserves,
           (\E seeds \in BOOLEAN : BootProcess(seeds)) \/ Die \/ TimePasses
    PROVE  Reserves'
<1>1. ASSUME ~TimePasses PROVE Reserves'
  <2>1. \A k \in Watched : spell'[k] = 0
      BY <1>1 DEF BootProcess, Die, Orderly
  <2>2. "models" \in Watched /\ Setting \subseteq Watched
      BY DEF Watched
  <2>3. \A k \in Setting : SettingReserve(k)'
      BY <2>1, <2>2, SettingMoves DEF Reserves
  <2>4. ModelsReserve'
      BY <2>1, <2>2, ModelsMove DEF Reserves
  <2>5. QED
      BY <2>3, <2>4 DEF Reserves
<1>2. CASE TimePasses
  <2>1. /\ cached' = [k \in Setting |-> Older(cached[k])]
        /\ models' = Older(models)
        /\ UNCHANGED <<row, reader>>
        /\ spell' = [k \in Watched |-> IF Outdated(k) /\ spell[k] <= Patience
                                       THEN spell[k] + 1 ELSE spell[k]]
      BY <1>2 DEF TimePasses
  <2>2. /\ \A k : StaleReaders(k)' = StaleReaders(k)
        /\ StaleFetchers' = StaleFetchers
        /\ \A k : Effective(k)' = Effective(k)
      BY <2>1 DEF StaleReaders, StaleFetchers, Effective
  <2>3. ASSUME NEW k \in Setting
        PROVE  /\ Stale(k)' => Stale(k)
               /\ IF Stale(k) THEN Left(k)' + 1 <= Left(k) ELSE Left(k)' = 0 /\ Left(k) = 0
    <3>1. /\ Older(cached[k]) # NoEntry => /\ cached[k] # NoEntry
                                           /\ Older(cached[k]).value = cached[k].value
                                           /\ Older(cached[k]).left = cached[k].left - 1
          /\ cached[k] # NoEntry => cached[k].left >= 1
        BY OlderTyped, SettingsAssumption DEF SettingsTyped, Entry
    <3>2. cached'[k] = Older(cached[k])
        BY <2>1
    <3>3. Stale(k)' => Stale(k) /\ cached'[k].left = cached[k].left - 1
        BY <2>2, <3>1, <3>2 DEF Stale
    <3>4. Stale(k) => cached[k].left \in 1 .. TTL
        BY DEF Stale, SettingsTyped, Entry
    <3>5. QED
        BY <3>3, <3>4, SettingsAssumption DEF Left
  <2>4. /\ StaleModels' => StaleModels /\ models'.left = models.left - 1
        /\ StaleModels => models.left \in 1 .. MODELS_TTL
    <3>1. /\ Older(models) # NoEntry => /\ models # NoEntry
                                        /\ Older(models).value = models.value
                                        /\ Older(models).left = models.left - 1
        BY OlderTyped, SettingsAssumption DEF SettingsTyped, ModelsEntry
    <3>2. StaleModels => models.left \in 1 .. MODELS_TTL
        BY DEF SettingsTyped, StaleModels, ModelsEntry
    <3>3. QED
        BY <2>1, <2>2, <3>1, <3>2 DEF StaleModels
  <2>5. ASSUME NEW k \in Setting PROVE SettingReserve(k)'
    <3>1. k \in Watched /\ (Outdated(k) <=> Stale(k))
        BY SettingFacts DEF Watched, Outdated, Stale
    <3>2. spell[k] \in Nat /\ Left(k) \in 0 .. TTL /\ Left(k)' \in 0 .. TTL
        BY <3>1, LeftTyped, LeftTypedNext DEF SettingsTyped
    <3>3. spell'[k] + Left(k)' <= spell[k] + Left(k)
        BY <2>1, <2>3, <3>1, <3>2, AllListsTyped
    <3>4. QED
        BY <2>2, <3>3, SettingMoves DEF Reserves
  <2>6. ModelsReserve'
    <3>1. "models" \in Watched /\ "base_url" \in Setting /\ (Outdated("models") <=> StaleModels)
        BY SettingFacts DEF Watched, Outdated, StaleModels
    <3>2. /\ spell["models"] \in Nat
          /\ Left("base_url") \in 0 .. TTL /\ Left("base_url")' \in 0 .. TTL
          /\ ModelsLeft \in 0 .. AllLists /\ ModelsLeft' \in 0 .. AllLists
        BY <3>1, LeftTyped, LeftTypedNext, ModelsLeftTyped, ModelsLeftTypedNext DEF SettingsTyped
    <3>3. spell'["models"] \in Nat /\ spell'["models"] <= spell["models"] + 1
          /\ (~StaleModels => spell'["models"] = spell["models"])
        BY <2>1, <3>1, <3>2
    <3>4. CASE Stale("base_url")
      <4>1. ModelsLeft = AllLists
          BY <3>4 DEF ModelsLeft
      <4>2. Left("base_url")' + 1 <= Left("base_url")
          BY <2>3, <3>1, <3>4
      <4>3. spell'["models"] + Left("base_url")' + ModelsLeft'
                <= spell["models"] + Left("base_url") + ModelsLeft
          BY <3>2, <3>3, <4>1, <4>2, AllListsTyped
      <4>4. QED
          BY <2>2, <4>3, ModelsMove DEF Reserves
    <3>5. CASE ~Stale("base_url")
      <4>1. ~Stale("base_url")' /\ Left("base_url")' = 0 /\ Left("base_url") = 0
          BY <2>3, <3>1, <3>5
      <4>2. PICK a \in Nat : a = MODELS_TTL * Cardinality(StaleFetchers)
          BY Weights, StaleSets, SettingsAssumption
      <4>3. ModelsLeft = (IF StaleModels THEN models.left ELSE 0) + a
          BY <3>5, <4>2 DEF ModelsLeft
      <4>4. ModelsLeft' = (IF StaleModels' THEN models'.left ELSE 0) + a
          BY <2>2, <4>1, <4>2 DEF ModelsLeft
      <4>5. IF StaleModels THEN ModelsLeft' + 1 <= ModelsLeft ELSE ModelsLeft' = ModelsLeft
        <5>1. CASE StaleModels
            BY <2>4, <4>2, <4>3, <4>4, <5>1, SettingsAssumption
        <5>2. CASE ~StaleModels
            BY <2>4, <4>3, <4>4, <5>2
        <5>3. QED
            BY <5>1, <5>2
      <4>6. spell'["models"] + Left("base_url")' + ModelsLeft'
                <= spell["models"] + Left("base_url") + ModelsLeft
        <5>1. CASE StaleModels
          <6>1. ModelsLeft' + 1 <= ModelsLeft
              BY <4>5, <5>1
          <6>2. ModelsLeft \in Nat /\ ModelsLeft' \in Nat
              BY <3>2, AllListsTyped
          <6>3. PICK x \in Nat : x = ModelsLeft
              BY <6>2
          <6>4. PICK y \in Nat : y = ModelsLeft'
              BY <6>2
          <6>5. PICK p \in Nat : p = spell["models"]
              BY <3>2
          <6>6. PICK q \in Nat : q = spell'["models"]
              BY <3>3
          <6>7. q <= p + 1 /\ y + 1 <= x
              BY <3>3, <6>1, <6>3, <6>4, <6>5, <6>6
          <6>8. q + 0 + y <= p + 0 + x
              BY <6>7
          <6>9. QED
              BY <4>1, <6>3, <6>4, <6>5, <6>6, <6>8
        <5>2. CASE ~StaleModels
          <6>1. spell'["models"] = spell["models"] /\ ModelsLeft' = ModelsLeft
              BY <3>3, <4>5, <5>2
          <6>2. QED
              BY <3>2, <4>1, <6>1, AllListsTyped
        <5>3. QED
            BY <5>1, <5>2
      <4>7. QED
          BY <2>2, <4>6, ModelsMove DEF Reserves
    <3>6. QED
        BY <3>4, <3>5
  <2>7. QED
      BY <2>5, <2>6 DEF Reserves
<1>3. QED
    BY <1>1, <1>2

-----------------------------------------------------------------------------
(* The invariant                                                           *)

SettingsInv == SettingsTyped /\ Orderly /\ UnitsFollow /\ Reserves

LEMMA InitIInv == SettingsInit => SettingsInv
<1> SUFFICES ASSUME SettingsInit PROVE SettingsInv
    OBVIOUS
<1>1. SettingsTyped /\ Orderly /\ UnitsFollow
    BY InitTyped
<1>2. \A k \in Watched : spell[k] = 0
    BY DEF SettingsInit
<1>3. "models" \in Watched /\ "base_url" \in Setting /\ Setting \subseteq Watched
    BY SettingFacts DEF Watched
<1>4. /\ \A k : StaleReaders(k) = {} /\ StaleFetchers = {}
      /\ \A k \in Setting : ~Stale(k) /\ Left(k) = 0
      /\ ~StaleModels
    BY DEF SettingsInit, StaleReaders, StaleFetchers, Stale, Left, StaleModels, AtRest
<1>5. Cardinality({}) = 0
    BY FS_EmptySet
<1>6. ASSUME NEW k \in Setting PROVE SettingReserve(k)
  <2>1. PICK n \in Nat : n = TTL * Times
      BY Weights, SettingsAssumption
  <2>2. TTL * Cardinality(StaleReaders(k)) = 0
      BY <1>4, <1>5, SettingsAssumption
  <2>3. QED
      BY <1>2, <1>3, <1>4, <2>1, <2>2 DEF SettingReserve
<1>7. ModelsReserve
  <2>1. PICK w \in Nat : w = TTL + AllLists
      BY AllListsTyped
  <2>2. PICK n \in Nat : n = w * Times
      BY Weights
  <2>3. w * Cardinality(StaleReaders("base_url")) = 0
      BY <1>4, <1>5
  <2>4. Patience = n
      BY <2>1, <2>2 DEF Patience, Times, AllLists
  <2>5. ModelsLeft = 0
      BY <1>3, <1>4, <1>5, SettingsAssumption DEF ModelsLeft
  <2>6. QED
      BY <1>2, <1>3, <1>4, <2>1, <2>2, <2>3, <2>4, <2>5 DEF ModelsReserve
<1>8. QED
    BY <1>1, <1>6, <1>7 DEF SettingsInv, Reserves

LEMMA NextIInv == SettingsInv /\ [SettingsNext]_settingsVars => SettingsInv'
<1> SUFFICES ASSUME SettingsInv, [SettingsNext]_settingsVars PROVE SettingsInv'
    OBVIOUS
<1>1. SettingsTyped /\ Orderly /\ UnitsFollow /\ Reserves
    BY DEF SettingsInv
<1>2. ASSUME NEW r \in Reader, ReaderMoves(r) PROVE SettingsInv'
  <2>1. SettingsTyped'
      BY <1>1, <1>2, TypedReader
  <2>2. QED
      BY <1>1, <1>2, <2>1, OrderlyReader, UnitsReader, ReservesReader DEF SettingsInv
<1>3. ASSUME NEW s \in Saver, SaverMoves(s) PROVE SettingsInv'
  <2>1. SettingsTyped'
      BY <1>1, <1>3, TypedSaver
  <2>2. QED
      BY <1>1, <1>3, <2>1, OrderlySaver, UnitsSaver, ReservesSaver DEF SettingsInv
<1>4. ASSUME (\E seeds \in BOOLEAN : BootProcess(seeds)) \/ Die \/ TimePasses PROVE SettingsInv'
  <2>1. SettingsTyped'
      BY <1>1, <1>4, TypedProcess
  <2>2. QED
      BY <1>1, <1>4, <2>1, OrderlyProcess, UnitsProcess, ReservesProcess DEF SettingsInv
<1>5. CASE UNCHANGED settingsVars
  <2>1. SettingsTyped' /\ Orderly' /\ UnitsFollow'
      BY <1>1, <1>5 DEF settingsVars, SettingsTyped, Orderly, UnitsFollow
  <2>2. /\ \A k \in Setting : StaleReaders(k)' \subseteq StaleReaders(k)
        /\ StaleFetchers' \subseteq StaleFetchers
      BY <1>5 DEF settingsVars, StaleReaders, StaleFetchers, Effective
  <2>3. Reserves'
      BY <1>1, <1>5, <2>1, <2>2, ReservesSame DEF settingsVars
  <2>4. QED
      BY <2>1, <2>3 DEF SettingsInv
<1>6. QED
    BY <1>2, <1>3, <1>4, <1>5 DEF SettingsNext, ReaderMoves, SaverMoves

\* What the account says of what was served.
LEMMA SpellBounded ==
    ASSUME SettingsInv
    PROVE  /\ \A k \in Setting : spell[k] <= TTL * Times
           /\ spell["models"] <= Patience
           /\ TTL * Times <= Patience /\ Patience \in Nat /\ TTL * Times \in Nat
<1>1. SettingsTyped /\ (\A k \in Setting : SettingReserve(k)) /\ ModelsReserve
    BY DEF SettingsInv, Reserves
<1>2. PICK w \in Nat : w = TTL + AllLists
    BY AllListsTyped
<1>3. PICK n \in Nat : n = TTL * Times
    BY Weights, SettingsAssumption
<1>4. PICK p \in Nat : p = Patience
  <2>1. Patience = w * Times
      BY <1>2 DEF Patience, Times, AllLists
  <2>2. QED
      BY <2>1, Weights
<1>5. n <= p
  <2>1. Patience = (TTL + AllLists) * Times
      BY DEF Patience, Times, AllLists
  <2>2. PICK t \in Nat : t = Times
      BY FS_CardinalityType, SettingsAssumption DEF Times
  <2>3. PICK a \in Nat : a = AllLists
      BY AllListsTyped
  <2>4. n = t * TTL /\ p = t * (TTL + a)
      BY <1>3, <1>4, <2>1, <2>2, <2>3, SettingsAssumption
  <2>5. TTL <= TTL + a /\ TTL \in Nat /\ TTL + a \in Nat
      BY <2>3, SettingsAssumption
  <2>6. t * TTL <= t * (TTL + a)
      BY <2>5, Products
  <2>7. QED
      BY <2>4, <2>6
<1>6. ASSUME NEW k \in Setting PROVE spell[k] <= n
  <2>1. PICK c \in Nat : c = TTL * Cardinality(StaleReaders(k))
      BY Weights, StaleSets, SettingsAssumption
  <2>2. spell[k] \in Nat /\ Left(k) \in 0 .. TTL
      BY <1>1, LeftTyped DEF SettingsTyped, Watched
  <2>3. spell[k] + Left(k) + c <= n
      BY <1>1, <1>3, <2>1 DEF SettingReserve
  <2>4. QED
      BY <2>1, <2>2, <2>3, SettingsAssumption
<1>7. spell["models"] <= p
  <2>1. PICK c \in Nat : c = w * Cardinality(StaleReaders("base_url"))
      BY Weights, StaleSets
  <2>2. /\ spell["models"] \in Nat /\ Left("base_url") \in 0 .. TTL
        /\ ModelsLeft \in 0 .. AllLists
      BY <1>1, LeftTyped, ModelsLeftTyped, SettingFacts DEF SettingsTyped, Watched
  <2>3. spell["models"] + Left("base_url") + ModelsLeft + c <= p
      BY <1>1, <1>2, <1>4, <2>1 DEF ModelsReserve
  <2>4. QED
      BY <2>1, <2>2, <2>3, AllListsTyped
<1>8. QED
    BY <1>3, <1>4, <1>5, <1>6, <1>7

-----------------------------------------------------------------------------
(* Theorems                                                                *)

\* Every variable has its type, the lock of the units is held by the one who
\* loads them, and a form that is being stored has something left to store.
THEOREM SettingsTypeCorrect == SettingsInit /\ [][SettingsNext]_settingsVars => []SettingsTypeOK
<1>1. SettingsInv => SettingsTypeOK
  <2> SUFFICES ASSUME SettingsInv PROVE SettingsTypeOK
      OBVIOUS
  <2>1. SettingsTyped /\ Orderly
      BY DEF SettingsInv
  <2>2. PICK p \in Nat : p = Patience /\ \A k \in Watched : spell[k] <= p
    <3>1. \A k \in Watched : spell[k] \in Nat
        BY <2>1 DEF SettingsTyped
    <3>2. QED
        BY <3>1, SpellBounded DEF Watched
  <2>3. spell \in [Watched -> 0 .. Patience + 1]
      BY <2>1, <2>2 DEF SettingsTyped
  <2>4. models = NoEntry \/ (models.value \in Value /\ models.left \in 1 .. MODELS_TTL)
      BY <2>1 DEF SettingsTyped, ModelsEntry
  <2>5. QED
      BY <2>1, <2>3, <2>4 DEF SettingsTypeOK, SettingsTyped, Orderly
<1>2. QED
    BY InitIInv, NextIInv, <1>1, PTL

\* However many threads read while however many forms are saved, and whenever
\* the process ends: an old table of units is one whose change is not answered
\* yet, an old setting is gone after TTL for the cache and for each reader, and
\* the old list of models after the time the models' cache adds to that.
THEOREM OldValuesGone == SettingsInit /\ [][SettingsNext]_settingsVars => []OldValuesExpire
<1>1. SettingsInv => OldValuesExpire
    BY SpellBounded DEF SettingsInv, UnitsFollow, OldValuesExpire, Times
<1>2. QED
    BY InitIInv, NextIInv, <1>1, PTL

-----------------------------------------------------------------------------
(* The three beside each other                                             *)

aiVars == <<topic, overviewVars, chatVars, settingsVars>>

\* A step of one part leaves the others where they are.
LEMMA AIPartsMove ==
    [MCNext]_aiVars =>
        [OverviewNext]_overviewVars /\ [ChatNext]_chatVars /\ [SettingsNext]_settingsVars
<1> SUFFICES ASSUME [MCNext]_aiVars
             PROVE  /\ [OverviewNext]_overviewVars /\ [ChatNext]_chatVars
                    /\ [SettingsNext]_settingsVars
    OBVIOUS
<1>1. CASE MCNext
    BY <1>1 DEF MCNext
<1>2. CASE UNCHANGED aiVars
    BY <1>2 DEF aiVars
<1>3. QED
    BY <1>1, <1>2

\* An overview that is being written names the one job that writes it, for
\* any jobs and checks, and conversations, messages and settings are of the
\* shapes the program gives them.
THEOREM AITypes == MCSpec => []AITypeOK
<1>1. MCInit => OverviewInit /\ ChatInit /\ SettingsInit
    BY DEF MCInit
<1>2. OverviewTypeOK /\ ChatTypeOK /\ SettingsTypeOK => AITypeOK
    BY DEF AITypeOK
<1>3. QED
    BY <1>1, <1>2, AIPartsMove, OverviewTypeCorrect, ChatTypeCorrect, SettingsTypeCorrect, PTL
       DEF MCSpec, aiVars, OverviewSpec
=============================================================================
