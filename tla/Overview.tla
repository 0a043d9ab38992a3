------------------------------ MODULE Overview ------------------------------
(***************************************************************************)
(* The AI overviews of the checks of one company's period: the press that  *)
(* queues one (start_overview_job), the button that queues a batch, the    *)
(* jobs of the AI worker that write them (app/ai/overview.py), and the     *)
(* check runs, loads and restarts that go on meanwhile.                    *)
(*                                                                         *)
(* Findings, and everything computed from them, are the number of the run  *)
(* that produced them.  The figures of an overview (aggregate_json) and    *)
(* its text are written by different steps, so each keeps its own number.  *)
(* One call of the model costs one unit of the day's budget.               *)
(***************************************************************************)
EXTENDS Integers, FiniteSets

CONSTANTS
    Code,               \* the checks, numbered in their order
    Request,            \* threads that serve the two buttons
    Budget,             \* daily_budget_usd
    MaxOverviewJobs,    \* bound on jobs
    MaxRuns,            \* bound on runs of one check
    MaxDataVersion,     \* bound on data_version
    MaxSpent            \* bound on what is spent

NoOverviewJob == 0
NoFindings == 0         \* no run has left findings
Partial == -1           \* the findings a broken-off run has left
NoOverview == [status |-> "none"]

ASSUME OverviewAssumption ==
    /\ Code \subseteq Nat /\ IsFiniteSet(Code)
    /\ Budget \in Nat \ {0}
    /\ MaxOverviewJobs \in Nat /\ MaxRuns \in Nat /\ MaxDataVersion \in Nat /\ MaxSpent \in Nat

OverviewJob == 1 .. MaxOverviewJobs

VARIABLES
    found,              \* [Code -> the run whose findings the check has]
    ran_at,             \* [Code -> check_runs.ran_at], 0 without a row
    data_version,       \* of the period
    ov,                 \* [Code -> check_overviews row]
    jobs,               \* [OverviewJob -> kind, code and status]
    ai,                 \* what the AI worker is doing
    tx,                 \* [Request -> what the button's handler has read]
    spent,              \* spent_today
    batchCalls,         \* history: calls that batch jobs made
    torn,               \* history: the overview was put together from two states
    broken              \* history: the check's last run was broken off

checks == <<found, ran_at, data_version>>
overviewVars == <<found, ran_at, data_version, ov, jobs, ai, tx, spent, batchCalls, torn, broken>>

Idle == [at |-> "idle"]

-----------------------------------------------------------------------------

\* The check ran again, or data came in, since the text was written.
overview_is_stale(c) ==
    \/ ran_at[c] > ov[c].run
    \/ data_version > ov[c].ver

\* Checks with findings whose overview is missing, stale or unfinished.
checks_needing_overview ==
    {c \in Code : /\ found[c] # NoFindings
                  /\ \/ ov[c] = NoOverview
                     \/ ov[c].status # "done"
                     \/ overview_is_stale(c)}

Live(j) == jobs[j].status \in {"queued", "running"}

IsNextJob(j) ==
    /\ jobs[j].status = "none"
    /\ \A i \in OverviewJob : i < j => jobs[i].status # "none"

enqueue_overview(j, kind, c) ==
    /\ IsNextJob(j)
    /\ jobs' = [jobs EXCEPT ![j] = [kind |-> kind, code |-> c, status |-> "queued"]]

OverviewInit ==
    /\ found = [c \in Code |-> NoFindings]
    /\ ran_at = [c \in Code |-> 0]
    /\ data_version = 0
    /\ ov = [c \in Code |-> NoOverview]
    /\ jobs = [j \in OverviewJob |-> [kind |-> "none", code |-> 0, status |-> "none"]]
    /\ ai = Idle
    /\ tx = [p \in Request |-> Idle]
    /\ spent = 0
    /\ batchCalls = 0
    /\ torn = [c \in Code |-> FALSE]
    /\ broken = [c \in Code |-> FALSE]

-----------------------------------------------------------------------------
(* What goes on around the overviews.                                      *)

\* A run of the check, with or without findings.
RunCommit(c) ==
    /\ ran_at[c] < MaxRuns
    /\ ran_at' = [ran_at EXCEPT ![c] = @ + 1]
    /\ found' \in {[found EXCEPT ![c] = n] : n \in {ran_at[c] + 1, NoFindings}}
    /\ broken' = [broken EXCEPT ![c] = FALSE]
    /\ UNCHANGED <<data_version, ov, jobs, ai, tx, spent, batchCalls, torn>>

\* A run that raised: what it deleted and added is committed, its check_runs
\* row is not.
RunFails(c) ==
    /\ found' \in {[found EXCEPT ![c] = n] : n \in {NoFindings, Partial}}
    /\ broken' = [broken EXCEPT ![c] = TRUE]
    /\ UNCHANGED <<ran_at, data_version, ov, jobs, ai, tx, spent, batchCalls, torn>>

DataMoves ==
    /\ data_version < MaxDataVersion
    /\ data_version' = data_version + 1
    /\ UNCHANGED <<found, ran_at, ov, jobs, ai, tx, spent, batchCalls, torn, broken>>

\* The chat spends from the same budget.
ChatCall ==
    /\ spent < MaxSpent
    /\ spent' = spent + 1
    /\ UNCHANGED <<checks, ov, jobs, ai, tx, batchCalls, torn, broken>>

-----------------------------------------------------------------------------
(* The buttons.                                                            *)

\* start_overview_job, after the budget check: no live job is writing this one.
\* The button stands beside the findings of a check that has run.
PressRead(p, c) ==
    /\ tx[p] = Idle
    /\ ran_at[c] > 0 \/ broken[c]
    /\ spent < Budget
    /\ ~(ov[c] # NoOverview /\ ov[c].status = "running" /\ Live(ov[c].job))
    /\ tx' = [tx EXCEPT ![p] = [at |-> "press", code |-> c, isNew |-> ov[c] = NoOverview]]
    /\ UNCHANGED <<checks, ov, jobs, ai, spent, batchCalls, torn, broken>>

PressEnqueue(p) ==
    /\ tx[p].at = "press"
    /\ \E j \in OverviewJob :
        /\ enqueue_overview(j, "single", tx[p].code)
        /\ tx' = [tx EXCEPT ![p] = [at |-> "queued", code |-> tx[p].code,
                                    isNew |-> tx[p].isNew, job |-> j]]
    /\ UNCHANGED <<checks, ov, ai, spent, batchCalls, torn, broken>>

PressStats(p) ==
    /\ tx[p].at = "queued"
    /\ tx' = [tx EXCEPT ![p] = [at |-> "mark", code |-> tx[p].code,
                                isNew |-> tx[p].isNew, job |-> tx[p].job,
                                table |-> found[tx[p].code]]]
    /\ UNCHANGED <<checks, ov, jobs, ai, spent, batchCalls, torn, broken>>

\* The row says "running" and names the job.  A press that found no row
\* inserts one, which fails when another has meanwhile (PressAborts).
\* Mutant: the new row does not name its job.
PressMarkNoJob(p) ==
    LET t == tx[p] IN
    /\ t.at = "mark"
    /\ t.isNew => ov[t.code] = NoOverview
    /\ ov' = [ov EXCEPT ![t.code] =
                IF t.isNew
                THEN [status |-> "running", job |-> NoOverviewJob, text |-> NoFindings,
                      table |-> t.table, run |-> 0, ver |-> 0]
                ELSE [@ EXCEPT !.status = "running", !.job = t.job, !.table = t.table]]
    /\ tx' = [tx EXCEPT ![p] = Idle]
    /\ UNCHANGED <<checks, jobs, ai, spent, batchCalls, torn, broken>>

PressMark(p) ==
    LET t == tx[p] IN
    /\ t.at = "mark"
    /\ t.isNew => ov[t.code] = NoOverview
    /\ ov' = [ov EXCEPT ![t.code] =
                IF t.isNew
                THEN [status |-> "running", job |-> t.job, text |-> NoFindings,
                      table |-> t.table, run |-> 0, ver |-> 0]
                ELSE [@ EXCEPT !.status = "running", !.job = t.job, !.table = t.table]]
    /\ tx' = [tx EXCEPT ![p] = Idle]
    /\ UNCHANGED <<checks, jobs, ai, spent, batchCalls, torn, broken>>

\* The insert broke the unique key, or a write waited too long for the lock.
PressAborts(p) ==
    /\ tx[p] # Idle
    /\ tx' = [tx EXCEPT ![p] = Idle]
    /\ UNCHANGED <<checks, ov, jobs, ai, spent, batchCalls, torn, broken>>

BatchRead(p) ==
    /\ tx[p] = Idle
    /\ spent < Budget
    /\ checks_needing_overview # {}
    /\ tx' = [tx EXCEPT ![p] = [at |-> "batch"]]
    /\ UNCHANGED <<checks, ov, jobs, ai, spent, batchCalls, torn, broken>>

BatchEnqueue(p) ==
    /\ tx[p].at = "batch"
    /\ \E j \in OverviewJob : enqueue_overview(j, "batch", 0)
    /\ tx' = [tx EXCEPT ![p] = Idle]
    /\ UNCHANGED <<checks, ov, ai, spent, batchCalls, torn, broken>>

-----------------------------------------------------------------------------
(* The AI worker.                                                          *)

ClaimNext ==
    /\ ai = Idle
    /\ \E j \in OverviewJob :
        /\ jobs[j].status = "queued"
        /\ \A i \in OverviewJob : i < j => jobs[i].status # "queued"
        /\ jobs' = [jobs EXCEPT ![j].status = "running"]
        /\ ai' = IF jobs[j].kind = "single"
                 THEN [at |-> "stats", job |-> j, targets |-> {jobs[j].code},
                       code |-> jobs[j].code]
                 ELSE [at |-> "plan", job |-> j]
    /\ UNCHANGED <<checks, ov, tx, spent, batchCalls, torn, broken>>

BatchPlan ==
    /\ ai.at = "plan"
    /\ ai' = [at |-> "next", job |-> ai.job, targets |-> checks_needing_overview]
    /\ UNCHANGED <<checks, ov, jobs, tx, spent, batchCalls, torn, broken>>

Finished(out) == [at |-> "finish", job |-> ai.job, out |-> out]

First(S) == CHOOSE c \in S : \A d \in S : c <= d

\* The loop of the batch: the next check, or the end of the day's budget.
\* Mutant: the budget is not asked again after the first check.
BatchNextUnchecked ==
    /\ ai.at = "next"
    /\ ai' = IF ai.targets = {} THEN Finished("done")
             ELSE [at |-> "stats", job |-> ai.job, targets |-> ai.targets,
                   code |-> First(ai.targets)]
    /\ UNCHANGED <<checks, ov, jobs, tx, spent, batchCalls, torn, broken>>

BatchNext ==
    /\ ai.at = "next"
    /\ ai' = IF ai.targets = {} \/ spent >= Budget THEN Finished("done")
             ELSE [at |-> "stats", job |-> ai.job, targets |-> ai.targets,
                   code |-> First(ai.targets)]
    /\ UNCHANGED <<checks, ov, jobs, tx, spent, batchCalls, torn, broken>>

\* generate_check_overview: the figures, and in later statements the run and
\* the version they are taken to be based on.
ReadStats ==
    /\ ai.at = "stats"
    /\ ai' = [at |-> "run", job |-> ai.job, targets |-> ai.targets, code |-> ai.code,
              table |-> found[ai.code], seenRun |-> ran_at[ai.code]]
    /\ UNCHANGED <<checks, ov, jobs, tx, spent, batchCalls, torn, broken>>

ReadRun ==
    /\ ai.at = "run"
    /\ ai' = [at |-> "call", job |-> ai.job, targets |-> ai.targets, code |-> ai.code,
              table |-> ai.table, run |-> ran_at[ai.code], ver |-> data_version,
              torn |-> ran_at[ai.code] # ai.seenRun]
    /\ UNCHANGED <<checks, ov, jobs, tx, spent, batchCalls, torn, broken>>

\* The model answered: the row is loaded again.
Answered ==
    /\ ai.at = "call"
    /\ ai' = [at |-> "write", job |-> ai.job, targets |-> ai.targets, code |-> ai.code,
              table |-> ai.table, run |-> ai.run, ver |-> ai.ver, torn |-> ai.torn,
              seen |-> ov[ai.code]]
    /\ UNCHANGED <<checks, ov, jobs, tx, spent, batchCalls, torn, broken>>

AfterOne ==
    IF jobs[ai.job].kind = "single" THEN Finished("done")
    ELSE [at |-> "next", job |-> ai.job, targets |-> ai.targets \ {ai.code}]

\* The row after the upsert: an existing one gets the columns that differ from
\* those loaded, so "done" is not written again over a row that was done.
Written(row, run, ver) ==
    IF ai.seen = NoOverview
    THEN [status |-> "done", job |-> NoOverviewJob, text |-> ai.table, table |-> ai.table,
          run |-> run, ver |-> ver]
    ELSE [row EXCEPT !.text = ai.table, !.run = run, !.ver = ver,
                     !.status = IF ai.seen.status = "done" THEN @ ELSE "done",
                     !.table = IF ai.seen.table = ai.table THEN @ ELSE ai.table]

\* Text, figures and cost in one commit.
\* Mutant: ran_at and the version are those of now.
WriteAsOfNow ==
    /\ ai.at = "write"
    /\ spent < MaxSpent
    /\ ai.seen = NoOverview => ov[ai.code] = NoOverview
    /\ ov' = [ov EXCEPT ![ai.code] = Written(@, ran_at[ai.code], data_version)]
    /\ torn' = [torn EXCEPT ![ai.code] = ai.torn \/ ov[ai.code] # ai.seen]
    /\ spent' = spent + 1
    /\ batchCalls' = batchCalls + (IF jobs[ai.job].kind = "batch" THEN 1 ELSE 0)
    /\ ai' = AfterOne
    /\ UNCHANGED <<checks, jobs, tx, broken>>

Write ==
    /\ ai.at = "write"
    /\ spent < MaxSpent
    /\ ai.seen = NoOverview => ov[ai.code] = NoOverview
    /\ ov' = [ov EXCEPT ![ai.code] = Written(@, ai.run, ai.ver)]
    /\ torn' = [torn EXCEPT ![ai.code] = ai.torn \/ ov[ai.code] # ai.seen]
    /\ spent' = spent + 1
    /\ batchCalls' = batchCalls + (IF jobs[ai.job].kind = "batch" THEN 1 ELSE 0)
    /\ ai' = AfterOne
    /\ UNCHANGED <<checks, jobs, tx, broken>>

\* The call or its write raised.  A single job marks an existing row failed and
\* fails; a batch goes on with the next check and leaves the row as it was.
GenFails ==
    /\ ai.at \in {"stats", "run", "call", "write"}
    /\ IF jobs[ai.job].kind = "single"
       THEN /\ ov' = IF ov[ai.code] = NoOverview THEN ov
                     ELSE [ov EXCEPT ![ai.code].status = "failed"]
            /\ ai' = Finished("failed")
       ELSE /\ ai' = [at |-> "next", job |-> ai.job, targets |-> ai.targets \ {ai.code}]
            /\ UNCHANGED ov
    /\ UNCHANGED <<checks, jobs, tx, spent, batchCalls, torn, broken>>

EndJob ==
    /\ ai.at = "finish"
    /\ jobs' = [jobs EXCEPT ![ai.job].status = ai.out]
    /\ ai' = Idle
    /\ UNCHANGED <<checks, ov, tx, spent, batchCalls, torn, broken>>

\* The commit of the outcome raised: the job stays "running", the worker polls on.
EndRaises ==
    /\ ai.at = "finish"
    /\ ai' = Idle
    /\ UNCHANGED <<checks, ov, jobs, tx, spent, batchCalls, torn, broken>>

\* The server dies and starts again; the sweep fails a job left running only
\* when it is older than the threshold.
RestartSweep ==
    /\ ai' = Idle
    /\ tx' = [p \in Request |-> Idle]
    /\ \E old \in SUBSET {j \in OverviewJob : jobs[j].status = "running"} :
        jobs' = [j \in OverviewJob |-> IF j \in old THEN [jobs[j] EXCEPT !.status = "failed"]
                               ELSE jobs[j]]
    /\ UNCHANGED <<checks, ov, spent, batchCalls, torn, broken>>

RequestStep(p) ==
    \/ \E c \in Code : PressRead(p, c)
    \/ PressEnqueue(p)
    \/ PressStats(p)
    \/ PressMark(p)
    \/ PressAborts(p)
    \/ BatchRead(p)
    \/ BatchEnqueue(p)

WorkerStep ==
    \/ ClaimNext
    \/ BatchPlan
    \/ BatchNext
    \/ ReadStats
    \/ ReadRun
    \/ Answered
    \/ Write
    \/ GenFails
    \/ EndJob
    \/ EndRaises

OverviewNext ==
    \/ \E c \in Code : RunCommit(c) \/ RunFails(c)
    \/ DataMoves
    \/ ChatCall
    \/ \E p \in Request : RequestStep(p)
    \/ WorkerStep
    \/ RestartSweep

OverviewSpec == OverviewInit /\ [][OverviewNext]_overviewVars

\* The AI worker keeps going, and a handler that was entered; nobody has to press.
OverviewFairSpec ==
    /\ OverviewSpec
    /\ WF_overviewVars(WorkerStep)
    /\ \A p \in Request : WF_overviewVars(tx[p] # Idle /\ RequestStep(p))

-----------------------------------------------------------------------------

\* overview_status: what the poller of the page is told.
Shown(c) ==
    IF ov[c].status = "running" /\ ov[c].job # NoOverviewJob /\ jobs[ov[c].job].status = "failed"
    THEN "failed" ELSE ov[c].status

Row == [status : {"running", "done", "failed"}, job : OverviewJob \cup {NoOverviewJob},
        text : Nat \cup {Partial}, table : Nat \cup {Partial}, run : Nat, ver : Nat]

\* The types, and that a row being written names the single job of that check.
OverviewTypeOK ==
    /\ found \in [Code -> Nat \cup {Partial}]
    /\ ran_at \in [Code -> Nat]
    /\ \A c \in Code : found[c] <= ran_at[c]
    /\ data_version \in Nat
    /\ \A c \in Code : ov[c] # NoOverview =>
        /\ ov[c] \in Row
        /\ ov[c].status = "running" =>
              ov[c].job # NoOverviewJob /\ jobs[ov[c].job].code = c
    /\ jobs \in [OverviewJob -> [kind : {"none", "single", "batch"}, code : Code \cup {0},
                         status : {"none", "queued", "running", "done", "failed"}]]
    /\ ai # Idle => jobs[ai.job].status = "running"
    /\ spent \in Nat
    /\ batchCalls \in Nat
    /\ torn \in [Code -> BOOLEAN]
    /\ broken \in [Code -> BOOLEAN]

\* A finished overview that is not shown as stale describes the findings the
\* page lists, in its text and in its figures, although runs, loads, presses
\* and restarts go on while the model is asked; except when a run came between
\* the reading of the figures and of ran_at, or a press wrote the row between
\* its last load and the write, or the last run was broken off.
FreshMeansCurrent ==
    \A c \in Code :
        /\ ov[c] # NoOverview
        /\ ov[c].status = "done"
        /\ ~overview_is_stale(c)
        /\ ~torn[c]
        /\ ~broken[c]
        => ov[c].text = found[c] /\ ov[c].table = found[c]

\* Batch jobs by themselves never make more calls than the day's budget, however
\* many are queued and whatever single jobs and the chat spend meanwhile.
BatchWithinBudget == batchCalls <= Budget

\* start_overview_job: pressing again is not a second call to pay for.
OneLiveJob ==
    \A i, j \in OverviewJob :
        /\ jobs[i].kind = "single" /\ jobs[j].kind = "single"
        /\ jobs[i].code = jobs[j].code
        /\ Live(i) /\ Live(j)
        => i = j

\* overview_status: the page does not show "being written" for ever.
SpinnerStops == \A c \in Code : (Shown(c) = "running") ~> (Shown(c) # "running")

=============================================================================
