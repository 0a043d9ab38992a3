----------------------------- MODULE PeriodLine ------------------------------
(***************************************************************************)
(* What the line of a period tells of its newest load                      *)
(* (app/pipeline/ingest_status.py), and the pages that ask for it every    *)
(* two seconds until the answer is final (app/static/ingest-poll.js).      *)
(*                                                                         *)
(* The answer is read from the job table.  An answer that is final marks   *)
(* the job as viewed, so that the badge of its submitter (routes/jobs.py)  *)
(* no longer counts it.  The server may die with a job in hand: its row    *)
(* stays running, is read as failed once it is old enough, and is swept    *)
(* when the server starts with it that old.  Asks do not wait for each     *)
(* other, so answers may come out of order, or never.                      *)
(*                                                                         *)
(* One period: every job that is not an ingest of it is of another kind.   *)
(* JobQueue has the claims in their steps; here a claim is one.            *)
(***************************************************************************)
EXTENDS Naturals, Sequences, FiniteSets

CONSTANTS
    Person,            \* who submits jobs and opens pages
    Administrator,      \* those who may open the job of anyone
    Requests,           \* <<kind, officer>>: the jobs that requests enqueue
    Screen,             \* pages of the period: its line, a page of a file
    OldAge,             \* ZOMBIE_THRESHOLD_SECONDS, in units of ageing
    MaxRows,            \* bound on the jobs ever enqueued
    MaxFlight           \* bound on the answers of a page under way

ASSUME PeriodLineAssumption ==
    /\ Administrator \subseteq Person
    /\ Requests \subseteq {"ingest", "run_checks", "ai_overview"} \X Person
    /\ OldAge \in Nat /\ MaxRows \in Nat /\ MaxFlight \in Nat

VARIABLES
    table,              \* jobs: a sequence, the position is the identifier
    hand,               \* [Lane -> what its worker has: a row, or 0]
    serving,            \* the server is up
    screen,             \* [Screen -> an open page, or NoScreen]
    told                \* history: rows whose outcome was shown to somebody,
                        \* or got lost on its way to them

lineVars == <<table, hand, serving, screen, told>>

NotAI == "not_ai"
Lanes == {NotAI, "ai"}
LaneOfKind(k) == IF k = "ai_overview" THEN "ai" ELSE NotAI
\* How a load is done: rows were loaded, or (diagnosis_error, needs_review,
\* plan_error, which are told alike but for their words) none were.
Outcomes == {"ok", "none_loaded"}
Ended == {"done", "failed"}

NewJob(k, by) ==
    [kind |-> k, status |-> "queued", age |-> 0, outcome |-> "none",
     follow |-> 0, by |-> by, viewed |-> FALSE]

JobIds == 1 .. Len(table)

\* ORDER BY created_at, id.  The time has a resolution of a second and the
\* rows of a second are ordered by their number: here the number is enough.
OlderThan(i, j) == i < j

-----------------------------------------------------------------------------
(* The answer                                                              *)

_latest_ingest_job ==
    CHOOSE j \in JobIds :
        /\ table[j].kind = "ingest"
        /\ \A i \in JobIds \ {j} : table[i].kind = "ingest" => OlderThan(i, j)

\* What holds the lane of a load: the job that runs and the ones before it.
_count_ahead(j) ==
    LET holds(i) == LaneOfKind(table[i].kind) = NotAI
    IN  Cardinality({i \in JobIds : holds(i) /\ table[i].status = "queued" /\ OlderThan(i, j)})
        + Cardinality({i \in JobIds : holds(i) /\ table[i].status = "running"})

\* A row that runs for too long has lost its worker.  Mutant: it is waited for.
NeverOrphaned(j) == FALSE
_is_orphaned(j) == table[j].status = "running" /\ table[j].age > OldAge

Pending(j) == table[j].status \in {"queued", "running"} /\ ~_is_orphaned(j)

Answer(j, status, active, reload) ==
    [job |-> j, status |-> status, active |-> active, reload |-> reload]
NoAnswer == Answer(0, "none", FALSE, FALSE)

\* A load that ended well is over when the checks that follow it are.
_done_status(j) ==
    LET out == table[j].outcome
        follow == table[j].follow
    IN  IF out # "ok" THEN Answer(j, "done", FALSE, FALSE)
        ELSE IF follow = 0 THEN Answer(j, "done", FALSE, TRUE)
        ELSE IF Pending(follow) THEN Answer(j, "done", TRUE, FALSE)
        ELSE Answer(j, "done", FALSE, table[follow].status = "done")

ingest_status ==
    LET j == _latest_ingest_job
    IN  IF \A i \in JobIds : table[i].kind # "ingest" THEN NoAnswer
        ELSE CASE table[j].status = "done" -> _done_status(j)
               [] table[j].status = "failed" -> Answer(j, "failed", FALSE, FALSE)
               [] _is_orphaned(j) -> Answer(j, "stopped", FALSE, FALSE)
               [] OTHER -> Answer(j, table[j].status, TRUE, FALSE)

\* The job of an answer that is final was seen, by whom it belongs to.
\* Mutant: also while the checks that follow it are not over.
SeenWhenLoaded(a, u) ==
    [j \in JobIds |-> [table[j] EXCEPT !.viewed =
        @ \/ (j = a.job /\ table[j].by = u /\ table[j].status \in Ended)]]
mark_seen(a, u) ==
    [j \in JobIds |-> [table[j] EXCEPT !.viewed =
        @ \/ (/\ ~a.active /\ j = a.job
              /\ table[j].by = u /\ table[j].status \in Ended)]]

-----------------------------------------------------------------------------
(* The pages                                                               *)

NoScreen == [open |-> FALSE]
Shown(u, a) == [open |-> TRUE, who |-> u, timer |-> a.active, flight |-> {}]

LineInit ==
    /\ table = <<>>
    /\ hand = [l \in Lanes |-> 0]
    /\ serving = TRUE
    /\ screen = [p \in Screen |-> NoScreen]
    /\ told = {}

\* The outcome of a job, told to the one who submitted it.
Final(a, u) ==
    IF ~a.active /\ a.status \in Ended /\ table[a.job].by = u THEN {a.job} ELSE {}

\* documents page or page of a file: the answer is printed in it, and the
\* timer runs if it is not final.
OpenScreen(p, u) ==
    LET a == ingest_status
    IN  /\ serving /\ screen[p] = NoScreen
        /\ screen' = [screen EXCEPT ![p] = Shown(u, a)]
        /\ table' = mark_seen(a, u)
        /\ told' = told \cup Final(a, u)
        /\ UNCHANGED <<hand, serving>>

CloseScreen(p) ==
    /\ screen[p].open
    /\ screen' = [screen EXCEPT ![p] = NoScreen]
    /\ told' = told \cup UNION {Final(a, screen[p].who) : a \in screen[p].flight}
    /\ UNCHANGED <<table, hand, serving>>

\* documents/ingest.json.
AskStatus(p) ==
    LET a == ingest_status
    IN  /\ serving /\ screen[p].open /\ screen[p].timer
        /\ Cardinality(screen[p].flight \ {a}) < MaxFlight
        /\ screen' = [screen EXCEPT ![p].flight = @ \cup {a}]
        /\ table' = mark_seen(a, screen[p].who)
        /\ UNCHANGED <<hand, serving, told>>

\* What comes is shown, whenever it comes; the timer ends with a final one,
\* and a load that ended well loads the page again.
Arrive(p) ==
    /\ screen[p].open
    /\ \E a \in screen[p].flight :
        /\ screen' = [screen EXCEPT ![p] =
               IF a.reload THEN NoScreen
               ELSE [screen[p] EXCEPT !.timer = @ /\ a.active, !.flight = @ \ {a}]]
        /\ told' = told \cup UNION {Final(b, screen[p].who) :
                                      b \in IF a.reload THEN screen[p].flight ELSE {a}}
    /\ UNCHANGED <<table, hand, serving>>

\* The request fails or is refused: the timer asks again.
Miss(p) ==
    /\ screen[p].open
    /\ \E a \in screen[p].flight :
        /\ screen' = [screen EXCEPT ![p].flight = @ \ {a}]
        /\ told' = told \cup Final(a, screen[p].who)
    /\ UNCHANGED <<table, hand, serving>>

\* MAX_TRIES asks were made, within half the age at which a row is given up.
StopAsking(p) ==
    /\ screen[p].open /\ screen[p].timer
    /\ screen' = [screen EXCEPT ![p].timer = FALSE]
    /\ UNCHANGED <<table, hand, serving, told>>

\* job_detail: the submitter, or an administrator.
OpenJob(u, j) ==
    /\ serving /\ (table[j].by = u \/ u \in Administrator)
    /\ table[j].status \in Ended /\ ~table[j].viewed
    /\ table' = [table EXCEPT ![j].viewed = TRUE]
    /\ told' = told \cup {j}
    /\ UNCHANGED <<hand, serving, screen>>

-----------------------------------------------------------------------------
(* The jobs                                                                *)

Request(k, u) ==
    /\ serving /\ Len(table) < MaxRows
    /\ table' = Append(table, NewJob(k, u))
    /\ UNCHANGED <<hand, serving, screen, told>>

\* claim_next_job, by the worker of a lane.
Take(l) ==
    /\ serving /\ hand[l] = 0
    /\ \E j \in JobIds :
        LET waits(i) == table[i].status = "queued" /\ LaneOfKind(table[i].kind) = l
        IN  /\ waits(j) /\ \A i \in JobIds \ {j} : waits(i) => OlderThan(j, i)
            /\ table' = [table EXCEPT ![j].status = "running"]
            /\ hand' = [hand EXCEPT ![l] = j]
    /\ UNCHANGED <<serving, screen, told>>

\* A load that ended well enqueues the checks asked for with it.
EnqueueFollowUp(l) ==
    /\ hand[l] # 0 /\ table[hand[l]].kind = "ingest" /\ table[hand[l]].follow = 0
    /\ Len(table) < MaxRows
    /\ table' = Append([table EXCEPT ![hand[l]].follow = Len(table) + 1],
                       NewJob("run_checks", table[hand[l]].by))
    /\ UNCHANGED <<hand, serving, screen, told>>

\* The outcome is committed: done with what it came to, or failed.
Complete(l, status, outcome) ==
    /\ hand[l] # 0
    /\ (table[hand[l]].kind = "ingest" /\ status = "done") <=> outcome # "none"
    /\ table[hand[l]].follow # 0 => outcome = "ok"
    /\ table' = [table EXCEPT ![hand[l]].status = status, ![hand[l]].outcome = outcome]
    /\ hand' = [hand EXCEPT ![l] = 0]
    /\ UNCHANGED <<serving, screen, told>>

\* The server dies in the middle of a job.
Perish ==
    /\ serving /\ \E l \in Lanes : hand[l] # 0
    /\ serving' = FALSE
    /\ hand' = [l \in Lanes |-> 0]
    /\ UNCHANGED <<table, screen, told>>

\* recover_zombie_jobs, with the same threshold.
StartAgain ==
    /\ ~serving
    /\ serving' = TRUE
    /\ table' = [j \in JobIds |-> IF table[j].status = "running" /\ table[j].age > OldAge
                                THEN [table[j] EXCEPT !.status = "failed"] ELSE table[j]]
    /\ UNCHANGED <<hand, screen, told>>

\* Time passes for the rows that run.
Ageing ==
    /\ table' = [j \in JobIds |->
           IF table[j].status = "running" /\ table[j].age <= OldAge
           THEN [table[j] EXCEPT !.age = @ + 1] ELSE table[j]]
    /\ table' # table
    /\ UNCHANGED <<hand, serving, screen, told>>

Work(l) == Take(l) \/ \E s \in Ended, out \in Outcomes \cup {"none"} : Complete(l, s, out)

LineNext ==
    \/ \E p \in Screen, u \in Person : OpenScreen(p, u)
    \/ \E p \in Screen : CloseScreen(p) \/ AskStatus(p) \/ Arrive(p) \/ Miss(p) \/ StopAsking(p)
    \/ \E u \in Person : \E j \in JobIds : OpenJob(u, j)
    \/ \E r \in Requests : Request(r[1], r[2])
    \/ \E l \in Lanes : Work(l) \/ EnqueueFollowUp(l)
    \/ Perish \/ StartAgain \/ Ageing

(***************************************************************************)
(* Fairness.  The timer of an open page fires and not every answer of it   *)
(* gets lost; the workers take jobs and end them; time passes; a stopped   *)
(* server is started again.  Nobody has to open a page or to leave it.     *)
(***************************************************************************)
LineFairness ==
    /\ \A p \in Screen : WF_lineVars(AskStatus(p)) /\ SF_lineVars(Arrive(p))
    /\ WF_lineVars(Work(NotAI))
    /\ WF_lineVars(StartAgain)
    /\ WF_lineVars(Ageing)

LineSpec == LineInit /\ [][LineNext]_lineVars /\ LineFairness

-----------------------------------------------------------------------------
(* Properties                                                              *)

JobRow ==
    [kind : {"ingest", "run_checks", "ai_overview"}, status : {"queued", "running"} \cup Ended, age : 0 .. OldAge + 1,
     outcome : Outcomes \cup {"none"}, follow : 0 .. MaxRows, by : Person,
     viewed : BOOLEAN]

\* Types; a worker has a row of its lane that runs.
LineTypeOK ==
    /\ table \in Seq(JobRow) /\ Len(table) <= MaxRows
    /\ \A l \in Lanes : hand[l] # 0 =>
           serving /\ table[hand[l]].status = "running" /\ LaneOfKind(table[hand[l]].kind) = l
    /\ \A p \in Screen : screen[p].open =>
           screen[p].who \in Person /\ Cardinality(screen[p].flight) <= MaxFlight
    /\ told \subseteq JobIds

\* The badge stops counting a load only when its outcome, that of the checks
\* it is followed by included, was shown to the one who submitted it, is on
\* its way to them or got lost on it, or when its own page was opened.  And
\* a load that is told it is next is the next its worker takes.
LineIsTrue ==
    /\ \A j \in JobIds : table[j].viewed =>
        \/ j \in told
        \/ \E p \in Screen : screen[p].open /\
               \E a \in screen[p].flight : j \in Final(a, screen[p].who)
    /\ \A j \in JobIds :
        (table[j].status = "queued" /\ table[j].kind = "ingest" /\ _count_ahead(j) = 0) =>
            \A i \in JobIds : table[i].status = "queued" /\ table[i].kind # "ai_overview" =>
                i = j \/ OlderThan(j, i)

\* A page that follows a load is told in the end how it ended, or is left:
\* whatever dies with the job, or with the checks that follow it, and
\* however many answers get lost.
PollingStops ==
    \A p \in Screen : (screen[p].open /\ screen[p].timer)
                          ~> (~screen[p].open \/ ~screen[p].timer)

=============================================================================
