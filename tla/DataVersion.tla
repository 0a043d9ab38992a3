----------------------------- MODULE DataVersion -----------------------------
(***************************************************************************)
(* One company's periods: the rows loaded for them, their date windows,    *)
(* the data_version of each period, and the check runs computed from them  *)
(* (app/pipeline/ingest.py, run_checks.py, period.py, staleness.py and the *)
(* request handlers of app/routes/companies.py that move the version).     *)
(*                                                                         *)
(* SQLite has one writer, and the driver opens its transaction at the      *)
(* first statement that writes: everything a handler read before that is   *)
(* a separate, older read.  So each handler is two steps here: what it     *)
(* reads with no lock held, and the transaction, which nothing can         *)
(* interleave with.  The version is a read-modify-write of the ORM: it is  *)
(* loaded in the first step and stored, plus one, in the second.           *)
(***************************************************************************)
EXTENDS Integers, FiniteSets

CONSTANTS
    Year,               \* period labels
    Date,               \* declaration dates
    Undated,            \* the "date" of a row that has none
    Load,               \* what a parse may yield: sets of dates
    Window,             \* windows a file header or an officer may give
    Fiscal,             \* [Year -> Window], the company's fiscal year
    BuiltIn, Dynamic,   \* check codes: ALL_CHECKS, and the X.* definitions
    Worker, Request,    \* threads that run jobs, threads that serve requests
    MaxVersion          \* bound on data_version

NoRow == -1             \* the period has no company_periods row
NoRun == -1             \* the code has no check_runs row
NoWindow == {NoRow}     \* the row has no dates, or there is no row
Wiped == {<<NoRow, NoRow>>}  \* the findings of the code were deleted

ASSUME DataVersionAssumption ==
    /\ MaxVersion \in Nat
    /\ Undated \notin Date
    /\ \A L \in Load : L \subseteq Date \cup {Undated}
    /\ \A W \in Window : W \subseteq Date
    /\ Fiscal \in [Year -> Window]
    /\ BuiltIn \cap Dynamic = {}
    /\ Worker \cap Request = {}
    /\ NoRow \notin Year \cup Date

Code == BuiltIn \cup Dynamic
Proc == Worker \cup Request

VARIABLES
    rows,               \* [Year -> dates loaded under that label]
    window,             \* company_periods.period_from .. period_to
    manual,             \* company_periods.is_manual
    ver,                \* company_periods.data_version
    published,          \* dynamic definitions that are published
    runs,               \* [Year -> [Code -> check_runs.data_version]]
    basis,              \* [Year -> [Code -> rows its findings were read from]]
    tx,                 \* what each thread has read and means to write
    saved,              \* history: the window the officer last saved
    torn                \* history: a version was stored over one not read

periods == <<rows, window, manual, ver, saved, torn>>
results == <<runs, basis>>
vars == <<rows, window, manual, ver, published, runs, basis, tx, saved, torn>>

Idle == [op |-> "idle"]

-----------------------------------------------------------------------------

effective_window(y) == IF window[y] = NoWindow THEN Fiscal[y] ELSE window[y]

\* declaration_scope: a dated row belongs to every period whose window holds
\* its date, whatever label it was loaded under; an undated one to its label.
Belongs(y, l, d) == IF d = Undated THEN l = y ELSE d \in effective_window(y)

InScope(y) == {r \in Year \X (Date \cup {Undated}) :
                  r[2] \in rows[r[1]] /\ Belongs(y, r[1], r[2])}

\* The part of a selection loaded under the period's own label.
Own(y, s) == {r \in s : r[1] = y}

current_data_version(y) == IF ver[y] = NoRow THEN 0 ELSE ver[y]

\* (row.data_version or 0) + 1, on the row as it was loaded.
Bumped(v) == IF v = NoRow THEN 1 ELSE v + 1

data_version_moved(based_on, current) == current > based_on

\* min(check_runs.data_version) is behind; a period without runs is not stale.
\* Mutant: the newest run stands for the period.
NewestRunStale(y) ==
    /\ \E c \in Code : runs[y][c] # NoRun
    /\ \A c \in Code : runs[y][c] # NoRun =>
           data_version_moved(runs[y][c], current_data_version(y))

results_stale(y) ==
    \E c \in Code : /\ runs[y][c] # NoRun
                    /\ data_version_moved(runs[y][c], current_data_version(y))

Init ==
    /\ rows = [y \in Year |-> {}]
    /\ window = [y \in Year |-> NoWindow]
    /\ manual = [y \in Year |-> FALSE]
    /\ ver = [y \in Year |-> NoRow]
    /\ published = {}
    /\ runs = [y \in Year |-> [c \in Code |-> NoRun]]
    /\ basis = [y \in Year |-> [c \in Code |-> Wiped]]
    /\ tx = [p \in Proc |-> Idle]
    /\ saved = Fiscal
    /\ torn = [y \in Year |-> FALSE]

-----------------------------------------------------------------------------
(* The first step of a handler: it loads the period's row.                 *)

ReadPeriod(p, op, y, to, load) ==
    /\ tx[p] = Idle
    /\ current_data_version(y) < MaxVersion
    /\ tx' = [tx EXCEPT ![p] = [op |-> op, year |-> y, ver |-> ver[y],
                                win |-> window[y], man |-> manual[y],
                                to |-> to, load |-> load]]
    /\ UNCHANGED <<periods, results, published>>

\* ingest: the files are parsed, then resolve_period_bounds reads the row;
\* "to" is the header's window, or the fiscal one when that is not valid.
IngestRead(p, y, to, load) == ReadPeriod(p, "ingest", y, to, load)

\* documents_set_period: a valid window that no other period has.
SetPeriodRead(p, y, to) ==
    /\ \A z \in Year \ {y} : window[z] # to
    /\ ReadPeriod(p, "set_period", y, to, {})

\* documents_set_period with reset: only a period that has a row.
ResetRead(p, y) ==
    /\ ver[y] # NoRow
    /\ ReadPeriod(p, "reset", y, window[y], {})

\* bump_data_version: a file of the period was deleted or replaced, or a
\* parsed file changed its book.
FilesRead(p, y) == ReadPeriod(p, "files", y, window[y], {})

-----------------------------------------------------------------------------
(* The transaction.  A row inserted by another thread meanwhile breaks the *)
(* unique key of company_periods, so a handler that found none aborts.     *)

RowAsRead(t) == t.ver = NoRow => ver[t.year] = NoRow

StoreVersion(t) ==
    /\ ver' = [ver EXCEPT ![t.year] = Bumped(t.ver)]
    /\ torn' = [torn EXCEPT ![t.year] = @ \/ ver[t.year] # t.ver]

\* The ORM writes the columns whose value differs from the one it loaded.
\* Mutant: a new row is left without dates, as bump_data_version leaves it.
StoreOldWindow(t) ==
    window' = IF t.to # t.win /\ t.ver # NoRow
              THEN [window EXCEPT ![t.year] = t.to] ELSE window

StoreWindow(t) ==
    window' = IF t.to # t.win THEN [window EXCEPT ![t.year] = t.to] ELSE window

Done(p) == tx' = [tx EXCEPT ![p] = Idle]

\* Wipe and insert the label's rows, keep a manual window, move the version.
\* Mutant: the header's window wins over the officer's.
IngestOverManual(p) ==
    LET t == tx[p] IN
    /\ t.op = "ingest"
    /\ RowAsRead(t)
    /\ rows' = [rows EXCEPT ![t.year] = t.load]
    /\ StoreWindow(t)
    /\ StoreVersion(t)
    /\ Done(p)
    /\ UNCHANGED <<manual, published, results, saved>>

IngestCommit(p) ==
    LET t == tx[p] IN
    /\ t.op = "ingest"
    /\ RowAsRead(t)
    /\ rows' = [rows EXCEPT ![t.year] = t.load]
    /\ IF t.man THEN UNCHANGED window ELSE StoreWindow(t)
    /\ StoreVersion(t)
    /\ Done(p)
    /\ UNCHANGED <<manual, published, results, saved>>

SetPeriodCommit(p) ==
    LET t == tx[p] IN
    /\ t.op = "set_period"
    /\ RowAsRead(t)
    /\ StoreWindow(t)
    /\ manual' = IF t.man THEN manual ELSE [manual EXCEPT ![t.year] = TRUE]
    /\ saved' = [saved EXCEPT ![t.year] = t.to]
    /\ StoreVersion(t)
    /\ Done(p)
    /\ UNCHANGED <<rows, published, results>>

ResetCommit(p) ==
    LET t == tx[p] IN
    /\ t.op = "reset"
    /\ manual' = IF t.man THEN [manual EXCEPT ![t.year] = FALSE] ELSE manual
    /\ StoreVersion(t)
    /\ Done(p)
    /\ UNCHANGED <<rows, window, published, results, saved>>

FilesCommit(p) ==
    LET t == tx[p] IN
    /\ t.op = "files"
    /\ RowAsRead(t)
    /\ StoreVersion(t)
    /\ Done(p)
    /\ UNCHANGED <<rows, window, manual, published, results, saved>>

\* The lock timed out, the unique key broke, ingest refused its plan, or the
\* process died: the transaction leaves nothing.
Abort(p) ==
    /\ tx[p] # Idle
    /\ Done(p)
    /\ UNCHANGED <<periods, results, published>>

-----------------------------------------------------------------------------
(* Checks.                                                                 *)

\* run_checks reads the version and the published definitions first; its
\* first DELETE takes the writer lock it holds until it commits.
RunRead(p, y, only) ==
    /\ tx[p] = Idle
    /\ tx' = [tx EXCEPT ![p] = [op |-> "run", year |-> y,
                                ver |-> current_data_version(y),
                                codes |-> (BuiltIn \cup published) \cap only,
                                full |-> only = Code]]
    /\ UNCHANGED <<periods, results, published>>

\* A full run also clears the X.* codes that are no longer published.
Cleared(t) == IF t.full THEN Dynamic \ t.codes ELSE {}

\* Mutant: it clears their findings only.
RunLeavesOrphans(p) ==
    LET t == tx[p] IN
    /\ t.op = "run"
    /\ basis' = [basis EXCEPT ![t.year] = [c \in Code |->
                    IF c \in t.codes THEN InScope(t.year)
                    ELSE IF c \in Cleared(t) THEN Wiped ELSE @[c]]]
    /\ runs' = [runs EXCEPT ![t.year] = [c \in Code |->
                    IF c \in t.codes THEN t.ver ELSE @[c]]]
    /\ Done(p)
    /\ UNCHANGED <<periods, published>>

RunCommit(p) ==
    LET t == tx[p] IN
    /\ t.op = "run"
    /\ basis' = [basis EXCEPT ![t.year] = [c \in Code |->
                    IF c \in t.codes THEN InScope(t.year)
                    ELSE IF c \in Cleared(t) THEN Wiped ELSE @[c]]]
    /\ runs' = [runs EXCEPT ![t.year] = [c \in Code |->
                    IF c \in t.codes THEN t.ver
                    ELSE IF c \in Cleared(t) THEN NoRun ELSE @[c]]]
    /\ Done(p)
    /\ UNCHANGED <<periods, published>>

\* A built-in check raised: the worker commits what the session holds, the
\* deletions and the findings of the codes that came before.
RunFails(p) ==
    LET t == tx[p] IN
    /\ t.op = "run"
    /\ \E before \in SUBSET t.codes :
        /\ t.codes \ before # {}
        /\ basis' = [basis EXCEPT ![t.year] = [c \in Code |->
                        IF c \in before THEN InScope(t.year)
                        ELSE IF c \in t.codes \cup Cleared(t) THEN Wiped
                        ELSE @[c]]]
    /\ Done(p)
    /\ UNCHANGED <<periods, runs, published>>

\* An administrator publishes a check definition or takes it back.
Publish(c) ==
    /\ c \in Dynamic
    /\ published' = IF c \in published THEN published \ {c} ELSE published \cup {c}
    /\ UNCHANGED <<periods, results, tx>>

WorkerStep(p) ==
    \/ \E y \in Year, to \in Window, load \in Load : IngestRead(p, y, to, load)
    \/ IngestCommit(p)
    \/ \E y \in Year, only \in (SUBSET Code) \ {{}} : RunRead(p, y, only)
    \/ RunCommit(p)
    \/ RunFails(p)
    \/ Abort(p)

RequestStep(p) ==
    \/ \E y \in Year, to \in Window : SetPeriodRead(p, y, to)
    \/ SetPeriodCommit(p)
    \/ \E y \in Year : ResetRead(p, y)
    \/ ResetCommit(p)
    \/ \E y \in Year : FilesRead(p, y)
    \/ FilesCommit(p)
    \/ Abort(p)

Next ==
    \/ \E p \in Worker : WorkerStep(p)
    \/ \E p \in Request : RequestStep(p)
    \/ \E c \in Dynamic : Publish(c)

Spec == Init /\ [][Next]_vars

-----------------------------------------------------------------------------

Selection == SUBSET (Year \X (Date \cup {Undated}))

PeriodTx ==
    {t \in [op : {"ingest", "set_period", "reset", "files"}, year : Year,
            ver : Nat \cup {NoRow}, win : Window \cup {NoWindow},
            man : BOOLEAN, to : Window \cup {NoWindow},
            load : SUBSET (Date \cup {Undated})] :
        t.op \in {"ingest", "set_period"} => t.to \in Window}
RunTx == [op : {"run"}, year : Year, ver : Nat, codes : SUBSET Code,
          full : BOOLEAN]

\* The types, and that only a period with dates is marked as set by hand: a
\* later ingest hands the stored dates on unseen.
TypeOK ==
    /\ rows \in [Year -> SUBSET (Date \cup {Undated})]
    /\ window \in [Year -> Window \cup {NoWindow}]
    /\ manual \in [Year -> BOOLEAN]
    /\ ver \in [Year -> Nat \cup {NoRow}]
    /\ published \subseteq Dynamic
    /\ runs \in [Year -> [Code -> Nat \cup {NoRun}]]
    /\ basis \in [Year -> [Code -> Selection \cup {Wiped}]]
    /\ tx \in [Proc -> {Idle} \cup PeriodTx \cup RunTx]
    /\ saved \in [Year -> Window]
    /\ torn \in [Year -> BOOLEAN]
    /\ \A y \in Year : manual[y] => window[y] # NoWindow

\* The findings of code c in period y were read from s.
ReadFrom(y, c, s) == basis[y][c] # Wiped /\ Own(y, basis[y][c]) = Own(y, s)

\* As long as no stored version overwrote one its writer had not read, results
\* computed from other rows of the period's own label, or under another window,
\* than those it has now are shown as stale: however loads, window edits, file
\* changes and runs, complete, partial or failing, interleave.
OwnChangesFlagged ==
    \A y \in Year, c \in Code :
        /\ ~torn[y]
        /\ runs[y][c] # NoRun
        /\ basis[y][c] # Wiped
        /\ ~ReadFrom(y, c, InScope(y))
        => results_stale(y)

\* Under the same condition a window the officer set by hand survives every
\* later load.
OfficerWindowKept ==
    \A y \in Year : ~torn[y] /\ manual[y] => window[y] = saved[y]

\* A full run that read the current version leaves the period not stale, even
\* when checks were published and withdrawn since the runs before it.
FullRunSettles ==
    [][\A p \in Worker, y \in Year :
          (/\ RunCommit(p)
           /\ tx[p].full
           /\ tx[p].year = y
           /\ tx[p].ver = current_data_version(y))
          => ~results_stale(y)']_vars

\* What staleness.py promises without condition: results computed from rows
\* other than those now in scope are shown as stale.
ResultsFlagged ==
    \A y \in Year, c \in Code :
        runs[y][c] # NoRun /\ basis[y][c] # Wiped /\ basis[y][c] # InScope(y)
            => results_stale(y)

\* The same for one period by itself: a saved window always moves the version.
WindowChangeFlagged ==
    \A y \in Year, c \in Code :
        runs[y][c] # NoRun /\ basis[y][c] # Wiped /\ ~ReadFrom(y, c, InScope(y))
            => results_stale(y)

=============================================================================
