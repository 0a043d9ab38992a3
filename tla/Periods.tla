------------------------------- MODULE Periods -------------------------------
(***************************************************************************)
(* Which declaration lines belong to which period of a company             *)
(* (app/pipeline/period.py, checks/scope.py, pipeline/coverage.py,         *)
(* pipeline/audit_scope.py).  A period is labelled with the year it begins *)
(* in; its window is what an officer set, else what the header of a file   *)
(* says, else the fiscal year of the company.  A dated line belongs to     *)
(* every window that holds its date, whatever label it was loaded under.   *)
(*                                                                         *)
(* Dates are numbers yyyymmdd, so their order is the order of days.  The   *)
(* races on the row of a period are in DataVersion; here every handler is  *)
(* one step, and the calendar is exact.                                    *)
(***************************************************************************)
EXTENDS Integers, Sequences, FiniteSets

CONSTANTS
    Label,              \* labels of periods: years
    Month,              \* months a fiscal year is made to begin in
    LineDate,           \* dates of declaration lines
    Window,             \* windows officers type and headers name: <<from, to>>
    Decision            \* dates of decisions to audit

NoDate == 0
NoWindow == <<NoDate, NoDate>>

VARIABLES
    fiscal,             \* companies.fiscal_start_month
    decision,           \* companies.audit_decision_date
    periods,            \* company_periods: [Label -> row], NoRow where none
    lines               \* declaration_lines: a set of <<label, date>>

periodVars == <<fiscal, decision, periods, lines>>

-----------------------------------------------------------------------------
(* The calendar                                                            *)

Day(y, m, d) == 10000 * y + 100 * m + d
YearOf(d) == d \div 10000
MonthOf(d) == (d \div 100) % 100

Leap(y) == (y % 4) = 0 /\ ((y % 100) # 0 \/ (y % 400) = 0)

\* The last day of a month.
monthrange(y, m) ==
    CASE m = 2 -> IF Leap(y) THEN 29 ELSE 28
      [] m \in {4, 6, 9, 11} -> 30
      [] OTHER -> 31

\* A day that exists, from the year 1 on (datetime.date).
IsDate(d) ==
    /\ d \in Nat /\ YearOf(d) > 0 /\ MonthOf(d) \in 1 .. 12
    /\ d % 100 \in 1 .. monthrange(YearOf(d), MonthOf(d))

\* Mutant: the year that begins in April ends on the 30th of March.
FiscalEndsEarly(y, m) ==
    IF m = 1 THEN <<Day(y, 1, 1), Day(y, 12, 31)>>
             ELSE <<Day(y, m, 1), Day(y + 1, m - 1, 30)>>
fiscal_bounds(y, m) ==
    IF m = 1 THEN <<Day(y, 1, 1), Day(y, 12, 31)>>
             ELSE <<Day(y, m, 1), Day(y + 1, m - 1, monthrange(y + 1, m - 1))>>

FISCAL_START_MONTHS == 1 .. 12

MonthNo(d) == 12 * YearOf(d) + MonthOf(d)

period_span_months(w) == MonthNo(w[2]) - MonthNo(w[1]) + 1

\* period_window_errors returns no error: not reversed, some of it in the
\* year of the label, at most 15 months.
MaxMonths == 15
Usable(y, w) ==
    /\ w[1] <= w[2]
    /\ w[2] >= Day(y, 1, 1) /\ w[1] <= Day(y, 12, 31)
    /\ period_span_months(w) <= MaxMonths

Inside(d, w) == w[1] <= d /\ d <= w[2]
Meet(v, w) == v[1] <= w[2] /\ w[1] <= v[2]

\* The label of the fiscal year a day is in.
label_year_of(d, m) == IF MonthOf(d) >= m THEN YearOf(d) ELSE YearOf(d) - 1

-----------------------------------------------------------------------------
(* Windows                                                                 *)

NoRow == [window |-> NoWindow, manual |-> FALSE, stored |-> FALSE]

\* A row made only to count a version has no window yet.
effective_window(y) ==
    IF periods[y].window # NoWindow THEN periods[y].window ELSE fiscal_bounds(y, fiscal)

declaration_scope(y) ==
    {l \in lines : IF l[2] = NoDate THEN l[1] = y ELSE Inside(l[2], effective_window(y))}

\* A header with both dates wins over the fiscal year, unless its window is
\* not usable for the label.  Mutant: it always wins.
HeaderWins(y, header) == IF header = NoWindow THEN fiscal_bounds(y, fiscal) ELSE header
default_bounds(y, header) ==
    IF header # NoWindow /\ Usable(y, header) THEN header ELSE fiscal_bounds(y, fiscal)

\* A row that is_manual is left alone.
\* Mutant: a row made by bump_data_version keeps its empty window.
KeepsEmptyRow(y, header) ==
    IF periods[y].stored THEN periods[y]
    ELSE [window |-> default_bounds(y, header), manual |-> FALSE, stored |-> TRUE]
resolve_period_bounds(y, header) ==
    IF periods[y].manual THEN periods[y]
    ELSE [window |-> default_bounds(y, header), manual |-> FALSE, stored |-> TRUE]

\* Other periods with exactly that window.
duplicate_period_windows(y, w) == {z \in Label \ {y} : periods[z].window = w}

\* The stored window differs from the fiscal year, which is asked only of
\* companies whose year does not begin in January.
period_window_conflict(y) ==
    /\ fiscal # 1 /\ periods[y].window # NoWindow /\ ~periods[y].manual
    /\ periods[y].window # fiscal_bounds(y, fiscal)

-----------------------------------------------------------------------------
(* Coverage                                                                *)

MonthsOf(w) == MonthNo(w[1]) .. MonthNo(w[2])
FirstDay(n) == LET m == ((n - 1) % 12) + 1 IN Day((n - m) \div 12, m, 1)
LastDay(n) ==
    LET m == ((n - 1) % 12) + 1
        y == (n - m) \div 12
    IN  Day(y, m, monthrange(y, m))

Later(a, b) == IF a > b THEN a ELSE b
Earlier(a, b) == IF a < b THEN a ELSE b

\* Months of the window without a line, adjoining ones as one range, cut at
\* the ends of the window; none for a period without lines or a window.
coverage_gaps(y) ==
    LET w == periods[y].window
        present == {MonthNo(l[2]) : l \in {x \in declaration_scope(y) : x[2] # NoDate}}
        missing == MonthsOf(w) \ present
    IN  IF w = NoWindow \/ present = {} THEN {}
        ELSE {<<Later(FirstDay(r[1]), w[1]), Earlier(LastDay(r[2]), w[2])>> : r \in
                 {r \in missing \X missing : r[1] <= r[2] /\ r[1] .. r[2] \subseteq missing
                                          /\ {r[1] - 1, r[2] + 1} \cap missing = {}}}

overlapping_periods(y) ==
    {z \in Label \ {y} : /\ periods[y].window # NoWindow /\ periods[z].window # NoWindow
                         /\ Meet(periods[y].window, periods[z].window)}

\* Lines loaded under the label that belong elsewhere.
out_of_window(y) ==
    {l \in lines : /\ l[1] = y /\ l[2] # NoDate /\ periods[y].window # NoWindow
                   /\ ~Inside(l[2], periods[y].window)}

-----------------------------------------------------------------------------
(* The five years before a decision to audit                               *)

AUDIT_YEARS == 5

\* The same day of an earlier year; 28 February for a day that year lacks.
_minus_years(d, n) ==
    IF (d % 10000) = 229 /\ ~Leap(YearOf(d) - n) THEN Day(YearOf(d) - n, 2, 28)
                                               ELSE d - 10000 * n

audit_window(d) == <<_minus_years(d, AUDIT_YEARS), d>>

classify_period(a, w) ==
    CASE ~Meet(a, w) -> "outside"
      [] w[1] < a[1] /\ w[2] > a[2] -> "cut_both"
      [] w[1] < a[1] /\ w[2] <= a[2] -> "cut_start"
      [] w[1] >= a[1] /\ w[2] > a[2] -> "cut_end"
      [] OTHER -> "inside"

WindowOf(y) == IF y \in Label THEN effective_window(y) ELSE fiscal_bounds(y, fiscal)

\* The periods the audit page shows: those of the years of the window, and
\* every stored one that meets it; the page is there only with a decision.
scope_coverage ==
    LET a == audit_window(decision)
    IN  IF decision = NoDate THEN {} ELSE  {y \in (label_year_of(a[1], fiscal) .. label_year_of(a[2], fiscal))
               \cup {z \in Label : periods[z].stored} :
            classify_period(a, WindowOf(y)) # "outside"}

\* How a finding of an item stands to the five years, by the first and the
\* last day of the item's lines; of one without dated lines, by its period.
finding_scope_tag(a, dates, status) ==
    LET first == CHOOSE d \in dates : \A e \in dates : d <= e
        last == CHOOSE d \in dates : \A e \in dates : e <= d
    IN  CASE dates = {} -> IF status \in {"cut_start", "cut_end", "cut_both"}
                           THEN "period_wider" ELSE "none"
          [] dates # {} /\ ~Meet(a, <<first, last>>) -> "outside"
          [] OTHER -> IF first < a[1] \/ last > a[2] THEN "partial" ELSE "none"

\* The fiscal year five years before a decision exists.  A header may name
\* the two dates of a window the wrong way round.
ASSUME PeriodsAssumption ==
    /\ Label \subseteq Nat \ {0}
    /\ IsFiniteSet(LineDate) /\ \A d \in LineDate \ {NoDate} : IsDate(d)
    /\ Window \subseteq Nat \X Nat /\ \A w \in Window : IsDate(w[1]) /\ IsDate(w[2])
    /\ \A d \in Decision : IsDate(d) /\ YearOf(d) > AUDIT_YEARS + 1

-----------------------------------------------------------------------------
PeriodsInit ==
    /\ fiscal = 1
    /\ decision = NoDate
    /\ periods = [y \in Label |-> NoRow]
    /\ lines = {}

\* documents_set_company_fields, with no decision when the field is empty:
\* no window is rewritten, no version moves.
SetCompanyFields(m, d) ==
    /\ m \in FISCAL_START_MONTHS
    /\ fiscal' = m /\ decision' = d
    /\ UNCHANGED <<periods, lines>>

\* update_company stores them with the name and the address.
EditCompany(m, d) == SetCompanyFields(m, d)

\* ingest of a label, with the header its files have.
LoadLabel(y, header, dates) ==
    /\ periods' = [periods EXCEPT ![y] = resolve_period_bounds(y, header)]
    /\ lines' = {l \in lines : l[1] # y} \cup ({y} \X dates)
    /\ UNCHANGED <<fiscal, decision>>

\* documents_set_period.
SetPeriod(y, w) ==
    /\ Usable(y, w) /\ duplicate_period_windows(y, w) = {}
    /\ periods' = [periods EXCEPT ![y] = [window |-> w, manual |-> TRUE, stored |-> TRUE]]
    /\ UNCHANGED <<fiscal, decision, lines>>

\* documents_set_period with reset: the window stays until the next load.
ResetPeriod(y) ==
    /\ periods[y].stored
    /\ periods' = [periods EXCEPT ![y].manual = FALSE]
    /\ UNCHANGED <<fiscal, decision, lines>>

\* bump_data_version of a period never loaded: a row without a window.
BumpBeforeLoad(y) ==
    /\ ~periods[y].stored
    /\ periods' = [periods EXCEPT ![y].stored = TRUE]
    /\ UNCHANGED <<fiscal, decision, lines>>

PeriodsNext ==
    \/ \E m \in Month, d \in Decision \cup {NoDate} : SetCompanyFields(m, d) \/ EditCompany(m, d)
    \/ \E y \in Label, h \in Window \cup {NoWindow}, dates \in SUBSET LineDate :
           LoadLabel(y, h, dates)
    \/ \E y \in Label, w \in Window : SetPeriod(y, w)
    \/ \E y \in Label : ResetPeriod(y) \/ BumpBeforeLoad(y)

PeriodsSpec == PeriodsInit /\ [][PeriodsNext]_periodVars

-----------------------------------------------------------------------------
PeriodsTypeOK ==
    /\ fiscal \in FISCAL_START_MONTHS /\ decision \in Decision \cup {NoDate}
    /\ \A y \in Label : periods[y].window \in Nat \X Nat /\ periods[y].manual \in BOOLEAN
    /\ lines \subseteq Label \X (LineDate \cup {NoDate})

\* The page shows nothing unusual: no window an officer chose, none that
\* differs from the fiscal year.  A company that went back to the calendar
\* year is not told about windows stored before (period_window_conflict
\* returns early), so for it this is asked of the windows themselves.
Regular ==
    \A y \in Label :
        /\ ~periods[y].manual /\ ~period_window_conflict(y)
        /\ fiscal = 1 => effective_window(y) = fiscal_bounds(y, 1)

\* Then a dated line belongs to exactly one period, that of the fiscal year
\* its day is in, under whatever label it was loaded: no line is lost between
\* two years or counted twice.
LinesInOnePeriod ==
    Regular => \A l \in lines : l[2] # NoDate =>
        {y \in Label : l \in declaration_scope(y)} = {label_year_of(l[2], fiscal)} \cap Label

\* Whatever the windows are, a line its own label does not count is shown as
\* outside the window, and two stored periods that count the same line are
\* shown as overlapping: loads, edits, resets and rows made for a version
\* alone never hide one.
LossAndDoublingShown ==
    \A l \in lines :
        /\ l \notin declaration_scope(l[1]) => l \in out_of_window(l[1])
        /\ \A y, z \in Label :
               (/\ y # z /\ l[2] # NoDate /\ l \in declaration_scope(y) \cap declaration_scope(z)
                /\ NoWindow \notin {periods[y].window, periods[z].window})
               => z \in overlapping_periods(y)

\* Whichever way a window came to be stored, typed or read from a header, it
\* has days in the year of its label and at most fifteen months.
WindowsUsable ==
    \A y \in Label : periods[y].window # NoWindow => Usable(y, periods[y].window)

\* The gaps reported are just the days of the window in months without a
\* line: none is missed or invented at the ends of a window that begins or
\* ends inside a month.
GapsAreTheEmptyMonths ==
    \A y \in Label :
        LET w == periods[y].window
            dated == {l \in declaration_scope(y) : l[2] # NoDate}
            gaps == coverage_gaps(y)
            probes == {FirstDay(n) : n \in MonthsOf(w)} \cup {LastDay(n) : n \in MonthsOf(w)}
                          \cup {w[1], w[2]}
        IN  (w # NoWindow /\ dated # {}) =>
                \A d \in probes :
                    (\E g \in gaps : Inside(d, g)) <=>
                        (Inside(d, w) /\ \A l \in dated : MonthNo(l[2]) # MonthNo(d))

\* The periods shown for an audit cover every day of its five years, while
\* windows are regular: the first and the last, cut ones too.
AuditYearsCovered ==
    Regular /\ decision # NoDate =>
        LET a == audit_window(decision)
            shown == {WindowOf(y) : y \in scope_coverage}
        IN  \A d \in {a[1], a[2]} \cup {x \in LineDate : Inside(x, a)} :
                \E w \in shown : Inside(d, w)

\* Whatever the windows are, a finding told to be outside the five years has
\* no line in them, one told to be partly outside has lines in and out, and
\* one with nothing told has none out: the first and the last day of its lines
\* are enough, because no window is as long as the five years.
TagsTellTrue ==
    decision # NoDate =>
        LET a == audit_window(decision) IN
        \A y \in Label :
            LET status == classify_period(a, WindowOf(y)) IN
            \A dates \in (SUBSET {l[2] : l \in declaration_scope(y)}) \ {{}} :
                NoDate \notin dates =>
                    finding_scope_tag(a, dates, status) =
                        (CASE \A d \in dates : ~Inside(d, a) -> "outside"
                           [] \A d \in dates : Inside(d, a) -> "none"
                           [] OTHER -> "partial")

\* While the page shows nothing unusual the periods tile the days: no line is
\* lost between two of them or counted twice, and an audit finds a period for
\* every day it covers (app/checks/scope.py:49, app/pipeline/audit_scope.py:91).
PeriodsTile == LinesInOnePeriod /\ AuditYearsCovered

\* Whatever the windows are, the coverage panel tells of every line that is
\* not counted once and of just the months without lines
\* (app/pipeline/coverage.py:76-193), and findings are told right to be in or
\* out of the years of an audit (app/pipeline/audit_scope.py:153).
CoverageTellsAll == LossAndDoublingShown /\ GapsAreTheEmptyMonths /\ TagsTellTrue

=============================================================================
