------------------------------ MODULE RunChecks ------------------------------
(***************************************************************************)
(* The findings, verdicts and scores of one company: run_checks replaces   *)
(* findings and scores of a period (app/pipeline/run_checks.py, in a job), *)
(* an officer's verdict rescores it (update_finding_status in              *)
(* app/routes/companies.py, recompute_company_year in recompute.py).       *)
(*                                                                         *)
(* What a handler reads before its first write is read with no lock held;  *)
(* from the first write to the commit it holds SQLite's only writer lock.  *)
(* A handler is one step per side of that line.  A check is abstracted to  *)
(* its outcome: a finding, none, or no conclusion; a finding is scored at  *)
(* the full exposure of its rule.                                          *)
(***************************************************************************)
EXTENDS Integers, FiniteSets

CONSTANTS
    Year,               \* the periods
    Code,               \* the registered checks, numbered in their order
    Runner,             \* threads that run checks: the worker, an inline job
    Officer,            \* requests that set verdicts
    combos_enabled,     \* the setting
    MaxId               \* bound on finding ids

COMBO == 0              \* the code of the combined finding; all checks trigger it
NoScore == -1           \* the period has no company_year_scores row
Verdict == {"new", "rejected"}  \* every other status is scored like "new"
Outcome == {"finding", "clean", "not_evaluable"}

ASSUME RunChecksAssumption ==
    /\ Code \subseteq Nat \ {COMBO} /\ IsFiniteSet(Code)
    /\ Runner \cap Officer = {}
    /\ combos_enabled \in BOOLEAN
    /\ MaxId \in Nat

Proc == Runner \cup Officer

VARIABLES
    findings,           \* the findings table: [id, year, code, status]
    not_evaluable,      \* [Year -> codes whose check_runs row says so]
    score,              \* [Year -> company_year_scores.score]
    risk_score,         \* companies.risk_score
    tx,                 \* what each thread has read and means to write
    broken,             \* history: the period's last run was broken off
    stray               \* history: the period was rescored from older findings

tables == <<findings, not_evaluable, score, risk_score>>
vars == <<findings, not_evaluable, score, risk_score, tx, broken, stray>>

Idle == [op |-> "idle"]

-----------------------------------------------------------------------------

Of(y, fs) == {f \in fs : f.year = y}

Ids(fs) == {f.id : f \in fs}

\* SQLite numbers a new row after the largest id left in the table, so the
\* ids of deleted rows come back.
\* Mutant: it numbers it by the rows left.
CountRows(fs) == Cardinality(fs)

LastId(fs) == IF fs = {} THEN 0 ELSE CHOOSE i \in Ids(fs) : \A k \in Ids(fs) : k <= i

\* compute_company_year_score: ten points for every rule with a finding that
\* was not rejected, twenty for a combo, over the most that the rules able to
\* conclude could give, per thousand.
compute_company_year_score(fs, skipped) ==
    LET live == {f \in fs : f.status # "rejected"}
        fired == {f.code : f \in live} \ (skipped \cup {COMBO})
        combo == \E f \in live : f.code = COMBO
        raw == 10 * Cardinality(fired) + IF combo THEN 20 ELSE 0
        max_raw == 10 * Cardinality(Code \ skipped) + 20
    IN  (1000 * raw) \div max_raw

MaxOf(S) == CHOOSE n \in S : \A m \in S : m <= n

Init ==
    /\ findings = {}
    /\ not_evaluable = [y \in Year |-> {}]
    /\ score = [y \in Year |-> NoScore]
    /\ risk_score = 0
    /\ tx = [p \in Proc |-> Idle]
    /\ broken = [y \in Year |-> FALSE]
    /\ stray = [y \in Year |-> FALSE]

Done(p) == tx' = [tx EXCEPT ![p] = Idle]

-----------------------------------------------------------------------------
(* run_checks.                                                             *)

\* The company row is loaded before the first write.
RunRead(p, y, only) ==
    /\ tx[p] = Idle
    /\ LastId(findings) + Cardinality(only) < MaxId
    /\ tx' = [tx EXCEPT ![p] = [op |-> "run", year |-> y, codes |-> only,
                                risk |-> risk_score]]
    /\ UNCHANGED <<tables, broken, stray>>

\* The findings of the codes to run are deleted, and every combo.
\* Mutant: combos are deleted on a full run only.
WipedOnFullRun(t) ==
    {f \in findings : ~(/\ f.year = t.year
                        /\ \/ f.code \in t.codes
                           \/ f.code = COMBO /\ t.codes = Code)}

\* Mutant: the period's findings are all deleted.
WipedByYear(t) == {f \in findings : f.year # t.year}

Wiped(t) ==
    {f \in findings : ~(f.year = t.year /\ f.code \in t.codes \cup {COMBO})}

\* New findings for a set of codes, in the order of the codes.
Inserted(y, codes, after) ==
    {[id |-> after + Cardinality({d \in codes : d <= c}), year |-> y,
      code |-> c, status |-> "new"] : c \in codes}

\* detect_combos, on all findings of the period, rejected ones included.
Combos(y, fs) ==
    IF combos_enabled /\ \A c \in Code : \E f \in Of(y, fs) : f.code = c
    THEN Inserted(y, {COMBO}, LastId(fs)) ELSE {}

\* risk_score: the largest stored score, the period's own old one included (the
\* session does not flush before it reads), and the new score.  The row is
\* written only when that differs from the value loaded at the start.
RunRisk(t, new) ==
    LET risk == MaxOf({s \in {score[z] : z \in Year} : s # NoScore} \cup {new})
    IN  IF risk = t.risk THEN risk_score ELSE risk

RunCommit(p) ==
    LET t == tx[p] IN
    /\ t.op = "run"
    /\ \E outcome \in [t.codes -> Outcome] :
        LET found == {c \in t.codes : outcome[c] = "finding"}
            ran == Wiped(t) \cup Inserted(t.year, found, LastId(Wiped(t)))
            after == ran \cup Combos(t.year, ran)
            skipped == (not_evaluable[t.year] \ t.codes)
                       \cup {c \in t.codes : outcome[c] = "not_evaluable"}
            new == compute_company_year_score(Of(t.year, after), skipped)
        IN  /\ findings' = after
            /\ not_evaluable' = [not_evaluable EXCEPT ![t.year] = skipped]
            /\ score' = [score EXCEPT ![t.year] = new]
            /\ risk_score' = RunRisk(t, new)
    /\ broken' = [broken EXCEPT ![t.year] = FALSE]
    /\ stray' = [stray EXCEPT ![t.year] = FALSE]
    /\ Done(p)

\* A built-in check raised: the worker's commit keeps what was flushed or
\* added so far, the deletions and the findings of the codes before it.
RunFails(p) ==
    LET t == tx[p] IN
    /\ t.op = "run"
    /\ \E raising \in t.codes :
        \E found \in SUBSET {c \in t.codes : c < raising} :
            findings' = Wiped(t) \cup Inserted(t.year, found, LastId(Wiped(t)))
    /\ broken' = [broken EXCEPT ![t.year] = TRUE]
    /\ Done(p)
    /\ UNCHANGED <<not_evaluable, score, risk_score, stray>>

-----------------------------------------------------------------------------
(* update_finding_status.                                                  *)

\* The request loads the finding its page named.
VerdictRead(p, f, to) ==
    /\ tx[p] = Idle
    /\ tx' = [tx EXCEPT ![p] = [op |-> "verdict", id |-> f.id, year |-> f.year,
                                code |-> f.code, was |-> f.status, to |-> to]]
    /\ UNCHANGED <<tables, broken, stray>>

Scores(s) == {s[z] : z \in Year} \ {NoScore}

\* recompute_company_year: the score, flushed, and the largest of all.
Rescored(y, new) ==
    /\ score' = [score EXCEPT ![y] = new]
    /\ risk_score' = MaxOf(Scores(score'))

\* A changed verdict: the UPDATE takes the lock, by id; the rescoring reads
\* the period under it, but the finding already loaded keeps the code it had.
\* Mutant: the rescoring reads the findings before the update.
VerdictScoredBefore(p) ==
    LET t == tx[p] IN
    /\ t.op = "verdict"
    /\ t.to # t.was
    /\ \E f \in findings :
        /\ f.id = t.id
        /\ findings' = (findings \ {f}) \cup {[f EXCEPT !.status = t.to]}
        /\ Rescored(t.year, compute_company_year_score(Of(t.year, findings),
                                                       not_evaluable[t.year]))
        /\ stray' = [y \in Year |->
              stray[y] \/ ((f.year # t.year \/ f.code # t.code) /\ y \in {f.year, t.year})]
    /\ Done(p)
    /\ UNCHANGED <<not_evaluable, broken>>

VerdictCommit(p) ==
    LET t == tx[p] IN
    /\ t.op = "verdict"
    /\ t.to # t.was
    /\ \E f \in findings :
        /\ f.id = t.id
        /\ findings' = (findings \ {f}) \cup {[f EXCEPT !.status = t.to]}
        /\ LET seen == {IF g.id = t.id THEN [g EXCEPT !.code = t.code] ELSE g :
                           g \in Of(t.year, findings')}
           IN  Rescored(t.year,
                   compute_company_year_score(seen, not_evaluable[t.year]))
        /\ stray' = [y \in Year |->
              stray[y] \/ ((f.year # t.year \/ f.code # t.code) /\ y \in {f.year, t.year})]
    /\ Done(p)
    /\ UNCHANGED <<not_evaluable, broken>>

\* The same verdict sent again updates nothing and takes no lock: the period
\* is read as it is, and the score is written later.
ResubmitRead(p) ==
    LET t == tx[p] IN
    /\ t.op = "verdict"
    /\ t.to = t.was
    /\ tx' = [tx EXCEPT ![p] =
                [op |-> "rescore", year |-> t.year, was |-> score[t.year],
                 new |-> compute_company_year_score(Of(t.year, findings),
                                                    not_evaluable[t.year])]]
    /\ UNCHANGED <<tables, broken, stray>>

ResubmitCommit(p) ==
    LET t == tx[p]
        now == compute_company_year_score(Of(t.year, findings),
                                          not_evaluable[t.year])
    IN
    /\ t.op = "rescore"
    /\ IF t.new = t.was
       THEN risk_score' = MaxOf(Scores(score) \cup {0}) /\ UNCHANGED <<score, stray>>
       ELSE /\ Rescored(t.year, t.new)
            /\ stray' = [stray EXCEPT ![t.year] = @ \/ t.new # now]
    /\ Done(p)
    /\ UNCHANGED <<findings, not_evaluable, broken>>

\* The finding is gone, the lock timed out or the process died: nothing is
\* written.
Abort(p) ==
    /\ tx[p] # Idle
    /\ Done(p)
    /\ UNCHANGED <<tables, broken, stray>>

Next ==
    \/ \E p \in Runner :
        \/ \E y \in Year, only \in (SUBSET Code) \ {{}} : RunRead(p, y, only)
        \/ RunCommit(p)
        \/ RunFails(p)
        \/ Abort(p)
    \/ \E p \in Officer :
        \/ \E f \in findings, to \in Verdict : VerdictRead(p, f, to)
        \/ VerdictCommit(p)
        \/ ResubmitRead(p)
        \/ ResubmitCommit(p)
        \/ Abort(p)

Spec == Init /\ [][Next]_vars

-----------------------------------------------------------------------------

Finding == [id : Nat \ {0}, year : Year, code : Code \cup {COMBO}, status : Verdict]

RunTx == [op : {"run"}, year : Year, codes : SUBSET Code, risk : Nat]
VerdictTx == [op : {"verdict"}, id : Nat \ {0}, year : Year,
              code : Code \cup {COMBO}, was : Verdict, to : Verdict]
RescoreTx == [op : {"rescore"}, year : Year, was : (0 .. 1000) \cup {NoScore}, new : 0 .. 1000]

\* The types, and that id is the primary key of the findings.
TypeOK ==
    /\ \A f \in findings : f \in Finding
    /\ \A f, g \in findings : f.id = g.id => f = g
    /\ not_evaluable \in [Year -> SUBSET Code]
    /\ score \in [Year -> (0 .. 1000) \cup {NoScore}]
    /\ risk_score \in 0 .. 1000
    /\ tx \in [Proc -> {Idle} \cup RunTx \cup VerdictTx \cup RescoreTx]
    /\ broken \in [Year -> BOOLEAN]
    /\ stray \in [Year -> BOOLEAN]

\* A stored score is the score of the findings and verdicts the period has,
\* however runs and verdicts interleave, except after a run was broken off or
\* a verdict was scored on findings read before they were replaced, and then
\* only until the next complete run.
ScoreMatchesFindings ==
    \A y \in Year :
        score[y] # NoScore /\ ~broken[y] /\ ~stray[y]
            => score[y] = compute_company_year_score(Of(y, findings),
                                                     not_evaluable[y])

\* A combined finding never outlives the findings it combines, although a
\* partial run may take away one of them and never looks at the others.
ComboIsBacked ==
    \A f \in findings :
        f.code = COMBO =>
            \A c \in Code : \E g \in Of(f.year, findings) : g.code = c

\* A run, whole or broken off, leaves the verdicts on findings of the other
\* codes and the other periods alone.
OtherVerdictsKept ==
    [][\A p \in Runner : RunCommit(p) \/ RunFails(p) =>
          {f \in findings : f.year # tx[p].year \/ f.code \notin tx[p].codes \cup {COMBO}}
              \subseteq findings']_vars

\* DECISIONS.md on run_checks: a built-in check that raises rolls the whole
\* transaction back.
RunIsAllOrNothing == [][\A p \in Runner : RunFails(p) => UNCHANGED findings]_vars

\* run_checks.py: risk_score is the largest score over the years.
RiskIsMaxScore == Scores(score) # {} => risk_score = MaxOf(Scores(score))

=============================================================================
