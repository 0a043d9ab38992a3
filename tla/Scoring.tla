------------------------------- MODULE Scoring -------------------------------
(***************************************************************************)
(* The risk score of a period (compute_company_year_score in               *)
(* app/checks/scoring.py): every rule scores the rate of its findings over *)
(* the codes it had to look at, and the score is a mean over the rules     *)
(* that could conclude.  RunChecks has who computes it when; here is what  *)
(* the number does as findings, verdicts, exposures, gates and published   *)
(* rules change.  Rule scores are in thousandths of a point.               *)
(***************************************************************************)
EXTENDS Integers, FiniteSetsExt

CONSTANTS
    Builtin,            \* codes of built-in rules
    Dynamic,            \* codes of rules an admin may publish and withdraw
    RULE_SCOPE,         \* [code -> the exposure it is rated by]
    Exposure,           \* the numbers of codes a period may have
    MaxMarks            \* bound on the findings of the period

Combo == "COMBO"        \* every combined finding

\* A code is a rule or the combined findings; every rule has a scope.
ASSUME ScoringAssumption ==
    /\ IsFiniteSet(Builtin \cup Dynamic) /\ Combo \notin Builtin \cup Dynamic
    /\ RULE_SCOPE \in [Builtin \cup Dynamic -> {"nvl", "tp"}]
    /\ Exposure \subseteq Nat

Severity == {"critical", "warning", "info"}
Mark == [code : Builtin \cup Dynamic \cup {Combo}, severity : Severity,
         status : {"new", "rejected"}]

VARIABLES
    marks,              \* the findings: how many there are of each Mark
    denominators,       \* [scope -> distinct codes of the period], as loaded
    skipped,            \* codes whose check_runs row says not_evaluable
    published           \* the published rules

scoringVars == <<marks, denominators, skipped, published>>

-----------------------------------------------------------------------------

SEVERITY_POINTS == [critical |-> 10, warning |-> 3, info |-> 1]
COMBO_BONUS == 20
MAX_RULE_SCORE == 10

\* Python's round: halves go to the even neighbour.
Rounded(a, b) ==
    LET q == a \div b
        twice == 2 * (a % b)
    IN  IF twice > b \/ (twice = b /\ q % 2 = 1) THEN q + 1 ELSE q

\* The findings of a code that were not rejected, of one severity and of all.
Standing(ms, code, v) == ms[[code |-> code, severity |-> v, status |-> "new"]]

CountOf(ms, code) ==
    Standing(ms, code, "critical") + Standing(ms, code, "warning") + Standing(ms, code, "info")

PointsOf(ms, code) ==
    SEVERITY_POINTS.critical * Standing(ms, code, "critical")
    + SEVERITY_POINTS.warning * Standing(ms, code, "warning")
    + SEVERITY_POINTS.info * Standing(ms, code, "info")

\* The rate of a rule, capped; without exposure there is no rate.
\* Mutant: the rate is over the findings there are.
MeanSeverity(ms, code, denom) ==
    IF denom = 0 \/ CountOf(ms, code) = 0 THEN 0
    ELSE Rounded(1000 * PointsOf(ms, code), CountOf(ms, code))
compute_rule_score(ms, code, denom) ==
    IF denom = 0 THEN 0
    ELSE Min({1000 * MAX_RULE_SCORE, Rounded(1000 * PointsOf(ms, code), denom)})

\* extended_rule_scope: the built-in rules and the published ones.
extended_rule_scope == Builtin \cup published

\* A code in no scope is rated by "nvl": a rule withdrawn after it found.
scope_of(code, scope) == IF code \in scope THEN RULE_SCOPE[code] ELSE "nvl"

\* The rules' scores added up, each rated in its scope.
rule_scores(ms, denoms, rated, codes) ==
    MapThenSumSet(LAMBDA c : compute_rule_score(ms, c, denoms[scope_of(c, rated)]), codes)

\* Findings of a rule no longer rated add to the sum, so it is clamped.
compute_company_year_score(ms, denoms, scope, gated) ==
    LET rated == scope \ gated
        raw == rule_scores(ms, denoms, rated, (Builtin \cup Dynamic) \ gated)
               + IF CountOf(ms, Combo) > 0 THEN 1000 * COMBO_BONUS ELSE 0
        max_raw == MAX_RULE_SCORE * Cardinality(rated) + COMBO_BONUS
    IN  Min({1000, Rounded(raw, max_raw)})

\* The breakdown that is stored with it, as far as its coverage goes.
breakdown(scope, gated) ==
    [max_raw |-> MAX_RULE_SCORE * Cardinality(scope \ gated) + COMBO_BONUS,
     not_evaluable |-> gated,
     rule_count |-> Cardinality(scope \ gated) + Cardinality(gated)]

\* score_coverage, of a breakdown and of one from before it had rule_count.
score_coverage(b) == <<b.rule_count - Cardinality(b.not_evaluable), b.rule_count>>

old_score_coverage(b) ==
    LET total == (b.max_raw - COMBO_BONUS) \div MAX_RULE_SCORE + Cardinality(b.not_evaluable)
    IN  <<total - Cardinality(b.not_evaluable), total>>

score_now ==
    compute_company_year_score(marks, denominators, extended_rule_scope, skipped)

-----------------------------------------------------------------------------

ScoringInit ==
    /\ marks = [k \in Mark |-> 0]
    /\ denominators \in [{"nvl", "tp"} -> Exposure]
    /\ skipped = {} /\ published = {}

\* A run adds a finding; one that broke off may have added it to a rule that
\* still counts as gated.
Find(k) ==
    /\ k.status = "new"
    /\ k.code \in Builtin \cup published \cup {Combo}
    /\ marks' = [marks EXCEPT ![k] = @ + 1]
    /\ UNCHANGED <<denominators, skipped, published>>

\* An officer's verdict on one finding.
Judge(k, to) ==
    /\ marks[k] > 0 /\ to # k.status
    /\ marks' = [marks EXCEPT ![k] = @ - 1, ![[k EXCEPT !.status = to]] = @ + 1]
    /\ UNCHANGED <<denominators, skipped, published>>

\* A run of one rule: its findings and the combos go; it concludes or not.
Rerun(c) ==
    /\ marks' = [k \in Mark |-> IF k.code \in {c, Combo} THEN 0 ELSE marks[k]]
    /\ skipped' \in {skipped \cup {c}, skipped \ {c}}
    /\ UNCHANGED <<denominators, published>>

\* An admin publishes or withdraws a rule; its findings and its gate stay
\* until the period is run in full.
Publish(c) ==
    /\ published' = IF c \in published THEN published \ {c} ELSE published \cup {c}
    /\ UNCHANGED <<marks, denominators, skipped>>

ScoringNext ==
    \/ /\ MapThenSumSet(LAMBDA k : marks[k], Mark) < MaxMarks
       /\ \E k \in Mark : Find(k)
    \/ \E k \in Mark : \E to \in {"new", "rejected"} : Judge(k, to)
    \/ \E c \in Builtin \cup published : Rerun(c)
    \/ \E c \in Dynamic : Publish(c)

ScoringSpec == ScoringInit /\ [][ScoringNext]_scoringVars

-----------------------------------------------------------------------------
(* Properties                                                              *)

ScoringTypeOK ==
    /\ marks \in [Mark -> Nat]
    /\ denominators \in [{"nvl", "tp"} -> Exposure]
    /\ skipped \subseteq Builtin \cup Dynamic
    /\ published \subseteq Dynamic
    /\ score_now \in 0 .. 1000

\* On the same exposure and rules, another finding, or a verdict taken back,
\* never makes a period look better, and rejecting one never makes it look
\* worse, through every rounding, cap and ceiling, also for findings of a
\* rule that was withdrawn.
ScoreMonotone ==
    [][marks' # marks /\ UNCHANGED <<denominators, skipped, published>> =>
          LET open == {k \in Mark : k.status = "new"}
              now == score_now
          IN  /\ (\A k \in open : marks[k] <= marks'[k]) => now <= score_now'
              /\ (\A k \in open : marks[k] >= marks'[k]) => now >= score_now']_scoringVars

\* A period scores as if the rules that could not conclude did not exist
\* (scoring.py, .ai/GLOSSARY.md): they are in neither side of the mean,
\* whatever findings a broken-off run left them; and the coverage shown with
\* the score counts the others, also when it is computed back from an old
\* breakdown.
GatedIsAbsent ==
    /\ score_now = compute_company_year_score(
           [k \in Mark |-> IF k.code \in skipped THEN 0 ELSE marks[k]],
           denominators, extended_rule_scope \ skipped, {})
    /\ LET b == breakdown(extended_rule_scope, skipped)
       IN  /\ score_coverage(b) = old_score_coverage(b)
           /\ score_coverage(b)[1] = Cardinality(extended_rule_scope \ skipped)

=============================================================================
