------------------------------- MODULE MCRules -------------------------------
(***************************************************************************)
(* The parts that share no table in these models, one beside the other:    *)
(* Periods, Accounts, Scoring, Checks, CheckDefs and PeriodLine.  A        *)
(* behaviour is about one topic; the other parts stay where they begin.    *)
(*                                                                         *)
(* definitions: two authors, two companies, a query and two snippets of    *)
(* Python, of which one is no program and one gives rows that a finding    *)
(* cannot be made of.                                                      *)
(* line: a period whose loads one officer submits, with one page that      *)
(* follows the newest of them, and an administrator who also looks.        *)
(***************************************************************************)
EXTENDS Periods, Accounts, Scoring, Checks, CheckDefs, PeriodLine

CONSTANT Topic

VARIABLE topic

MCWindow == {<<20240215, 20250310>>, <<20240110, 20250420>>}

MCScope == [c \in Builtin \cup Dynamic |-> IF c = "C1.4" THEN "tp" ELSE "nvl"]

N15(no, book, code, unit, opening, import, repurpose, out, closing) ==
    [no |-> no, book |-> book, code |-> code, unit |-> unit, opening_qty |-> opening,
     import_qty |-> import, reexport_qty |-> 0, repurpose_qty |-> repurpose,
     production_out_qty |-> out, other_out_qty |-> 0, closing_qty |-> closing]
S15(no, book, code, opening, intake, export, closing) ==
    [no |-> no, book |-> book, code |-> code, unit |-> "KG", opening_qty |-> opening,
     intake_qty |-> intake, repurpose_qty |-> 0, export_qty |-> export,
     other_out_qty |-> 0, closing_qty |-> closing]
Norm(no, book, product, material, unit, qty, domestic) ==
    [no |-> no, book |-> book, product |-> product, material |-> material,
     unit |-> unit, qty |-> qty, domestic |-> domestic]
Line(no, item, customs, unit, quantity, hs) ==
    [no |-> no, item |-> item, customs |-> customs, unit |-> unit,
     quantity |-> quantity, hs |-> hs]
MCAliases == [KG |-> "kg", KGM |-> "kg", GAM |-> "g", LIT |-> "l"]
MCParts == [x \in {"KG/LIT"} |-> {"KG", "LIT"}]
MCFamilies == [kg |-> "mass", g |-> "mass", l |-> "volume"]
MCM15 ==
  [y \in {2024, 2025} |-> IF y = 2024
   THEN {{N15(1, "none", "m1", "KG", 0, 100, 0, 80, 20)}}
   ELSE {{N15(1, "none", "m1", "KG", 20, 100, 0, 90, 30)},
         {N15(1, "none", "m1", "KGM", 20, 100, 0, 80, 40),
          N15(2, "none", "m1", "GAM", 0, 900, 0, 0, 900)},
         {N15(1, "a", "m1", "KG", 20, 100, 0, 0, 100),
          N15(2, "b", "m2", "KG/LIT", 0, 0, 30, 50, -80)},
         {N15(1, "none", "m1", "BOX", 20, 30, 30, 10, 10),
          N15(2, "none", "m1", "GAM", 0, 0, 0, 0, 0)}}]
MCM15a ==
  [y \in {2024, 2025} |-> IF y = 2024
   THEN {{S15(1, "none", "p1", 0, 40, 30, 10)}}
   ELSE {{S15(1, "none", "p1", 10, 50, 50, 10)},
         {S15(1, "a", "p1", 0, 50, 50, 0), S15(2, "b", "p2", 5, 30, 40, -5)},
         {S15(1, "none", "p1", 10, 50, 50, 10), S15(2, "none", "p1", 0, -10, 0, 0),
          S15(3, "none", "p2", 0, 10, 0, 10)}}]
MCM16 ==
  [y \in {2024, 2025} |-> IF y = 2024
   THEN {{Norm(1, "none", "p1", "m1", "KG", 2, FALSE), Norm(2, "none", "p1", "m2", "KG", 1, FALSE)}}
   ELSE {{Norm(1, "none", "p2", "m2", "LIT", 1, TRUE)},
         {Norm(1, "none", "p2", "m2", "LIT", 1, TRUE), Norm(2, "none", "p1", "m1", "LIT", 1, FALSE),
          Norm(3, "none", "p1", "m1", "LIT", 3, FALSE)},
         {Norm(1, "a", "p1", "m1", "KG", 1, FALSE), Norm(2, "b", "p2", "m2", "LIT", 2, FALSE)}}]
Import25 == {Line(1, "m1", "E31", "KG", 100, <<39, 1, 1>>)}
MCBcct ==
  [y \in {2024, 2025} |-> IF y = 2024
   THEN {}
   ELSE {Import25,
         Import25 \cup {Line(2, "m1", "E31", "LIT", 7, <<39, 1, 2>>),
                        Line(3, "m3", "E31", "KG", 7, <<39, 2, 2>>),
                        Line(4, "p1", "E62", "KG", 50, <<84, 1, 1>>)},
         Import25 \cup {Line(2, "m1", "E13", "KG", 1, <<39, 2, 1>>),
                        Line(3, "p2", "E41", "KG", 30, <<84, 1, 1>>),
                        Line(4, "m2", "E82", "KGM", 45, <<39, 1, 1>>),
                        Line(5, "m2", "A42", "BOX", 30, <<40, 1, 1>>),
                        Line(6, "p1", "E62", "KG", 50, <<84, 1, 1>>)}}]
MCAbsent == [y \in {2024, 2025} |-> IF y = 2024 THEN {} ELSE {{<<"m15", "production_out_qty">>}}]
MCRequests == {<<"ingest", "lan">>, <<"ai_overview", "admin">>}

MCKind == [s \in Snippet |-> IF s = "s1" THEN "sql" ELSE "python"]
MCGives ==
    [s \in Snippet |->
        IF s = "s2" THEN [k \in Client |-> IF k = "k1" THEN "short" ELSE "error"]
        ELSE [k \in Client |-> IF k = "k1" THEN "rows" ELSE "odd"]]
MCCaps == [explore |-> 2, submit |-> 1]

MCInit ==
    /\ topic \in Topic
    /\ PeriodsInit /\ AccountsInit /\ ScoringInit /\ ChecksInit /\ CheckDefsInit /\ LineInit
    /\ topic = "scoring" \/ \A s \in DOMAIN denominators : denominators[s] = 0

MCNext ==
    /\ UNCHANGED topic
    /\ \/ /\ topic = "periods" /\ PeriodsNext
          /\ UNCHANGED <<accountVars, scoringVars, checkVars, defVars, lineVars>>
       \/ /\ topic = "accounts" /\ AccountsNext
          /\ UNCHANGED <<periodVars, scoringVars, checkVars, defVars, lineVars>>
       \/ /\ topic = "scoring" /\ ScoringNext
          /\ UNCHANGED <<periodVars, accountVars, checkVars, defVars, lineVars>>
       \/ /\ topic = "checks" /\ ChecksNext
          /\ UNCHANGED <<periodVars, accountVars, scoringVars, defVars, lineVars>>
       \/ /\ topic = "definitions" /\ CheckDefsNext
          /\ UNCHANGED <<periodVars, accountVars, scoringVars, checkVars, lineVars>>
       \/ /\ topic = "line" /\ LineNext
          /\ UNCHANGED <<periodVars, accountVars, scoringVars, checkVars, defVars>>

\* Where the line begins nothing of what is fair to it can happen.
MCSpec ==
    /\ MCInit
    /\ [][MCNext]_<<topic, periodVars, accountVars, scoringVars, checkVars, defVars, lineVars>>
    /\ LineFairness

\* Every part keeps its types: windows are usable dates, scores are scores,
\* and what a check leaves behind is a finding with a severity or a reason.
RulesTypeOK ==
    /\ PeriodsTypeOK /\ WindowsUsable
    /\ AccountsTypeOK /\ ScoringTypeOK /\ ChecksTypeOK
    /\ CheckDefsTypeOK /\ LineTypeOK

\* Quantities are counted in full and once: every material of the year is
\* measured against some norm or reported (c4_norm.py), and a line in a second
\* unit does not change what is found of the first (c1_quantity.py).
QuantitiesCounted == NoMaterialUnseen /\ SecondUnitHarmless

\* A score compares findings with what could have been found: a rule that
\* could not conclude is in neither side of the mean (scoring.py), and a
\* finding is about a code that the denominator of its check counts
\* (denominators.py), but for the exceptions FindingsCounted names.
ExposureFair == GatedIsAbsent /\ FindingsCounted

=============================================================================
