------------------------------ MODULE CheckDefs ------------------------------
(***************************************************************************)
(* The checks an administrator adds (X.1, X.2, ...): drafted by the        *)
(* provider in rounds of tool calls and tried on a reference company until *)
(* they pass (app/checks/spec_gen.py), saved from the page that shows the  *)
(* draft, published and withdrawn (app/routes/admin_checks.py), and run    *)
(* with the built-in ones (app/checks/sql_runner.py, run_checks).          *)
(*                                                                         *)
(* A snippet, SQL or Python, is a model value with what it gives on each   *)
(* company; a tool's answer and the prompt are left out.  A trial leaves   *)
(* nothing behind, so checks_preview changes no state.                     *)
(***************************************************************************)
EXTENDS Integers, Sequences, FiniteSets

CONSTANTS
    Author,             \* administrators' requests and the page each is on
    Client,             \* companies
    Snippet,
    kind,               \* [Snippet -> {"sql", "python"}]
    Invalid,            \* snippets validate_check_definition refuses
    gives,              \* [Snippet -> [Client -> {"rows", "short", "error", "odd"}]]:
                        \* rows with all columns, without one, an error of the
                        \* snippet, or rows that are not of the promised type
    DEFAULT_TOOL_CAPS, DEFAULT_TOTAL_MAX, _MAX_TURNS, _DEFAULT_MAX_RETRIES,
    MaxCalls,           \* bound on the tool calls of one answer
    MaxDefinitions      \* bound on saved checks

ASSUME CheckDefsAssumption ==
    /\ kind \in [Snippet -> {"sql", "python"}] /\ Invalid \subseteq Snippet
    /\ gives \in [Snippet -> [Client -> {"rows", "short", "error", "odd"}]]
    /\ DEFAULT_TOOL_CAPS \in [{"explore", "submit"} -> Nat]
    /\ {DEFAULT_TOTAL_MAX, _MAX_TURNS, _DEFAULT_MAX_RETRIES, MaxCalls, MaxDefinitions}
          \subseteq Nat
    /\ _MAX_TURNS > 0

VARIABLES
    definitions,        \* check_definitions, in the order of ids
    author,             \* [Author -> what the request or page is at]
    last_run            \* [Client -> how its last run_checks ended]

defVars == <<definitions, author, last_run>>

NoUses == [explore |-> 0, submit |-> 0]
Away == [pc |-> "away", ref |-> 0, attempt |-> 0, turn |-> 0, uses |-> NoUses,
         snippet |-> 0, code |-> 0]

Published == {i \in DOMAIN definitions : definitions[i].status = "published"}

-----------------------------------------------------------------------------
(* Running a snippet                                                       *)

\* run_check: a SELECT that lacks a column is an error; Python's rows are
\* taken as they come.
run_check(s, k) ==
    IF gives[s][k] = "short" THEN IF kind[s] = "sql" THEN "error" ELSE "rows"
    ELSE gives[s][k]

\* dry_run asks the columns of both.
dry_run(s, k) == IF gives[s][k] = "short" THEN "error" ELSE gives[s][k]

-----------------------------------------------------------------------------
(* Drafting                                                                *)

Set(a, rec) == author' = [author EXCEPT ![a] = rec]

checks_draft(a, k) ==
    /\ author[a].pc = "away"
    /\ Set(a, [Away EXCEPT !.pc = "drafting", !.ref = k])
    /\ UNCHANGED <<definitions, last_run>>

Total(uses) == uses.explore + uses.submit

\* _ToolBudget.charge.
Allowed(uses, tool) ==
    Total(uses) < DEFAULT_TOTAL_MAX /\ uses[tool] < DEFAULT_TOOL_CAPS[tool]

\* One answer: its calls are served in order until one submits a payload; a
\* call that cannot be parsed ("noise") is not charged, a submission without
\* a payload ("blank") is.
Served(uses, calls) ==
    LET after[i \in 0 .. Len(calls)] ==
          IF i = 0 THEN [uses |-> uses, refused |-> FALSE, final |-> FALSE]
          ELSE LET b == after[i - 1]
                   tool == IF calls[i] = "explore" THEN "explore" ELSE "submit"
               IN  IF b.final \/ calls[i] = "noise" THEN b
                   ELSE IF ~Allowed(b.uses, tool) THEN [b EXCEPT !.refused = TRUE]
                   ELSE [b EXCEPT !.uses[tool] = @ + 1, !.final = (calls[i] = "submit")]
    IN  after[Len(calls)]

\* _draft_once, one turn of it.
Turn(a, calls, s) ==
    LET w == author[a]
        end == Served(w.uses, calls)
        out == \/ end.refused \/ Total(end.uses) >= DEFAULT_TOTAL_MAX
               \/ w.turn + 1 = _MAX_TURNS
    IN  /\ w.pc = "drafting"
        /\ Set(a, IF end.final THEN [w EXCEPT !.pc = "oracle", !.snippet = s, !.turn = 0, !.uses = NoUses]
                  ELSE IF out THEN Away
                  ELSE [w EXCEPT !.turn = @ + 1, !.uses = end.uses])
        /\ UNCHANGED <<definitions, last_run>>

\* The provider fails, or answers without a call.
DraftFails(a) ==
    /\ author[a].pc = "drafting"
    /\ Set(a, Away)
    /\ UNCHANGED <<definitions, last_run>>

\* draft_and_validate: what is not valid or does not run on the reference
\* company is drafted again with a new budget, a few times; an error nobody
\* expects ends it.
Oracle(a) ==
    LET w == author[a]
        passed == w.snippet \notin Invalid /\ dry_run(w.snippet, w.ref) = "rows"
        broken == w.snippet \notin Invalid /\ dry_run(w.snippet, w.ref) = "odd"
    IN  /\ w.pc = "oracle"
        /\ Set(a, IF passed THEN [Away EXCEPT !.pc = "preview", !.snippet = w.snippet]
                  ELSE IF broken \/ w.attempt = _DEFAULT_MAX_RETRIES THEN Away
                  ELSE [Away EXCEPT !.pc = "drafting", !.ref = w.ref, !.attempt = w.attempt + 1])
        /\ UNCHANGED <<definitions, last_run>>

-----------------------------------------------------------------------------
(* Saving                                                                  *)

\* The number after that of the last row.
next_check_code ==
    IF definitions = <<>> THEN 1 ELSE definitions[Len(definitions)].code + 1

\* checks_create, up to the read of the next code.
Post(a) ==
    /\ author[a].pc = "preview" /\ author[a].snippet \notin Invalid
    /\ Set(a, [author[a] EXCEPT !.pc = "saving", !.code = next_check_code])
    /\ UNCHANGED <<definitions, last_run>>

\* The column code is unique: the insert of a code taken meanwhile fails.
\* Mutant: it is not.
NoConstraint(code) == FALSE

Taken(code) == \E i \in DOMAIN definitions : definitions[i].code = code

Save(a) ==
    LET w == author[a] IN
    /\ w.pc = "saving" /\ Len(definitions) < MaxDefinitions
    /\ definitions' = IF Taken(w.code) THEN definitions
                      ELSE Append(definitions,
                                  [code |-> w.code, snippet |-> w.snippet, status |-> "draft"])
    /\ Set(a, Away)
    /\ UNCHANGED last_run

\* checks_publish, checks_disable and checks_revert_draft, from any status.
SetStatus(i, status) ==
    /\ i \in DOMAIN definitions /\ definitions[i].status # status
    /\ definitions' = [definitions EXCEPT ![i].status = status]
    /\ UNCHANGED <<author, last_run>>

\* run_checks: of the published checks those asked for; an error of one is
\* its own, and anything else breaks the run off.
run_checks(k, only) ==
    LET codes == Published \cap only IN
    /\ last_run' = [last_run EXCEPT ![k] =
          IF \E i \in codes : run_check(definitions[i].snippet, k) = "odd" THEN "broken"
          ELSE "whole"]
    /\ UNCHANGED <<definitions, author>>

CheckDefsInit ==
    /\ definitions = <<>>
    /\ author = [a \in Author |-> Away]
    /\ last_run = [k \in Client |-> "whole"]

Answers == UNION {[1 .. n -> {"explore", "submit", "blank", "noise"}] : n \in 1 .. MaxCalls}

CheckDefsNext ==
    \/ \E a \in Author :
          \/ \E k \in Client : checks_draft(a, k)
          \/ \E calls \in Answers, s \in Snippet : Turn(a, calls, s)
          \/ DraftFails(a) \/ Oracle(a) \/ Post(a) \/ Save(a)
    \/ \E i \in 1 .. MaxDefinitions, status \in {"draft", "published", "disabled"} :
          SetStatus(i, status)
    \/ \E k \in Client, only \in SUBSET (1 .. MaxDefinitions) : run_checks(k, only)

CheckDefsSpec == CheckDefsInit /\ [][CheckDefsNext]_defVars

-----------------------------------------------------------------------------
(* Properties                                                              *)

CheckDefsTypeOK ==
    /\ \A i \in DOMAIN definitions :
          /\ definitions[i].code \in 1 .. MaxDefinitions /\ definitions[i].snippet \in Snippet
          /\ definitions[i].status \in {"draft", "published", "disabled"}
    /\ \A a \in Author : /\ author[a].turn < _MAX_TURNS
                         /\ author[a].attempt <= _DEFAULT_MAX_RETRIES
                         /\ Total(author[a].uses) <= DEFAULT_TOTAL_MAX
    /\ last_run \in [Client -> {"whole", "broken"}]

\* A code names one check for good, whoever saves at the same time: findings
\* and runs know a check by its code only (next_check_code reads, the insert
\* is later).
CodesNeverShared ==
    \A i, j \in DOMAIN definitions : definitions[i].code = definitions[j].code => i = j

\* Every saved check is the very draft that was valid and ran with all its
\* columns on some company, whichever attempt that was (draft_and_validate,
\* "Deterministic oracle + retry").
TestedBeforeSaved ==
    \A i \in DOMAIN definitions :
        /\ definitions[i].snippet \notin Invalid
        /\ \E k \in Client : gives[definitions[i].snippet][k] = "rows"

\* What is saved can be trusted by its code: whoever saves at the same time a
\* code names one check for good (next_check_code reads, the insert is
\* later), and every saved check is the very draft that was valid and ran
\* with all its columns on some company (draft_and_validate).
SavedChecksSound == CodesNeverShared /\ TestedBeforeSaved

=============================================================================
