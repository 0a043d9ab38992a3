----------------------------- MODULE DataScreen ------------------------------
(***************************************************************************)
(* The screen of the documents of a company (app/pipeline/data_screen.py): *)
(* for its period the files, the state of each slot, how many checks have  *)
(* the data they need, and the list of what the officer has to do          *)
(* (app/pipeline/readiness.py).  Nothing here changes state: the screen is *)
(* computed from the registry, once it is reconciled with the disk, and    *)
(* from the loaded rows, at any moment of Documents.                       *)
(*                                                                         *)
(* What is not of this period's files is the surroundings it is seen in:   *)
(* the window, the labels beside it, the gates of the checks.              *)
(***************************************************************************)
EXTENDS Documents

CONSTANTS
    Check,              \* ALL_CHECKS
    Added,              \* published checks of the officers
    requires,           \* [Check -> the slots it needs rows of]
    Alphabetical,       \* the slots, in the order of their names
    Around              \* surroundings, see the assumption

NoGate == [remedy |-> None]
\* The three kinds of remedy: a file of this period, of another, or none.
Remedies == {"file_this_period", "other_period", "nothing_to_load"}
RemedyTarget ==
    ({"document"} \X Slot) \cup
    {<<"period", "other">>, <<"company_field", "first_bcqt_year">>}
Gate == {NoGate} \cup [remedy : Remedies, target : RemedyTarget]

ASSUME DataScreenAssumption ==
    /\ Check \cap Added = {}
    /\ requires \in [Check -> SUBSET Slot]
    /\ Alphabetical \in Seq(Slot)
    /\ \A s \in Slot : \E i \in DOMAIN Alphabetical : Alphabetical[i] = s
    /\ \A a \in Around :
        /\ a.inside \in BOOLEAN     \* some declaration is in the window
        /\ a.near \in BOOLEAN       \* so is one loaded with a label beside it
        /\ a.gate \in [Check -> Gate]  \* what the gate of each check says
        /\ a.flags \subseteq {"overlap", "gap", "out-of-window", "undated",
                              "cross-label-duplicates"}

-----------------------------------------------------------------------------
(* What the checks lack                                                    *)

\* The slots with a row; declarations count by the window, not by the label.
available_sources(a) ==
    {s \in Settlement : Rows(s) # {}} \cup
    {s \in {Bcct} : a.near \/ (Rows(Bcct) # {} /\ a.inside)}

\* Always a file of this period: the first that is missing.
classify_missing_sources(missing) ==
    LET found == {i \in DOMAIN Alphabetical : Alphabetical[i] \in missing}
        first == CHOOSE i \in found : \A j \in found : i <= j
    IN  [remedy |-> "file_this_period", target |-> <<"document", Alphabetical[first]>>]

Predicted(status, outcome) == [status |-> status, outcome |-> outcome]

\* The missing sources come before the gate of the check itself.
predict_check(c, present, a) ==
    IF c \in Added THEN Predicted("run-to-know", NoGate)
    ELSE IF ~(requires[c] \subseteq present)
         THEN Predicted("blocked", classify_missing_sources(requires[c] \ present))
    ELSE IF a.gate[c] = NoGate THEN Predicted("ready", NoGate)
    ELSE Predicted(IF a.gate[c].remedy = "nothing_to_load" THEN "conclusion" ELSE "blocked",
                 a.gate[c])

\* No rows to load change a conclusion: it counts as having its data.
data_sufficient(v) == v.status \in {"ready", "conclusion"}

-----------------------------------------------------------------------------
(* The state of a slot                                                     *)

FilesOf(reg, s) == {k \in DOMAIN reg : k[2] = s}
StatusesOf(reg, s) == {reg[k].status : k \in FilesOf(reg, s)}

\* The files with a column to be confirmed.
review_gate_for_files(reg) == {k \in DOMAIN reg : reg[k].review}

\* In the order in which the officer has to deal with it.  The gate is that
\* of the period: a load that stops leaves every file analysed.
_slot_state(reg, s, has_rows) ==
    LET statuses == StatusesOf(reg, s)
    IN  IF statuses = {} THEN IF has_rows THEN "stale" ELSE "no-file"
        ELSE IF "error" \in statuses THEN "parse-error"
        ELSE IF review_gate_for_files(reg) # {} /\ "analyzed" \in statuses
             THEN "needs-column-review"
        ELSE IF s \in Settlement /\ book_assignment_error(reg) THEN "needs-book"
        ELSE IF ~has_rows THEN "not-parsed"
        ELSE IF statuses = {"ok"} THEN "ready" ELSE "stale"

FileLevel == {"not-parsed", "parse-error", "needs-column-review", "needs-book"}

\* Rows are there, and the files changed since: an axis of its own.
StaleSlot(reg, s, has_rows) ==
    has_rows /\ (FilesOf(reg, s) = {} \/ StatusesOf(reg, s) # {"ok"})

_slot_statuses(reg, present) ==
    [s \in Slot |->
        LET state == _slot_state(reg, s, s \in present)
        IN  [state |-> state, has_rows |-> s \in present,
             stale |-> StaleSlot(reg, s, s \in present),
             files |-> IF state = "needs-column-review" THEN review_gate_for_files(reg)
                                                        ELSE FilesOf(reg, s)]]

-----------------------------------------------------------------------------
(* The list of what is to be done                                          *)

Line(kind, key, codes, remedy, action) ==
    [kind |-> kind, key |-> key, codes |-> codes, remedy |-> remedy, action |-> action]

\* A broken file and a file without book or columns are dealt with on the
\* page of a file, the others by a load.
_file_action(status) ==
    IF status.state \in {"parse-error", "needs-column-review", "needs-book"}
    THEN <<"open_file", status.files>> ELSE <<"ingest">>

_check_action(target) ==
    CASE target[1] = "document" -> <<"upload", target[2]>>
      [] target[1] = "period" -> <<"open_period", target[2]>>
      [] target[1] = "company_field" -> <<"confirm_company_field", target[2]>>

_coverage_action(flag) ==
    CASE flag = "gap" -> <<"upload", Bcct>>
      [] flag \in {"overlap", "out-of-window"} -> <<"edit_window">>
      [] OTHER -> <<"none">>

\* The checks a line for a slot stands for: those whose remedy is a file of it.
\* Mutant: they get a line of their own, though the file is there.
Forgotten(verdicts, s) == {}
Absorbed(verdicts, s) ==
    {c \in DOMAIN verdicts :
        verdicts[c].status = "blocked" /\ verdicts[c].outcome.target = <<"document", s>>}

FileLines(slots, verdicts) ==
    {Line("file", s, Absorbed(verdicts, s), None, _file_action(slots[s])) :
        s \in {t \in Slot : slots[t].state \in FileLevel}}

\* One line for the period, whatever slots it is about.
_stale_blocker(slots) ==
    IF \E s \in Slot : slots[s].stale
    THEN {Line("file", "stale", {}, None, <<"ingest">>)} ELSE {}

\* The other blocked checks, by what unblocks them.
CheckLines(slots, verdicts) ==
    LET taken == UNION {l.codes : l \in FileLines(slots, verdicts)}
        left == {c \in DOMAIN verdicts : verdicts[c].status = "blocked"} \ taken
    IN  {Line("check", o, {c \in left : verdicts[c].outcome = o}, o.remedy,
              _check_action(o.target)) : o \in {verdicts[c].outcome : c \in left}}

\* Only the overlap of windows is told of a period without declarations.
_coverage_blockers(a) ==
    {Line("coverage", f, {}, None, _coverage_action(f)) :
        f \in IF Rows(Bcct) = {} THEN a.flags \cap {"overlap"} ELSE a.flags}

_blockers(slots, verdicts, a) ==
    FileLines(slots, verdicts) \cup _stale_blocker(slots)
    \cup CheckLines(slots, verdicts) \cup _coverage_blockers(a)

\* Conclusions about the company are listed apart and not counted.
_conclusion_items(verdicts) ==
    LET concluded == {c \in DOMAIN verdicts : verdicts[c].status = "conclusion"}
    IN  {Line("conclusion", o, {c \in concluded : verdicts[c].outcome = o}, o.remedy,
              <<"open_findings">>) : o \in {verdicts[c].outcome : c \in concluded}}

\* Lines without a remedy are in the first group; there is no fourth.
_groups(lines, conclusions) ==
    [r \in Remedies |->
        {l \in lines \cup conclusions :
            (IF l.remedy = None THEN "file_this_period" ELSE l.remedy) = r}]

-----------------------------------------------------------------------------
(* The screen                                                              *)

period_readiness(reg, a) ==
    LET present == available_sources(a)
        verdicts == [c \in Check \cup Added |-> predict_check(c, present, a)]
        slots == _slot_statuses(reg, present)
    IN  [slots |-> slots, verdicts |-> verdicts, lines |-> _blockers(slots, verdicts, a),
         stale |-> \E s \in Slot : slots[s].stale]

sufficient_count(r) == Cardinality({c \in DOMAIN r.verdicts : data_sufficient(r.verdicts[c])})
predictable_count(r) ==
    Cardinality({c \in DOMAIN r.verdicts : r.verdicts[c].status # "run-to-know"})
ready(r) == sufficient_count(r) >= predictable_count(r)

\* One entry for a file, however many slots it serves.
_period_files(reg) ==
    {LET rows == {k \in DOMAIN reg : k[1] = p}
     IN  [path |-> p, slots |-> {k[2] : k \in rows},
          needs_column_review |-> \E k \in rows : reg[k].review,
          unreadable |-> \E k \in rows : reg[k].status = "error"] :
        p \in {k[1] : k \in DOMAIN reg}}

_period_row(reg, a) ==
    LET r == period_readiness(reg, a)
    IN  [readiness |-> r, ready |-> ready(r), files |-> _period_files(reg),
         groups |-> _groups(r.lines, _conclusion_items(r.verdicts)),
         pending |-> {n \in Name : waiting[n] # Gone},
         ingest_locked |-> book_lock(reg)]

\* The route reconciles the registry first.  A period with nothing at all is
\* not a row.
NoRowYet == [files |-> {}]
build_data_screen(a) ==
    LET reg == sync_data_files(registry, disk)
    IN  IF DOMAIN reg = {} /\ loaded = {} /\ \A n \in Name : waiting[n] = Gone
        THEN NoRowYet ELSE _period_row(reg, a)

\* Columns can be confirmed where the last load knew the form of the file;
\* only there the page of the file asks for a book.
can_confirm(reg, k) == reg[k].form # None
BookAsked(reg, k) == k[2] \in Settlement /\ can_confirm(reg, k)
BookBlocks(reg, k) ==
    k[2] \in Settlement /\ reg[k].book = None /\ book_assignment_error(reg)

-----------------------------------------------------------------------------
(* Property                                                                *)

\* The list is about the period as it is, at every moment of the uploads, the
\* settings and the load, whoever stops between two steps of them.
\*   A file is asked for only of a slot that has none, or by the gate of a
\* check whose sources are there: never one that was just uploaded.
\*   A check that lacks data is in exactly one line; no other check is in any.
\*   After a load that stopped, and before one that its books would stop,
\* some line tells what to do with the files.
\*   A line that sends the officer to confirm columns opens files that have
\* such columns, on pages where they can be confirmed.
WorkListTrue ==
    \A a \in Around :
        LET reg == sync_data_files(registry, disk)
            present == available_sources(a)
            row == build_data_screen(a)
            lines == row.readiness.lines
            verdicts == row.readiness.verdicts
            aboutFiles == {l \in lines : l.kind = "file"}
        IN  row # NoRowYet =>
            /\ \A l \in lines :
                (l.kind = "check" /\ l.action[1] = "upload") =>
                    \/ FilesOf(reg, l.action[2]) = {}
                    \/ \A c \in l.codes : requires[c] \subseteq present
            /\ \A c \in DOMAIN verdicts :
                Cardinality({l \in lines : c \in l.codes}) =
                    (IF verdicts[c].status = "blocked" THEN 1 ELSE 0)
            /\ (DOMAIN reg # {} /\
                (\/ latest \in {"needs_review", "plan_error", "diagnosis_error"}
                 \/ book_assignment_error(reg))) => aboutFiles # {}
            /\ \A l \in aboutFiles :
                (l.key \in Slot /\ l.action[1] = "open_file"
                 /\ row.readiness.slots[l.key].state = "needs-column-review") =>
                    l.action[2] # {} /\ \A k \in l.action[2] :
                        reg[k].review /\ can_confirm(reg, k)

=============================================================================
