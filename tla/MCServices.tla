----------------------------- MODULE MCServices ------------------------------
(***************************************************************************)
(* The parts that requests and handlers of several people go through, one  *)
(* beside the other.  A behaviour is about one topic; the other parts stay *)
(* where they begin.                                                       *)
(*                                                                         *)
(* runs: one period with two checks whose findings combine.                *)
(* documents: a balance form, the norms and the declarations; one workbook *)
(* that holds the first two, and one whose columns are guessed and which   *)
(* is too large to be asked for its forms.  One name tells the norms, one  *)
(* tells nothing.  Behaviours begin with no file, or after the first       *)
(* workbook was uploaded, put in a book or in none, and loaded: the state  *)
(* that DropFile, Sync, SetBook, Press and an ingest that ends well lead   *)
(* to.                                                                     *)
(* columns: a workbook with the titles of the standard form, two of its    *)
(* columns swapped and without a title, and one without titles where the   *)
(* numbered columns of a field are two.                                    *)
(***************************************************************************)
EXTENDS RunChecks, DataScreen, Columns

CONSTANT Topic

VARIABLE topic

MCTells == [n \in Name |-> IF n = "m16" THEN "m16" ELSE None]
MCOrder == <<"m15", "m16", "bcct">>
MCReads == [c \in Content |-> IF c = "plain" THEN {"m15", "m16"} ELSE {"m15", "bcct"}]

FirstPath == <<"m15", "m15">>
FirstKeys == {<<FirstPath, "m15">>, <<FirstPath, "m16">>}

Settled(b) ==
    /\ disk = [p \in Path |-> IF p = FirstPath THEN "plain" ELSE Gone]
    /\ waiting = [n \in Name |-> Gone]
    /\ registry = [k \in FirstKeys |->
           [NewRow EXCEPT !.status = "ok", !.book = b, !.form = "plain"]]
    /\ loaded = {Source(k, "plain", b, "auto") : k \in FirstKeys}
    /\ saved = {} /\ moved = FALSE
    /\ queue = <<>> /\ ing = Free /\ latest = "ok"
    /\ req = Free /\ made = [files |-> 0, settings |-> 0] /\ silent = {}

MCRequires == [c \in {"C1.1", "C3.3", "C6.1"} |->
    CASE c = "C1.1" -> {"bcct", "m15"} [] c = "C3.3" -> {"m15"} [] c = "C6.1" -> {"m15"}]
MCAlphabetical == <<"bcct", "m15", "m16">>
GatesOf(uom, last) == [c \in {"C1.1", "C3.3", "C6.1"} |->
    CASE c = "C1.1" -> [remedy |-> "none"] [] c = "C3.3" -> uom [] c = "C6.1" -> last]
\* A period beside nothing, in its own window; and one whose declarations
\* are those of its neighbour, with no units to compare and no year before.
MCAround == {
    [inside |-> TRUE, near |-> FALSE, flags |-> {"overlap", "gap"},
     gate |-> GatesOf([remedy |-> "none"], [remedy |-> "nothing_to_load",
                                            target |-> <<"period", "other">>])],
    [inside |-> FALSE, near |-> TRUE, flags |-> {"undated"},
     gate |-> GatesOf([remedy |-> "file_this_period", target |-> <<"document", "bcct">>],
                      [remedy |-> "other_period", target |-> <<"period", "other">>])]}

ByField(code, in, out, closing) ==
    [f \in Field |-> CASE f = "code" -> code [] f = "in" -> in
                       [] f = "out" -> out [] f = "closing" -> closing]
\* What each column of a workbook is, from the first one.
ByColumn(is) == [c \in Column |-> IF c < Len(is) THEN is[c + 1] ELSE Blank]

MCDefault == ByField(0, 1, 2, 3)
MCSignature == [w \in Workbook |-> IF w = "plain" THEN "s1" ELSE "s2"]
MCNumbering == [w \in Workbook |-> IF w = "wide" THEN ByField({0}, {1, 2}, {3}, {4}) ELSE <<>>]
MCHeading == [w \in Workbook |-> ByColumn(IF w = "plain" THEN <<"code", "in">> ELSE <<>>)]
MCContent ==
    [w \in Workbook |-> ByColumn(IF w = "wide" THEN <<"code", "in", "in", "out", "closing">>
                                 ELSE <<"code", "in", "closing", "out">>)]

MCInit ==
    /\ topic \in Topic
    /\ Init /\ ColumnsInit
    /\ DocumentsInit \/ (topic = "documents" /\ \E b \in Book \cup {None} : Settled(b))
    /\ topic = "columns" \/ \A f \in FormFile : stored[f] = "plain"

MCNext ==
    /\ UNCHANGED topic
    /\ \/ /\ topic = "runs" /\ Next
          /\ UNCHANGED <<documentVars, columnVars>>
       \/ /\ topic = "documents" /\ DocumentsNext
          /\ UNCHANGED <<vars, columnVars>>
       \/ /\ topic = "columns" /\ ColumnsNext
          /\ UNCHANGED <<vars, documentVars>>

MCSpec ==
    MCInit /\ [][MCNext]_<<topic, vars, documentVars, columnVars>>

\* Every part keeps its types: rows, verdicts, registry entries and
\* positions are of the shapes the program gives them.
ServicesTypeOK ==
    /\ TypeOK /\ DocumentsTypeOK /\ ColumnsTypeOK

=============================================================================
