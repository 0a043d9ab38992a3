------------------------------- MODULE Columns -------------------------------
(***************************************************************************)
(* Which columns of a balance form are read for which field: the adapters  *)
(* (app/adapters/m15.py, m15a.py, extended_layout.py, templates.py), the   *)
(* positions and absences an officer confirmed                             *)
(* (app/pipeline/saved_map.py, documents_confirm_review in                 *)
(* app/routes/companies.py) and the ingest that reads them again at every  *)
(* step (app/jobs/handlers.py, app/pipeline/ingest.py,                     *)
(* app/pipeline/data_files.py).                                            *)
(*                                                                         *)
(* One form of one period.  First is the file discover chooses; when there *)
(* are others, every file was given a book and all are loaded.  Documents  *)
(* has the files, the gate and the books (files of two books are put on    *)
(* the disk by hand); here a workbook is what its columns are called,      *)
(* numbered and filled with.  The numbers are in general position: the     *)
(* balance of the form holds on the rows of a workbook exactly when the    *)
(* columns with its amounts are on their sides.                            *)
(* A job that raised is not tried again here (JobQueue has that).          *)
(***************************************************************************)
EXTENDS Integers, Sequences, FiniteSets

CONSTANTS
    FormFile, First,        \* files of the form; the one discover chooses
    Workbook,
    Signature,          \* of the header of a form (form_signature)
    RowKey,                \* the field that makes a row
    Plus, Minus, Target,  \* the fields of the balance of the form
    Column,
    signature,          \* [Workbook -> Signature]
    Titled,             \* workbooks whose titles are those of the standard form
    Unprovable,         \* whose formula has a term that is no field
    numbering,          \* [Workbook -> the columns numbered for each field], or
                        \* no field when it has no row of numbers
    default,            \* [field -> its column in the form, or in the template
                        \* of the signature]
    heading,            \* [Workbook -> [Column -> the field its title names]]
    content,            \* [Workbook -> [Column -> the field its cells are of]]
    Typed,             \* columns typed into a form, sets of them
    Absentable,         \* fields ticked as absent
    MaxRequests,        \* bound on the officer's requests
    MaxElsewhere,       \* bound on those for other periods
    MaxIngests          \* bound on waiting ingests

Blank == "none"
Amount == Plus \cup Minus \cup {Target}
Field == Amount \cup {RowKey}

ASSUME ColumnsAssumption ==
    /\ First \in FormFile /\ Blank \notin Field /\ RowKey \notin Amount
    /\ signature \in [Workbook -> Signature]
    /\ Titled \subseteq Workbook /\ Unprovable \subseteq Workbook
    /\ DOMAIN numbering = Workbook
    /\ \A w \in Workbook : /\ DOMAIN numbering[w] \subseteq Field
                           /\ \A f \in DOMAIN numbering[w] : numbering[w][f] \subseteq Column
    /\ default \in [Field -> Column]
    /\ heading \in [Workbook -> [Column -> Field \cup {Blank}]]
    /\ content \in [Workbook -> [Column -> Field \cup {Blank}]]
    /\ Typed \subseteq SUBSET Column /\ Absentable \subseteq Field
    /\ MaxRequests \in Nat /\ MaxElsewhere \in Nat /\ MaxIngests \in Nat

VARIABLES
    stored,             \* [FormFile -> Workbook]
    pinned,             \* files whose sheet the officer chose
    column_maps,        \* [Signature -> positions and absences confirmed]
    shown,              \* data_files of the form: a status, and what the last
                        \* read that worked says of the columns (parse_detail)
    rows,               \* [FormFile -> the read its rows came from]
    ingests,            \* waiting ingest jobs: the gate of each
    job,                \* the ingest the worker is in
    asked,              \* requests of the officer, counted
    crossed             \* history: the map was changed for another period
                        \* since the last ingest of this one began

columnVars == <<stored, pinned, column_maps, shown, rows, ingests, job, asked, crossed>>

Nothing == [map |-> <<>>, absent |-> {}]
NoJob == [pc |-> "idle"]

-----------------------------------------------------------------------------
(* Reading a workbook                                                      *)

\* The columns that are summed for some fields and hold an amount.
Summed(w, cols, fields) ==
    {c \in UNION {cols[f] : f \in fields \cap DOMAIN cols} : content[w][c] \in Amount}

\* _identity_counts: there are rows, and plus less minus is the target.
Balanced(w, cols) ==
    /\ RowKey \in DOMAIN cols /\ \E c \in cols[RowKey] : content[w][c] # Blank
    /\ \A side \in {Plus, Minus, {Target}} :
          Summed(w, cols, side) = {c \in Column : content[w][c] \in side}
    /\ \A f, g \in Amount \cap DOMAIN cols :
          f # g => Summed(w, cols, {f}) \cap Summed(w, cols, {g}) = {}

\* resolve_m15: the row of numbers places the fields, the balance proves it.
resolve(w) ==
    /\ {RowKey, Target} \subseteq DOMAIN numbering[w]
    /\ Balanced(w, numbering[w])

\* A position the officer confirmed for this signature.
officer_column_groups(w, maps, known) ==
    LET map == maps[signature[w]].map
    IN  [f \in DOMAIN map \cap known |-> map[f]]

Over(officer, cols) ==
    [f \in DOMAIN cols |-> IF f \in DOMAIN officer THEN officer[f] ELSE cols[f]]

\* evidence_m15_standard: a title, else the balance, else only its place.
StandardEvidence(w, cols) ==
    [f \in DOMAIN cols |->
        IF \E c \in cols[f] : heading[w][c] = f THEN "header"
        ELSE IF f \in Amount /\ Balanced(w, cols) THEN "balance" ELSE "position"]

\* apply_officer_evidence
Marked(evidence, officer) ==
    [f \in DOMAIN evidence |-> IF f \in DOMAIN officer THEN "officer" ELSE evidence[f]]

\* No read: the file was refused, or not read yet.
Refused == [layout |-> "refused"]

ReadAs(w, layout, cols, evidence) ==
    [workbook |-> w, layout |-> layout, cols |-> cols, evidence |-> evidence, gone |-> {}]

\* resolve_columns: fixed columns, one for a field; a group is not applied.
StandardRead(w, maps) ==
    LET groups  == officer_column_groups(w, maps, Field)
        officer == [f \in {g \in DOMAIN groups : Cardinality(groups[g]) = 1} |-> groups[f]]
        cols    == Over(officer, [f \in Field |-> {default[f]}])
    IN  ReadAs(w, "standard", cols, Marked(StandardEvidence(w, cols), officer))

\* apply_officer_map: with the officer's columns in place of the numbered
\* ones the balance must hold still.
ExtendedRead(w, maps) ==
    LET officer == officer_column_groups(w, maps, DOMAIN numbering[w])
        cols    == Over(officer, numbering[w])
    IN  IF DOMAIN officer # {} /\ (w \in Unprovable \/ ~Balanced(w, cols)) THEN Refused
        ELSE ReadAs(w, "extended", cols, Marked([f \in DOMAIN cols |-> "balance"], officer))

\* parse_m15: no sheet is chosen by titles and none is proved: refused, but a
\* sheet the officer chose is then read by the fixed columns.
parse(w, pin, maps) ==
    IF w \in Titled THEN StandardRead(w, maps)
    ELSE IF resolve(w) THEN ExtendedRead(w, maps)
    ELSE IF pin THEN StandardRead(w, maps)
    ELSE Refused

-----------------------------------------------------------------------------
(* What is recorded of a read                                              *)

\* apply_absent_fields, which never takes the key of a row.
\* Mutant: only the check gate looks at absences.
NoneAbsent(r, absent) == {}
Absent(r, absent) == (absent[signature[r.workbook]].absent \ {RowKey}) \cap DOMAIN r.cols

\* resolve_officer_confirmed: a field read where the saved map says.
resolve_officer_confirmed(r) ==
    LET map == column_maps[signature[r.workbook]].map
    IN  {f \in DOMAIN map \cap DOMAIN r.cols : map[f] = r.cols[f]}

\* record_parse_result: what was read, with the labels and the absences of
\* the map as it is by then.
Detail(r) ==
    LET left == DOMAIN r.cols \ r.gone
    IN  [signature |-> signature[r.workbook], layout |-> r.layout,
         cols |-> [f \in left |-> r.cols[f]],
         evidence |-> [f \in left |-> IF f \in resolve_officer_confirmed(r) THEN "officer"
                                      ELSE r.evidence[f]],
         absent |-> column_maps[signature[r.workbook]].absent]

NeedsReview(d) == \E f \in DOMAIN d.evidence : d.evidence[f] = "position"

-----------------------------------------------------------------------------
(* The ingest job (ingest_handler): the saved map is read by the           *)
(* diagnosis, by the preview, by the load, in its transaction, and by both *)
(* records; the absences are read after the positions.                     *)

Begin ==
    /\ job.pc = "idle" /\ ingests # <<>>
    /\ job' = [pc |-> "diagnose", phase |-> "preview", gate |-> Head(ingests),
               maps |-> column_maps, read |-> Refused]
    /\ ingests' = Tail(ingests) /\ crossed' = FALSE
    /\ UNCHANGED <<stored, pinned, column_maps, shown, rows, asked>>

ParseFirst(maps) == parse(stored[First], First \in pinned, maps)

\* diagnose_upload: nothing is loaded, what was known of the columns is kept.
Diagnose ==
    /\ job.pc = "diagnose"
    /\ IF ParseFirst(column_maps) = Refused
       THEN job' = NoJob /\ shown' = [shown EXCEPT !.status = "error"]
       ELSE job' = [job EXCEPT !.pc = "maps"] /\ UNCHANGED shown
    /\ UNCHANGED <<stored, pinned, column_maps, rows, ingests, asked, crossed>>

LookAtMaps ==
    /\ job.pc = "maps"
    /\ job' = [job EXCEPT !.pc = "absent", !.maps = column_maps]
    /\ UNCHANGED <<stored, pinned, column_maps, shown, rows, ingests, asked, crossed>>

\* parse_cache: a workbook read with the same positions is the same object,
\* what was taken from it before included.
ParsedOrCached(maps) ==
    LET r == ParseFirst(maps)
    IN  IF r # Refused /\ job.read # Refused /\ [r EXCEPT !.gone = job.read.gone] = job.read
        THEN job.read ELSE r

LookAtAbsences ==
    /\ job.pc = "absent"
    /\ LET r == ParsedOrCached(job.maps)
       IN  job' = IF r = Refused THEN NoJob
                  ELSE [job EXCEPT !.pc = IF job.phase = "preview" THEN "record" ELSE "plan",
                                   !.read = [r EXCEPT !.gone = @ \cup Absent(r, column_maps)]]
    /\ UNCHANGED <<stored, pinned, column_maps, shown, rows, ingests, asked, crossed>>

\* The gate stops an upload while a column is known by its place only.
RecordAnalysis ==
    /\ job.pc = "record" /\ job.phase = "preview"
    /\ shown' = [status |-> "analyzed", detail |-> Detail(job.read)]
    /\ job' = IF job.gate /\ NeedsReview(shown'.detail) THEN NoJob
              ELSE [job EXCEPT !.pc = "maps", !.phase = "load"]
    /\ UNCHANGED <<stored, pinned, column_maps, rows, ingests, asked, crossed>>

\* _plan_settlement_files: with books every file is read again, by the map as
\* it is in the transaction.  The absences are not asked for again.
ToLoad(f) ==
    IF FormFile = {First} THEN job.read
    ELSE IF f = First THEN ParsedOrCached(column_maps)
    ELSE parse(stored[f], f \in pinned, column_maps)

Load ==
    /\ job.pc = "plan"
    /\ IF \E f \in FormFile : ToLoad(f) = Refused
       THEN job' = NoJob /\ UNCHANGED rows
       ELSE job' = [job EXCEPT !.pc = "record"] /\ rows' = [f \in FormFile |-> ToLoad(f)]
    /\ UNCHANGED <<stored, pinned, column_maps, shown, ingests, asked, crossed>>

RecordLoad ==
    /\ job.pc = "record" /\ job.phase = "load"
    /\ shown' = [status |-> "ok", detail |-> Detail(job.read)]
    /\ job' = NoJob
    /\ UNCHANGED <<stored, pinned, column_maps, rows, ingests, asked, crossed>>

-----------------------------------------------------------------------------
(* The officer                                                             *)

Asks ==
    /\ asked.here < MaxRequests /\ Len(ingests) < MaxIngests
    /\ asked' = [asked EXCEPT !.here = @ + 1]

LoadSoon(gate) == ingests' = Append(ingests, gate)

\* The form says for a field a column, nothing, or that it is absent; a field
\* left blank keeps its column.  A form of a file read long ago has no ticks.
Groups(d, f, columns, ticks) ==
    LET known == {g \in DOMAIN d.cols \cup (IF columns = {} THEN {} ELSE {f}) : g \notin ticks}
    IN  [g \in known |-> IF g = f /\ columns # {} THEN columns ELSE d.cols[g]]

\* _parse_column_answer, _reject_shared_columns, _reject_missing_row_keys
Accepted(d, columns, groups) ==
    /\ Cardinality(columns) > 1 => d.layout = "extended"
    /\ \A g, h \in DOMAIN groups : g # h => groups[g] \cap groups[h] = {}
    /\ RowKey \in DOMAIN groups

\* documents_confirm_review
ConfirmColumns(f, columns, ticks, major) ==
    /\ Asks /\ shown.detail # Refused
    /\ LET d == shown.detail
           groups == Groups(d, f, columns, IF major THEN ticks ELSE {})
       IN  /\ Accepted(d, columns, groups)
           /\ column_maps' = [column_maps EXCEPT ![d.signature] =
                  [map |-> groups, absent |-> IF major THEN ticks ELSE @.absent]]
    /\ LoadSoon(FALSE)
    /\ UNCHANGED <<stored, pinned, shown, rows, job, crossed>>

\* Nothing is known of the columns: the file is only read again.
ReadAgain ==
    /\ Asks /\ shown.detail = Refused
    /\ LoadSoon(FALSE)
    /\ UNCHANGED <<stored, pinned, column_maps, shown, rows, job, crossed>>

\* documents_pin_sheet, and the choice given back
Pin(f) ==
    /\ Asks
    /\ pinned' = IF f \in pinned THEN pinned \ {f} ELSE pinned \cup {f}
    /\ LoadSoon(FALSE)
    /\ UNCHANGED <<stored, column_maps, shown, rows, job, crossed>>

\* An upload leaves one file of the form (Documents).
Upload(f, w) ==
    /\ FormFile = {First} /\ Asks /\ stored[f] # w
    /\ stored' = [stored EXCEPT ![f] = w]
    /\ LoadSoon(TRUE)
    /\ UNCHANGED <<pinned, column_maps, shown, rows, job, crossed>>

\* A file of another period with the same header is confirmed: the map is
\* this period's too, and only that period is loaded again.
ConfirmElsewhere(s, f) ==
    /\ asked.elsewhere < MaxElsewhere /\ f # RowKey
    /\ asked' = [asked EXCEPT !.elsewhere = @ + 1]
    /\ column_maps' = [column_maps EXCEPT ![s] =
           [map |-> [g \in DOMAIN @.map \ {f} |-> @.map[g]], absent |-> @.absent \cup {f}]]
    /\ crossed' = TRUE
    /\ UNCHANGED <<stored, pinned, shown, rows, ingests, job>>

-----------------------------------------------------------------------------
ColumnsInit ==
    /\ stored \in [FormFile -> Workbook] /\ pinned = {}
    /\ column_maps = [s \in Signature |-> Nothing]
    /\ shown = [status |-> "pending", detail |-> Refused]
    /\ rows = [f \in FormFile |-> Refused]
    /\ ingests = <<TRUE>> /\ job = NoJob
    /\ asked = [here |-> 0, elsewhere |-> 0] /\ crossed = FALSE

ColumnsNext ==
    \/ Begin \/ Diagnose \/ LookAtMaps \/ LookAtAbsences
    \/ RecordAnalysis \/ Load \/ RecordLoad \/ ReadAgain
    \/ \E f \in Field, columns \in Typed \cup {{}}, ticks \in SUBSET Absentable, major \in BOOLEAN :
          ConfirmColumns(f, columns, ticks, major)
    \/ \E f \in FormFile : Pin(f) \/ \E w \in Workbook : Upload(f, w)
    \/ \E s \in Signature, f \in Absentable : ConfirmElsewhere(s, f)

ColumnsSpec == ColumnsInit /\ [][ColumnsNext]_columnVars

-----------------------------------------------------------------------------
IsColumns(cols) == DOMAIN cols \subseteq Field /\ \A f \in DOMAIN cols : cols[f] \subseteq Column

\* Positions are columns of fields, and a status and a step are one of the
\* program's (parse_status, app/models/data_file.py).
ColumnsTypeOK ==
    /\ stored \in [FormFile -> Workbook] /\ pinned \subseteq FormFile
    /\ \A s \in Signature : IsColumns(column_maps[s].map) /\ column_maps[s].absent \subseteq Field
    /\ shown.status \in {"pending", "error", "analyzed", "ok"}
    /\ shown.detail # Refused => IsColumns(shown.detail.cols)
    /\ \A f \in FormFile : rows[f] # Refused => IsColumns(rows[f].cols)
    /\ ingests \in Seq(BOOLEAN) /\ crossed \in BOOLEAN
    /\ job.pc \in {"idle", "diagnose", "maps", "absent", "record", "plan"}

Quiet == job = NoJob /\ ingests = <<>> /\ ~crossed

ValuesOf(r) == DOMAIN r.cols \ r.gone

\* Once no load is waiting, what the page of a file says of its columns is
\* what its rows were read from, a column is called the officer's only where
\* the officer's map has it, a field said to be absent has no value, and a
\* form without titles still balances; also when a map is confirmed in the
\* middle of a load (app/jobs/handlers.py:108-147, companies.py:1908).
SaysWhatWasRead ==
    Quiet /\ shown.status = "ok" =>
        LET d == shown.detail  r == rows[First]
        IN  /\ d.signature = signature[r.workbook] /\ d.layout = r.layout
            /\ d.cols = [f \in ValuesOf(r) |-> r.cols[f]]
            /\ \A f \in DOMAIN d.cols : d.evidence[f] = "officer" =>
                  LET map == column_maps[d.signature].map
                  IN  f \in DOMAIN map /\ map[f] = d.cols[f]
            /\ d.absent \cap ValuesOf(r) \subseteq {RowKey}
            /\ r.layout = "extended" => Balanced(r.workbook, r.cols)

\* "One place after the parse is cheaper and no path gets around it"
\* (app/pipeline/saved_map.py:136): no row has a value in a field the officer
\* confirmed to be absent from such files.
AbsentNeverLoaded ==
    Quiet /\ shown.status = "ok" =>
        \A f \in FormFile :
            column_maps[signature[rows[f].workbook]].absent \cap ValuesOf(rows[f]) \subseteq {RowKey}

=============================================================================
