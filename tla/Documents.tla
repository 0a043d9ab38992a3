------------------------------ MODULE Documents ------------------------------
(***************************************************************************)
(* The files of one period of one company: on disk, in the registry        *)
(* (data_files), and as the rows an ingest loaded from them.  The requests *)
(* of app/routes/companies.py change the disk first and the registry after *)
(* it (app/pipeline/data_files.py); the worker reads the disk three times  *)
(* (ingest_handler in app/jobs/handlers.py).  Nothing locks the disk.      *)
(*                                                                         *)
(* Two axes tell the officer that loaded rows no longer match the files:   *)
(* the registry (app/pipeline/readiness.py) and data_version, here the     *)
(* flag that it moved since the load.  DataVersion has the races on that   *)
(* number.  A file is [place, name] and its content a model value; one     *)
(* spelling of extensions.  One officer, one worker, a page anyone views.  *)
(***************************************************************************)
EXTENDS Integers, Sequences, FiniteSets

CONSTANTS
    Settlement,         \* the balance and norm forms: m15, m15a, m16
    Bcqt,               \* those kept in the folder BCQT, where a workbook
                        \* may hold more forms than its name tells
    Name,               \* names of uploaded files
    tells,              \* [Name -> the slot a name tells, or None]
    SlotOrder,          \* the slots, as a workbook is asked for them
    Content,            \* workbooks
    reads,              \* [Content -> slots whose layout it has a sheet of]
    Large,              \* those too large to be opened for that question
    Guess,              \* workbooks with columns placed by position only
    Book,               \* settlement books
    MaxChanges,         \* bound on the requests that change files
    MaxSettings,        \* bound on those that change a book, a sheet or columns
    MaxQueue,           \* bound on waiting ingest jobs
    MaxFiles            \* bound on the files of one request

Bcct == "bcct"          \* declarations: several files, never in a book
Slot == Settlement \cup {Bcct}
None == "none"
Gone == "gone"          \* no file
Partial == "partial"    \* a file still being written, or cut off

ASSUME DocumentsAssumption ==
    /\ Bcct \notin Settlement /\ Bcqt \subseteq Settlement
    /\ tells \in [Name -> Slot \cup {None}] /\ SlotOrder \in Seq(Slot)
    /\ reads \in [Content -> SUBSET Slot] /\ Large \subseteq Content
    /\ Guess \subseteq Content
    /\ {Gone, Partial, None} \cap Content = {} /\ None \notin Book
    /\ MaxChanges \in Nat /\ MaxSettings \in Nat
    /\ MaxQueue \in Nat /\ MaxFiles \in Nat

\* Every form has one canonical name; declarations keep their own.
Path == {<<s, s>> : s \in Settlement} \cup ({Bcct} \X (Name \cup Settlement))

_slot_destination(s, n) == IF s = Bcct THEN <<Bcct, n>> ELSE <<s, s>>

VARIABLES
    disk,               \* [Path -> content]
    waiting,            \* [Name -> content], the staging folder
    registry,           \* data_files: a function from <<path, slot>>
    saved,              \* <<slot, workbook>> whose columns the officer confirmed
    loaded,             \* what the rows in the tables were read from
    moved,              \* data_version moved since those rows were loaded
    queue,              \* waiting ingest jobs: the gate of each
    ing,                \* the ingest the worker is in
    latest,             \* what ingest_status tells of the newest ingest job
    req,                \* the officer's request
    made,               \* those requests, counted
    silent              \* history: files changed in a way that tells nobody

files == <<disk, waiting>>
worker == <<queue, ing, latest>>
documentVars == <<disk, waiting, registry, saved, loaded, moved, queue, ing, latest,
          req, made, silent>>

Free == [op |-> "idle"]

-----------------------------------------------------------------------------
(* The registry                                                            *)

OnDisk(d) == {p \in Path : d[p] # Gone}

\* A sheet of the layout of a form is found in the workbook.
Holds(c, s) == c \in Content /\ s \in reads[c]

content_slots(c) == {s \in Settlement : Holds(c, s)}

\* Every file serves the slot of its place and name; a workbook in BCQT also
\* the forms it holds for which no file has the place and name.
Registered(d) ==
    {<<p, p[1]>> : p \in OnDisk(d)} \cup
    {k \in OnDisk(d) \X Settlement :
        k[1][1] \in Bcqt /\ k[2] \in content_slots(d[k[1]]) /\ d[<<k[2], k[2]>>] = Gone}

NewRow == [status |-> "pending", book |-> None, sheet |-> "auto",
           form |-> None, review |-> FALSE]

\* Rows are keyed by path and slot: a replaced file keeps its row.
sync_data_files(reg, d) ==
    [k \in Registered(d) |-> IF k \in DOMAIN reg THEN reg[k] ELSE NewRow]

\* discover: one file of every form that has one, every declaration file.
Discovered(d) ==
    {choice \in SUBSET Registered(d) :
        \A k \in Registered(d) :
            IF k[2] = Bcct THEN k \in choice
            ELSE Cardinality({x \in choice : x[2] = k[2]}) = 1}

Source(k, c, b, sh) ==
    [slot |-> k[2], path |-> k[1], content |-> c, book |-> b, sheet |-> sh]

\* What a parse of the chosen files yields, and the files it cannot read.  A
\* parse pins a sheet by the registry, and knows no book.
Parsed(choice, d, reg) ==
    {Source(k, d[k[1]], None, IF k \in DOMAIN reg THEN reg[k].sheet ELSE "auto") :
        k \in {x \in choice : Holds(d[x[1]], x[2])}}

Unreadable(choice, d) == {k \in choice : ~Holds(d[k[1]], k[2])}

\* The registered files as they are now.
Current(k) == Source(k, disk[k[1]], registry[k].book, registry[k].sheet)

Present == {Current(k) : k \in DOMAIN registry}

Rows(s) == {l \in loaded : l.slot = s}

\* resolve_officer_confirmed: the map saved for a form settles its columns.
Unsettled(s, forms) == {c \in forms \cap Guess : <<s, c>> \notin saved}

\* One provenance is kept per slot: a file with a column nobody confirmed
\* comes before the others.
Provenance(s, forms) ==
    LET first == IF Unsettled(s, forms) # {} THEN Unsettled(s, forms) ELSE forms
    IN  CHOOSE c \in first : TRUE

\* record_parse_result: every row of the period gets its slot's outcome; a
\* slot with nothing read keeps what was known of its columns, and so does a
\* declaration file that was skipped.
\* Mutant: columns the officer confirmed are asked for again.
RecordedUnsettled(reg, parsed, skipped, ok) ==
    [k \in DOMAIN reg |->
        LET forms == {x.content : x \in {y \in parsed : y.slot = k[2]}}
            form == Provenance(k[2], forms)
        IN  IF forms = {} \/ k \in skipped THEN [reg[k] EXCEPT !.status = "error"]
            ELSE [reg[k] EXCEPT !.status = ok, !.form = form, !.review = form \in Guess]]
record_parse_result(reg, parsed, skipped, ok) ==
    [k \in DOMAIN reg |->
        LET forms == {x.content : x \in {y \in parsed : y.slot = k[2]}}
            form == Provenance(k[2], forms)
        IN  IF forms = {} \/ k \in skipped THEN [reg[k] EXCEPT !.status = "error"]
            ELSE [reg[k] EXCEPT !.status = ok, !.form = form,
                                !.review = Unsettled(k[2], {form}) # {}]]

SettlementRows(reg) == {k \in DOMAIN reg : k[2] \in Settlement}
Tagged(reg) == \E k \in SettlementRows(reg) : reg[k].book # None

\* All settlement files are in a book or none is; and none only where the
\* loaded rows are in none.
\* Mutant: files without a book are always let through.
OnlyMixedBooks(reg) ==
    Tagged(reg) /\ \E k \in SettlementRows(reg) : reg[k].book = None
book_assignment_error(reg) ==
    IF Tagged(reg) THEN \E k \in SettlementRows(reg) : reg[k].book = None
                   ELSE \E l \in loaded : l.book # None

book_lock(reg) ==
    LET options == {l.book : l \in loaded} \cup {reg[k].book : k \in DOMAIN reg}
    IN  /\ Cardinality(options \ {None}) >= 2
        /\ \E k \in SettlementRows(reg) : reg[k].book = None

\* The files a plan by book reads: the registered ones, not the found ones.
Planned == {Current(k) : k \in SettlementRows(registry)}

\* SlotStatus.stale: rows are there, and a file is missing or not yet read.
slot_stale(s) ==
    LET keys == {k \in DOMAIN registry : k[2] = s}
    IN  Rows(s) # {} /\ (keys = {} \/ \E k \in keys : registry[k].status # "ok")

-----------------------------------------------------------------------------
DocumentsInit ==
    /\ disk = [p \in Path |-> Gone]
    /\ waiting = [n \in Name |-> Gone]
    /\ registry = [k \in {} |-> NewRow]
    /\ saved = {} /\ loaded = {} /\ moved = FALSE
    /\ queue = <<>> /\ ing = Free /\ latest = "none"
    /\ req = Free /\ made = [files |-> 0, settings |-> 0] /\ silent = {}

-----------------------------------------------------------------------------
(* Uploads.  A request that changed files goes through Sync and Finish.    *)

Uploading(left, touched, replaced) ==
    [op |-> "upload", left |-> left, touched |-> touched, replaced |-> replaced]
Placed(touched, replaced) ==
    [op |-> "placed", touched |-> touched, replaced |-> replaced]

Fresh == Uploading(MaxFiles, {}, FALSE)
Dropping == IF req = Free THEN Fresh ELSE req

\* The name tells the slot, else the first form the content has.
propose(n, c) ==
    LET found == {i \in DOMAIN SlotOrder : SlotOrder[i] \in content_slots(c)}
        first == CHOOSE i \in found : \A j \in found : i <= j
    IN  IF tells[n] # None THEN tells[n]
        ELSE IF c \in Large \/ found = {} THEN None ELSE SlotOrder[first]

\* upload_drop_zone, one file: written to the staging folder, then moved over
\* the file its slot had.
DropFile(n, c) ==
    LET dest == _slot_destination(propose(n, c), n)
        over == disk[dest] # Gone
    IN  /\ Dropping.op = "upload" /\ Dropping.left > 0
        /\ propose(n, c) # None
        /\ disk' = [disk EXCEPT ![dest] = c]
        /\ waiting' = [waiting EXCEPT ![n] = Gone]
        /\ req' = Uploading(Dropping.left - 1,
                            Dropping.touched \cup (IF over THEN {dest} ELSE {}),
                            Dropping.replaced \/ over)
        /\ UNCHANGED <<registry, saved, loaded, moved, worker, silent>>

\* Neither the name nor the content tells its slot: it waits for the officer.
DropUnknown(n, c) ==
    /\ Dropping.op = "upload" /\ Dropping.left > 0
    /\ propose(n, c) = None
    /\ waiting' = [waiting EXCEPT ![n] = c]
    /\ req' = [Dropping EXCEPT !.left = @ - 1]
    /\ UNCHANGED <<disk, registry, saved, loaded, moved, worker, silent>>

\* A later file of the same drop is refused: the request ends here.
DropRefused(n) ==
    /\ req.op = "upload"
    /\ waiting' = [waiting EXCEPT ![n] = Gone]
    /\ req' = Free
    /\ silent' = silent \cup req.touched
    /\ UNCHANGED <<disk, registry, saved, loaded, moved, worker>>

DropDone ==
    /\ req.op = "upload"
    /\ req' = Placed(req.touched, req.replaced)
    /\ UNCHANGED <<files, registry, saved, loaded, moved, worker, silent>>

\* documents_upload_cell: the old file goes before the new one is written.
CellOpen(n, s) ==
    LET dest == _slot_destination(s, n)
    IN  /\ req = Free
        /\ disk' = [disk EXCEPT ![dest] = Partial]
        /\ req' = [op |-> "cell", path |-> dest, replaced |-> disk[dest] # Gone]
        /\ UNCHANGED <<waiting, registry, saved, loaded, moved, worker, silent>>

CellWrite(c) ==
    /\ req.op = "cell"
    /\ disk' = [disk EXCEPT ![req.path] = c]
    /\ req' = Placed({req.path}, req.replaced)
    /\ UNCHANGED <<waiting, registry, saved, loaded, moved, worker, silent>>

\* Not an Excel file, or too large: what was written is unlinked.
CellRefused ==
    /\ req.op = "cell"
    /\ disk' = [disk EXCEPT ![req.path] = Gone]
    /\ req' = Free
    /\ silent' = silent \cup {req.path}
    /\ UNCHANGED <<waiting, registry, saved, loaded, moved, worker>>

\* documents_set_file_type, of a registered file and of a waiting one.  The
\* slot a file leaves is told nothing.
SetType(p, s) ==
    LET dest == _slot_destination(s, p[2])
        over == dest # p /\ disk[dest] # Gone
    IN  /\ req = Free /\ disk[p] # Gone
        /\ disk' = [disk EXCEPT ![p] = Gone, ![dest] = disk[p]]
        /\ req' = Placed({p, dest}, over)
        /\ silent' = IF dest = p THEN silent ELSE silent \cup {p}
        /\ UNCHANGED <<waiting, registry, saved, loaded, moved, worker>>

SetTypeOfWaiting(n, s) ==
    LET dest == _slot_destination(s, n)
    IN  /\ req = Free /\ waiting[n] # Gone
        /\ waiting' = [waiting EXCEPT ![n] = Gone]
        /\ disk' = [disk EXCEPT ![dest] = waiting[n]]
        /\ req' = Placed({dest}, disk[dest] # Gone)
        /\ UNCHANGED <<registry, saved, loaded, moved, worker, silent>>

\* sync_data_files commits in the middle of the request.
Sync ==
    /\ req.op = "placed"
    /\ registry' = sync_data_files(registry, disk)
    /\ req' = [req EXCEPT !.op = "synced"]
    /\ UNCHANGED <<files, saved, loaded, moved, worker, silent>>

\* bump_data_version if a file was replaced.  Mutant: left to the ingest.
FinishSilently ==
    /\ req.op = "synced"
    /\ req' = Free
    /\ UNCHANGED <<files, registry, saved, loaded, moved, worker, silent>>
Finish ==
    /\ req.op = "synced"
    /\ moved' = (moved \/ req.replaced)
    /\ req' = Free
    /\ UNCHANGED <<files, registry, saved, loaded, worker, silent>>

-----------------------------------------------------------------------------
(* The other requests of the officer                                       *)

\* documents_delete_file: the file first, then all its rows and the version.
DeleteUnlink(k) ==
    /\ req = Free /\ k \in DOMAIN registry
    /\ disk' = [disk EXCEPT ![k[1]] = Gone]
    /\ req' = [op |-> "delete", path |-> k[1]]
    /\ UNCHANGED <<waiting, registry, saved, loaded, moved, worker, silent>>

DeleteCommit ==
    /\ req.op = "delete"
    /\ registry' = [k \in {r \in DOMAIN registry : r[1] # req.path} |-> registry[k]]
    /\ moved' = TRUE
    /\ req' = Free
    /\ UNCHANGED <<files, saved, loaded, worker, silent>>

\* documents_set_file_book: the version moves if a row was parsed.
SetBook(p, b) ==
    LET keys == {k \in SettlementRows(registry) : k[1] = p}
        changed == \E k \in keys : registry[k].book # b
    IN  /\ req = Free /\ disk[p] # Gone /\ keys # {}
        /\ registry' = [k \in DOMAIN registry |->
               IF k \in keys THEN [registry[k] EXCEPT !.book = b] ELSE registry[k]]
        /\ moved' = (moved \/ (changed /\ \E k \in keys : registry[k].status = "ok"))
        /\ UNCHANGED <<files, saved, loaded, worker, req, silent>>

\* documents_confirm_review: the map and the book are committed; the ingest
\* is enqueued after that, past the gate.
Confirm(k, b) ==
    /\ req = Free /\ k \in DOMAIN registry
    /\ b # None => k[2] \in Settlement
    /\ IF registry[k].form = None
       THEN UNCHANGED <<registry, saved>>
       ELSE /\ saved' = saved \cup {<<k[2], registry[k].form>>}
            /\ registry' = [registry EXCEPT ![k].book = b]
    /\ req' = [op |-> "enqueue", touched |-> {k[1]}]
    /\ UNCHANGED <<files, loaded, moved, worker, silent>>

\* documents_pin_sheet.
PinSheet(k, sh) ==
    /\ req = Free /\ k \in DOMAIN registry
    /\ registry' = [registry EXCEPT ![k].sheet = sh]
    /\ req' = [op |-> "enqueue", touched |-> {k[1]}]
    /\ UNCHANGED <<files, saved, loaded, moved, worker, silent>>

Enqueued(gate) ==
    /\ Len(queue) < MaxQueue
    /\ queue' = Append(queue, gate)
    /\ latest' = "queued"

\* _enqueue_ingest(gate=False).
Enqueue ==
    /\ req.op = "enqueue"
    /\ Enqueued(FALSE)
    /\ req' = Free
    /\ UNCHANGED <<files, registry, saved, loaded, moved, ing, silent>>

\* documents_ingest_year: refused while a file has no book, else through the
\* gate.
Press ==
    /\ req = Free /\ ~book_lock(registry)
    /\ Enqueued(TRUE)
    /\ UNCHANGED <<files, registry, saved, loaded, moved, ing, req, silent>>

\* company_documents, by anyone, at any time.
View ==
    /\ registry' = sync_data_files(registry, disk)
    /\ registry' # registry
    /\ UNCHANGED <<files, saved, loaded, moved, worker, req, silent>>

\* The request dies between two of its commits: the server stops, the commit
\* fails, or the account of the session is gone when the job is enqueued.
RequestDies ==
    /\ req # Free
    /\ silent' = silent \cup (IF req.op \in {"cell", "delete"} THEN {req.path}
                                                          ELSE req.touched)
    /\ req' = Free
    /\ UNCHANGED <<files, registry, saved, loaded, moved, worker>>

-----------------------------------------------------------------------------
(* ingest_handler: sync, analyse, gate, parse, load, record                *)

Told(outcome) == latest' = IF queue = <<>> THEN outcome ELSE latest

IngestStart ==
    /\ ing = Free /\ queue # <<>>
    /\ ing' = [op |-> "analyse", gate |-> Head(queue)]
    /\ queue' = Tail(queue)
    /\ latest' = IF Len(queue) = 1 THEN "running" ELSE latest
    /\ registry' = sync_data_files(registry, disk)
    /\ UNCHANGED <<files, saved, loaded, moved, req, silent>>

\* diagnose_upload finds no file or one it cannot read: nothing is loaded.
IngestRefused(choice) ==
    /\ ing.op = "analyse"
    /\ Unreadable(choice, disk) # {} \/ choice = {}
    /\ registry' = record_parse_result(registry, {}, {}, "ok")
    /\ ing' = Free
    /\ Told("diagnosis_error")
    /\ UNCHANGED <<files, saved, loaded, moved, queue, req, silent>>

\* What a dry run is recorded as.  Mutant: as a load.
DryRunLoads == "ok"
DryRun == "analyzed"

\* The dry run is recorded as analysed; the gate stops where a column still
\* needs the officer.
IngestAnalyse(choice) ==
    /\ ing.op = "analyse"
    /\ Unreadable(choice, disk) = {} /\ choice # {}
    /\ registry' = record_parse_result(registry, Parsed(choice, disk, registry), {}, DryRun)
    /\ IF ing.gate /\ \E k \in DOMAIN registry' : registry'[k].review
       THEN ing' = Free /\ Told("needs_review")
       ELSE ing' = [op |-> "parse"] /\ UNCHANGED latest
    /\ UNCHANGED <<files, saved, loaded, moved, queue, req, silent>>

\* The disk is read again, with no transaction open.  A form that cannot be
\* read raises, a declaration file is skipped.
IngestParse(choice) ==
    /\ ing.op = "parse"
    /\ IF \E k \in Unreadable(choice, disk) : k[2] \in Settlement
       THEN ing' = Free /\ Told("failed")
       ELSE /\ ing' = [op |-> "load", parsed |-> Parsed(choice, disk, registry),
                       skipped |-> Unreadable(choice, disk)]
            /\ UNCHANGED latest
    /\ UNCHANGED <<files, registry, saved, loaded, moved, queue, req, silent>>

\* One transaction: plan, wipe, insert, version.
IngestLoad ==
    LET declared == {x \in ing.parsed : x.slot = Bcct}
        source == IF Tagged(registry) THEN Planned \cup declared ELSE ing.parsed
    IN  /\ ing.op = "load"
        /\ IF book_assignment_error(registry) \/
              (Tagged(registry) /\ \E x \in Planned : ~Holds(x.content, x.slot))
           THEN /\ ing' = Free /\ Told("plan_error")
                /\ UNCHANGED <<loaded, moved>>
           ELSE /\ loaded' = source
                /\ moved' = FALSE
                /\ ing' = [ing EXCEPT !.op = "record"]
                /\ UNCHANGED latest
        /\ UNCHANGED <<files, registry, saved, queue, req, silent>>

IngestRecord ==
    /\ ing.op = "record"
    /\ registry' = record_parse_result(registry, ing.parsed, ing.skipped, "ok")
    /\ silent' = {l.path : l \in loaded \ Present}
                 \cup {k[1] : k \in {r \in DOMAIN registry : Rows(r[2]) = {}}}
    /\ ing' = Free
    /\ Told("ok")
    /\ UNCHANGED <<files, saved, loaded, moved, queue, req>>

\* The worker dies: the job is shown as failed, at once or by the sweep.
IngestDies ==
    /\ ing # Free
    /\ ing' = Free
    /\ Told("failed")
    /\ UNCHANGED <<files, registry, saved, loaded, moved, queue, req, silent>>

-----------------------------------------------------------------------------
\* Requests that begin a change of files.
Change ==
    /\ made.files < MaxChanges
    /\ made' = [made EXCEPT !.files = @ + 1]
    /\ \/ \E n \in Name, s \in Slot : CellOpen(n, s)
       \/ \E p \in Path, s \in Slot : SetType(p, s)
       \/ \E n \in Name, s \in Slot : SetTypeOfWaiting(n, s)
       \/ \E k \in DOMAIN registry : DeleteUnlink(k)

Drop ==
    /\ IF req = Free
       THEN made.files < MaxChanges /\ made' = [made EXCEPT !.files = @ + 1]
       ELSE UNCHANGED made
    /\ \E n \in Name, c \in Content : DropFile(n, c) \/ DropUnknown(n, c)

Continue ==
    \/ \E n \in Name : DropRefused(n)
    \/ DropDone
    \/ \E c \in Content : CellWrite(c)
    \/ CellRefused
    \/ Sync
    \/ Finish
    \/ DeleteCommit
    \/ Enqueue
    \/ RequestDies

Settings ==
    /\ made.settings < MaxSettings
    /\ made' = [made EXCEPT !.settings = @ + 1]
    /\ \/ \E p \in Path, b \in Book \cup {None} : SetBook(p, b)
       \/ \E k \in DOMAIN registry, b \in Book \cup {None} : Confirm(k, b)
       \/ \E k \in DOMAIN registry, sh \in {"auto", "pinned"} : PinSheet(k, sh)

Ingest ==
    \/ IngestStart
    \/ /\ ing.op \in {"analyse", "parse"}
       /\ \E choice \in Discovered(disk) :
              IngestRefused(choice) \/ IngestAnalyse(choice) \/ IngestParse(choice)
    \/ IngestLoad
    \/ IngestRecord
    \/ IngestDies

DocumentsNext ==
    \/ Change
    \/ Drop
    \/ Settings
    \/ (Continue \/ Press \/ View \/ Ingest) /\ UNCHANGED made

DocumentsSpec == DocumentsInit /\ [][DocumentsNext]_documentVars

-----------------------------------------------------------------------------
(* Properties                                                              *)

Row == [status : {"pending", "analyzed", "ok", "error"}, book : Book \cup {None},
        sheet : {"auto", "pinned"}, form : Content \cup {None}, review : BOOLEAN]

\* Types; and only workbooks that hold a form are ever loaded as that form.
DocumentsTypeOK ==
    /\ disk \in [Path -> Content \cup {Gone, Partial}]
    /\ waiting \in [Name -> Content \cup {Gone}]
    /\ DOMAIN registry \subseteq Path \X Slot
    /\ \A k \in DOMAIN registry : registry[k] \in Row
    /\ saved \subseteq Slot \X Content
    /\ \A l \in loaded : Holds(l.content, l.slot)
    /\ moved \in BOOLEAN
    /\ queue \in Seq(BOOLEAN) /\ Len(queue) <= MaxQueue
    /\ latest \in {"none", "queued", "running", "ok", "needs_review",
                   "diagnosis_error", "plan_error", "failed"}
    /\ made \in [files : 0 .. MaxChanges, settings : 0 .. MaxSettings]
    /\ silent \subseteq Path

\* Rows of a file that was replaced, deleted, put in another book or pinned
\* to another sheet since they were loaded are never shown as current: the
\* registry says reload, or the version moved, or the newest ingest of the
\* period still has something to tell.  Outside a request, and except for
\* the changes that tell nobody: a request that broke off, a file moved to
\* another slot, a file changed while it was being loaded.
MismatchShown ==
    req = Free => \A l \in loaded \ Present :
        slot_stale(l.slot) \/ moved \/ latest # "ok" \/ l.path \in silent

\* A file the registry shows as loaded is in a slot that has rows, whatever
\* crashed between the commit of the rows and that of the registry.
LoadedMeansRows ==
    \A k \in DOMAIN registry : registry[k].status = "ok" =>
        Rows(k[2]) # {} \/ k[1] \in silent

\* Rows of a book are only ever replaced by rows that are in a book: losing
\* the labels with the registry's rows never merges two books into one.
BooksNeverMerge ==
    [][(loaded' # loaded /\ \E l \in loaded : l.book # None)
           => \A l \in loaded' : l.slot \in Settlement => l.book # None]_documentVars

\* Once the officer confirmed the columns of a form, the gate does not stop
\* for it again: it stops for columns still to be confirmed, or for a file
\* that went away while the ingest ran.
GateOpensOnceConfirmed ==
    [][(latest' = "needs_review" /\ latest # "needs_review") =>
           \E k \in DOMAIN registry' :
               /\ registry'[k].review
               /\ \/ <<k[2], registry'[k].form>> \notin saved
                  \/ ~Holds(disk[k[1]], k[2])]_documentVars

=============================================================================
