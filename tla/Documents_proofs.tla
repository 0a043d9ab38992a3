--------------------------- MODULE Documents_proofs ---------------------------
(***************************************************************************)
(* Proofs about Documents and DataScreen: for any forms, names, workbooks  *)
(* and books, and however uploads, deletions, views and a dying worker     *)
(* interleave, loaded rows that no longer match the files are shown so, a  *)
(* file shown as loaded has rows, books never merge, the review gate opens *)
(* once the columns are confirmed, and the work list is about the period   *)
(* as it is.                                                               *)
(* About Columns: for any workbooks, maps and confirmations in the middle  *)
(* of a load, the page of a file says which columns its rows were read     *)
(* from.  And with those of RunChecks_proofs: each part keeps its types    *)
(* beside the others.                                                      *)
(***************************************************************************)
EXTENDS MCServices, RunChecks_proofs, SequenceTheorems

-----------------------------------------------------------------------------
(* Places and keys                                                         *)

LEMMA PathFacts ==
    /\ \A p \in Path : /\ p = <<p[1], p[2]>>
                       /\ p[1] \in Slot /\ p[2] \in Name \cup Settlement
                       /\ p[1] \in Settlement => p = <<p[1], p[1]>>
    /\ \A s \in Settlement : <<s, s>> \in Path /\ s # Bcct
    /\ \A s \in Slot, n \in Name \cup Settlement : _slot_destination(s, n) \in Path
BY DocumentsAssumption DEF Path, Slot, _slot_destination

LEMMA SmallestExists ==
    ASSUME NEW S \in SUBSET Nat, IsFiniteSet(S), S # {}
    PROVE  \E m \in S : \A k \in S : m <= k
<1> DEFINE NoMin == {T \in SUBSET S : T # {} /\ ~\E m \in T : \A k \in T : m <= k}
<1>1. NoMin \subseteq FiniteSubsetsOf(S)
    BY FS_Subset DEF FiniteSubsetsOf
<1>2. SUFFICES ASSUME NoMin # {} PROVE FALSE
    OBVIOUS
<1>3. PICK T \in NoMin : \A U \in NoMin : <<U, T>> \notin StrictSubsetOrdering(S)
  <2> HIDE DEF NoMin
  <2>1. IsWellFoundedOn(StrictSubsetOrdering(S), FiniteSubsetsOf(S))
      BY FS_StrictSubsetOrderingWellFounded
  <2>2. QED
      BY <1>1, <1>2, <2>1, WFMin
<1>4. PICK x \in T : TRUE
    OBVIOUS
<1> DEFINE U == T \ {x}
<1>5. U \notin NoMin
    BY <1>3 DEF StrictSubsetOrdering
<1>6. CASE U = {}
    BY <1>4, <1>6
<1>7. CASE U # {}
  <2>1. PICK m \in U : \A k \in U : m <= k
      BY <1>5, <1>7
  <2>2. m \in Int /\ x \in Int /\ T \subseteq Int
      BY <1>4
  <2>3. CASE m <= x
      BY <2>1, <2>2, <2>3
  <2>4. CASE ~(m <= x)
      BY <2>1, <2>2, <2>4
  <2>5. QED
      BY <2>3, <2>4
<1>8. QED
    BY <1>6, <1>7

\* What is proposed for a file is one of the slots.
LEMMA ProposedSlot ==
    ASSUME NEW n \in Name, NEW c \in Content, propose(n, c) # None
    PROVE  propose(n, c) \in Slot
<1> DEFINE found == {i \in DOMAIN SlotOrder : SlotOrder[i] \in content_slots(c)}
           first == CHOOSE i \in found : \A j \in found : i <= j
<1>1. CASE tells[n] # None
    BY <1>1, DocumentsAssumption DEF propose
<1>2. CASE tells[n] = None
  <2>1. found # {} /\ propose(n, c) = SlotOrder[first]
      BY <1>2 DEF propose
  <2>2. DOMAIN SlotOrder = 1 .. Len(SlotOrder) /\ Len(SlotOrder) \in Nat
        /\ \A i \in DOMAIN SlotOrder : SlotOrder[i] \in Slot
      BY DocumentsAssumption
  <2>3. found \in SUBSET Nat /\ IsFiniteSet(found)
    <3>1. IsFiniteSet(1 .. Len(SlotOrder))
        BY <2>2, FS_Interval
    <3>2. found \subseteq 1 .. Len(SlotOrder)
        BY <2>2
    <3>3. QED
        BY <3>1, <3>2, FS_Subset
  <2>4. \E i \in found : \A j \in found : i <= j
    <3> HIDE DEF found
    <3>1. QED
        BY <2>1, <2>3, SmallestExists
  <2>5. first \in found
    <3> HIDE DEF found
    <3>1. QED
        BY <2>4
  <2>6. QED
      BY <2>1, <2>2, <2>5
<1>3. QED
    BY <1>1, <1>2

\* A registered file serves the slot of its place, or is a workbook of BCQT
\* that serves another form.
Key(k) ==
    /\ k \in Path \X Slot
    /\ k[2] = k[1][1] \/ (k[1][1] \in Bcqt /\ k[2] \in Settlement)

\* Keys and rows of the registry; a form whose own file is there is served by
\* that file alone.
Shape(reg) ==
    /\ \A k \in DOMAIN reg : Key(k) /\ reg[k] \in Row
    /\ \A k, j \in DOMAIN reg :
          k[2] = j[2] /\ k[2] \in Settlement /\ k[1] = <<k[2], k[2]>> => j = k

LEMMA RegisteredKeys ==
    ASSUME NEW d
    PROVE  /\ \A k \in Registered(d) : Key(k) /\ d[k[1]] # Gone
           /\ \A k, j \in Registered(d) :
                 k[2] = j[2] /\ k[2] \in Settlement /\ k[1] = <<k[2], k[2]>> => j = k
<1>1. \A k \in Registered(d) : Key(k) /\ d[k[1]] # Gone
    BY PathFacts DEF Registered, OnDisk, Key, Slot
<1>2. ASSUME NEW k \in Registered(d), NEW j \in Registered(d),
             k[2] = j[2], k[2] \in Settlement, k[1] = <<k[2], k[2]>>
      PROVE  j = k
  <2>1. d[<<j[2], j[2]>>] # Gone
      BY <1>1, <1>2
  <2>2. PICK p \in OnDisk(d) : j = <<p, p[1]>>
      BY <2>1 DEF Registered
  <2>3. p \in Path /\ p[1] \in Settlement
      BY <1>2, <2>2 DEF OnDisk
  <2>4. p = <<k[2], k[2]>>
      BY <1>2, <2>2, <2>3, PathFacts
  <2>5. k = <<k[1], k[2]>>
      BY <1>1 DEF Key
  <2>6. QED
      BY <1>2, <2>2, <2>4, <2>5
<1>3. QED
    BY <1>1, <1>2

LEMMA NewRowTyped == NewRow \in Row /\ NewRow.status = "pending"
BY DEF NewRow, Row

LEMMA SyncShape ==
    ASSUME NEW reg, NEW d, Shape(reg)
    PROVE  /\ Shape(sync_data_files(reg, d))
           /\ DOMAIN sync_data_files(reg, d) = Registered(d)
           /\ \A k \in Registered(d) :
                 sync_data_files(reg, d)[k] = IF k \in DOMAIN reg THEN reg[k] ELSE NewRow
<1>1. /\ DOMAIN sync_data_files(reg, d) = Registered(d)
      /\ \A k \in Registered(d) :
            sync_data_files(reg, d)[k] = IF k \in DOMAIN reg THEN reg[k] ELSE NewRow
    BY DEF sync_data_files
<1>2. QED
    BY <1>1, RegisteredKeys, NewRowTyped DEF Shape

-----------------------------------------------------------------------------
(* What a parse is, and how it is recorded                                 *)

Sources ==
    [slot : Slot, path : Path, content : Content, book : Book \cup {None},
     sheet : {"auto", "pinned"}]
Readable(S) == S \subseteq Sources /\ \A l \in S : Holds(l.content, l.slot)

LEMMA ParsedReadable ==
    ASSUME NEW d, NEW reg, Shape(reg), NEW choice \in SUBSET Registered(d)
    PROVE  /\ Readable(Parsed(choice, d, reg))
           /\ \A l \in Parsed(choice, d, reg) : l.book = None
<1>1. ASSUME NEW k \in choice, Holds(d[k[1]], k[2])
      PROVE  LET x == Source(k, d[k[1]], None, IF k \in DOMAIN reg THEN reg[k].sheet ELSE "auto")
             IN  x \in Sources /\ x.content = d[k[1]] /\ x.slot = k[2] /\ x.book = None
  <2>1. k \in Path \X Slot /\ d[k[1]] \in Content
      BY <1>1, RegisteredKeys DEF Key, Holds
  <2>2. (IF k \in DOMAIN reg THEN reg[k].sheet ELSE "auto") \in {"auto", "pinned"}
      BY DEF Shape, Row
  <2>3. QED
      BY <2>1, <2>2 DEF Source, Sources
<1>2. QED
    BY <1>1 DEF Parsed, Readable

LEMMA ProvenanceIn ==
    ASSUME NEW s, NEW forms, forms # {}
    PROVE  Provenance(s, forms) \in forms
BY DEF Provenance, Unsettled

\* record_parse_result changes only what a row tells of the last reading.
LEMMA RecordShape ==
    ASSUME NEW reg, Shape(reg), NEW parsed, Readable(parsed), NEW skipped,
           NEW ok \in {"ok", "analyzed"}
    PROVE  LET new == record_parse_result(reg, parsed, skipped, ok)
           IN  /\ Shape(new) /\ DOMAIN new = DOMAIN reg
               /\ \A k \in DOMAIN reg :
                     /\ new[k].book = reg[k].book /\ new[k].sheet = reg[k].sheet
                     /\ new[k].status \in {ok, "error"}
                     /\ new[k].status = ok => \E l \in parsed : l.slot = k[2]
<1> DEFINE new == record_parse_result(reg, parsed, skipped, ok)
           forms(k) == {x.content : x \in {y \in parsed : y.slot = k[2]}}
           form(k) == Provenance(k[2], forms(k))
<1>1. DOMAIN new = DOMAIN reg
    BY DEF record_parse_result
<1>2. ASSUME NEW k \in DOMAIN reg
      PROVE  new[k] = IF forms(k) = {} \/ k \in skipped THEN [reg[k] EXCEPT !.status = "error"]
                      ELSE [reg[k] EXCEPT !.status = ok, !.form = form(k),
                                          !.review = Unsettled(k[2], {form(k)}) # {}]
    BY DEF record_parse_result
<1>3. ASSUME NEW k \in DOMAIN reg
      PROVE  /\ new[k] \in Row
             /\ new[k].book = reg[k].book /\ new[k].sheet = reg[k].sheet
             /\ new[k].status \in {ok, "error"}
             /\ new[k].status = ok => \E l \in parsed : l.slot = k[2]
  <2>1. reg[k] \in Row
      BY DEF Shape
  <2>2. CASE forms(k) = {} \/ k \in skipped
    <3>1. new[k] = [reg[k] EXCEPT !.status = "error"]
        BY <1>2, <2>2
    <3> HIDE DEF new, forms
    <3>2. QED
        BY <2>1, <3>1 DEF Row
  <2>3. CASE ~(forms(k) = {} \/ k \in skipped)
    <3>1. form(k) \in forms(k) /\ \E l \in parsed : l.slot = k[2]
      <4>1. forms(k) # {}
          BY <2>3
      <4>2. \E l \in parsed : l.slot = k[2]
          BY <4>1
      <4> HIDE DEF forms
      <4>3. QED
          BY <4>1, <4>2, ProvenanceIn
    <3>2. form(k) \in Content
      <4>1. \A x \in parsed : x.content \in Content
          BY DEF Readable, Sources
      <4>2. QED
          BY <3>1, <4>1
    <3>3. new[k] = [reg[k] EXCEPT !.status = ok, !.form = form(k),
                                  !.review = Unsettled(k[2], {form(k)}) # {}]
        BY <1>2, <2>3
    <3>4. PICK f \in Content : f = form(k)
        BY <3>2
    <3>5. PICK u \in BOOLEAN : u = (Unsettled(k[2], {f}) # {})
        OBVIOUS
    <3>6. new[k] = [reg[k] EXCEPT !.status = ok, !.form = f, !.review = u]
        BY <3>3, <3>4, <3>5
    <3> HIDE DEF new, forms, form
    <3>7. new[k] \in Row /\ new[k].form = f /\ new[k].review = u /\ new[k].status = ok
          /\ new[k].book = reg[k].book /\ new[k].sheet = reg[k].sheet
        BY <2>1, <3>6 DEF Row
    <3>8. QED
        BY <3>1, <3>5, <3>7
  <2>4. QED
      BY <2>2, <2>3
<1> HIDE DEF new
<1>4. Shape(new)
    BY <1>1, <1>3 DEF Shape
<1>5. QED
    BY <1>1, <1>3, <1>4 DEF new

\* A slot that was read says of its columns what the officer confirmed.
LEMMA RecordReview ==
    ASSUME NEW reg, Shape(reg), NEW parsed, NEW k \in DOMAIN reg,
           \E l \in parsed : l.slot = k[2]
    PROVE  LET new == record_parse_result(reg, parsed, {}, "analyzed")
           IN  new[k].review = (Unsettled(k[2], {new[k].form}) # {})
<1>1. PICK forms : forms = {x.content : x \in {y \in parsed : y.slot = k[2]}}
    OBVIOUS
<1>2. forms # {}
    BY <1>1
<1>3. PICK form, review : form = Provenance(k[2], forms)
                          /\ review = (Unsettled(k[2], {form}) # {})
    OBVIOUS
<1>4. PICK new : new = record_parse_result(reg, parsed, {}, "analyzed")
    OBVIOUS
<1>5. new[k] = [reg[k] EXCEPT !.status = "analyzed", !.form = form, !.review = review]
    BY <1>1, <1>2, <1>3, <1>4 DEF record_parse_result
<1>6. reg[k] \in Row
    BY DEF Shape
<1>7. new[k].form = form /\ new[k].review = review
    BY <1>5, <1>6 DEF Row
<1>8. QED
    BY <1>3, <1>4, <1>7

-----------------------------------------------------------------------------
(* Types                                                                   *)

IsRequest(f) ==
    \/ f = Free
    \/ /\ f.op = "upload" /\ DOMAIN f = {"op", "left", "touched", "replaced"}
       /\ f.touched \subseteq Path /\ f.replaced \in BOOLEAN
    \/ /\ f.op \in {"placed", "synced"} /\ DOMAIN f = {"op", "touched", "replaced"}
       /\ f.touched \subseteq Path /\ f.replaced \in BOOLEAN
    \/ f.op = "cell" /\ f.path \in Path /\ f.replaced \in BOOLEAN
    \/ f.op = "delete" /\ f.path \in Path
    \/ f.op = "enqueue" /\ f.touched \subseteq Path

IsIngest(f) ==
    \/ f = Free
    \/ f.op = "analyse" /\ f.gate \in BOOLEAN
    \/ f.op = "parse"
    \/ /\ f.op \in {"load", "record"} /\ DOMAIN f = {"op", "parsed", "skipped"}
       /\ Readable(f.parsed)

IngestOutcome == {"none", "queued", "running", "ok", "needs_review", "diagnosis_error", "plan_error",
            "failed"}
Made == [files : 0 .. MaxChanges, settings : 0 .. MaxSettings]

FilesTyped ==
    /\ disk \in [Path -> Content \cup {Gone, Partial}]
    /\ waiting \in [Name -> Content \cup {Gone}]
    /\ Shape(registry)
    /\ saved \subseteq Slot \X Content
    /\ Readable(loaded)
    /\ moved \in BOOLEAN
    /\ queue \in Seq(BOOLEAN) /\ Len(queue) <= MaxQueue
    /\ latest \in IngestOutcome
    /\ IsIngest(ing)
    /\ IsRequest(req)
    /\ made \in Made
    /\ silent \subseteq Path

LEMMA InitTyped == DocumentsInit => FilesTyped
<1> SUFFICES ASSUME DocumentsInit PROVE FilesTyped
    OBVIOUS
<1>1. Shape(registry)
    BY DEF DocumentsInit, Shape
<1>2. Readable(loaded)
    BY DEF DocumentsInit, Readable
<1>3. made \in Made
    BY DocumentsAssumption DEF DocumentsInit, Made
<1>4. queue \in Seq(BOOLEAN) /\ Len(queue) <= MaxQueue
    BY DocumentsAssumption DEF DocumentsInit
<1>5. QED
    BY <1>1, <1>2, <1>3, <1>4 DEF DocumentsInit, FilesTyped, IngestOutcome, IsRequest, IsIngest

\* The requests are counted up to their bounds.
LEMMA MadeTyped ==
    ASSUME FilesTyped, DocumentsNext
    PROVE  made' \in Made
<1>1. made \in Made
    BY DEF FilesTyped
<1>2. made' = made \/ (made.files < MaxChanges /\ made' = [made EXCEPT !.files = @ + 1])
      \/ (made.settings < MaxSettings /\ made' = [made EXCEPT !.settings = @ + 1])
    BY DEF DocumentsNext, Change, Drop, Settings
<1>3. QED
    BY <1>1, <1>2, DocumentsAssumption DEF Made

\* A request or a worker's job at rest is recognised by its op.
LEMMA OpFacts ==
    ASSUME FilesTyped
    PROVE  /\ Free.op = "idle"
           /\ req.op = "upload" => /\ DOMAIN req = {"op", "left", "touched", "replaced"}
                                   /\ req.touched \subseteq Path /\ req.replaced \in BOOLEAN
           /\ req.op \in {"placed", "synced"} =>
                  /\ DOMAIN req = {"op", "touched", "replaced"}
                  /\ req.touched \subseteq Path /\ req.replaced \in BOOLEAN
           /\ req.op = "cell" => req.path \in Path /\ req.replaced \in BOOLEAN
           /\ req.op = "delete" => req.path \in Path
           /\ req.op = "enqueue" => req.touched \subseteq Path
           /\ req # Free => req.op \in {"upload", "placed", "synced", "cell", "delete", "enqueue"}
           /\ ing # Free => ing.op \in {"analyse", "parse", "load", "record"}
           /\ ing.op = "analyse" => ing.gate \in BOOLEAN
           /\ ing.op \in {"load", "record"} =>
                  DOMAIN ing = {"op", "parsed", "skipped"} /\ Readable(ing.parsed)
BY DEF FilesTyped, IsRequest, IsIngest, Free

\* Steps of the officer that leave the registry and the worker alone.
LEMMA TypedFiles ==
    ASSUME FilesTyped, made' \in Made,
           UNCHANGED <<registry, saved, loaded, moved, queue, ing, latest>>,
           disk' \in [Path -> Content \cup {Gone, Partial}],
           waiting' \in [Name -> Content \cup {Gone}],
           IsRequest(req'), silent' \subseteq Path
    PROVE  FilesTyped'
BY DEF FilesTyped

LEMMA DroppingTyped ==
    ASSUME FilesTyped, Dropping.op = "upload"
    PROVE  /\ DOMAIN Dropping = {"op", "left", "touched", "replaced"}
           /\ Dropping.touched \subseteq Path /\ Dropping.replaced \in BOOLEAN
           /\ req = Free => Dropping.touched = {} /\ Dropping.replaced = FALSE
           /\ req # Free => req = Dropping
BY OpFacts DEF Dropping, Fresh, Uploading

LEMMA PlacedTyped ==
    ASSUME NEW touched \in SUBSET Path, NEW replaced \in BOOLEAN, NEW left
    PROVE  IsRequest(Placed(touched, replaced)) /\ IsRequest(Uploading(left, touched, replaced))
BY DEF Placed, Uploading, IsRequest

LEMMA TypedDrop ==
    ASSUME FilesTyped, made' \in Made, NEW n \in Name, NEW c \in Content,
           DropFile(n, c) \/ DropUnknown(n, c)
    PROVE  FilesTyped'
<1>1. CASE DropFile(n, c)
  <2>1. PICK dest : dest = _slot_destination(propose(n, c), n)
      OBVIOUS
  <2>2. dest \in Path
      BY <1>1, <2>1, ProposedSlot, PathFacts DEF DropFile
  <2>3. Dropping.op = "upload" /\ disk' = [disk EXCEPT ![dest] = c]
        /\ waiting' = [waiting EXCEPT ![n] = Gone]
        /\ req' = Uploading(Dropping.left - 1,
                            Dropping.touched \cup (IF disk[dest] # Gone THEN {dest} ELSE {}),
                            Dropping.replaced \/ disk[dest] # Gone)
        /\ UNCHANGED <<registry, saved, loaded, moved, queue, ing, latest, silent>>
      BY <1>1, <2>1 DEF DropFile, worker
  <2>4. IsRequest(req')
      BY <2>2, <2>3, DroppingTyped, PlacedTyped
  <2>5. disk' \in [Path -> Content \cup {Gone, Partial}] /\ waiting' \in [Name -> Content \cup {Gone}]
        /\ silent' \subseteq Path
      BY <2>3 DEF FilesTyped
  <2>6. QED
      BY <2>3, <2>4, <2>5, TypedFiles
<1>2. CASE DropUnknown(n, c)
  <2>1. Dropping.op = "upload" /\ waiting' = [waiting EXCEPT ![n] = c]
        /\ req' = [Dropping EXCEPT !.left = Dropping.left - 1]
        /\ UNCHANGED <<disk, registry, saved, loaded, moved, queue, ing, latest, silent>>
      BY <1>2 DEF DropUnknown, worker
  <2>2. IsRequest(req')
      BY <2>1, DroppingTyped DEF IsRequest
  <2>3. disk' \in [Path -> Content \cup {Gone, Partial}] /\ waiting' \in [Name -> Content \cup {Gone}]
        /\ silent' \subseteq Path
      BY <2>1 DEF FilesTyped
  <2>4. QED
      BY <2>1, <2>2, <2>3, TypedFiles
<1>3. QED
    BY <1>1, <1>2

LEMMA TypedChange ==
    ASSUME FilesTyped, made' \in Made, Change
    PROVE  FilesTyped'
<1>1. ASSUME NEW n \in Name, NEW s \in Slot, CellOpen(n, s) PROVE FilesTyped'
  <2>1. PICK dest \in Path : dest = _slot_destination(s, n)
      BY PathFacts
  <2>2. IsRequest([op |-> "cell", path |-> dest, replaced |-> disk[dest] # Gone])
      BY DEF IsRequest
  <2>3. QED
      BY <1>1, <2>1, <2>2, TypedFiles DEF CellOpen, worker, FilesTyped
<1>2. ASSUME NEW p \in Path, NEW s \in Slot, SetType(p, s) PROVE FilesTyped'
  <2>1. PICK dest \in Path : dest = _slot_destination(s, p[2])
      BY PathFacts
  <2>2. IsRequest(Placed({p, dest}, dest # p /\ disk[dest] # Gone))
      BY PlacedTyped
  <2>3. QED
      BY <1>2, <2>1, <2>2, TypedFiles DEF SetType, worker, FilesTyped
<1>3. ASSUME NEW n \in Name, NEW s \in Slot, SetTypeOfWaiting(n, s) PROVE FilesTyped'
  <2>1. PICK dest \in Path : dest = _slot_destination(s, n)
      BY PathFacts
  <2>2. IsRequest(Placed({dest}, disk[dest] # Gone))
      BY PlacedTyped
  <2>3. QED
      BY <1>3, <2>1, <2>2, TypedFiles DEF SetTypeOfWaiting, worker, FilesTyped
<1>4. ASSUME NEW k \in DOMAIN registry, DeleteUnlink(k) PROVE FilesTyped'
  <2>1. k[1] \in Path
      BY DEF FilesTyped, Shape, Key
  <2>2. IsRequest([op |-> "delete", path |-> k[1]])
      BY <2>1 DEF IsRequest
  <2>3. QED
      BY <1>4, <2>2, TypedFiles DEF DeleteUnlink, worker, FilesTyped
<1>5. QED
    BY <1>1, <1>2, <1>3, <1>4 DEF Change

\* Steps that change the registry, the version's flag or the columns, too.
LEMMA TypedRegistry ==
    ASSUME FilesTyped, made' \in Made, UNCHANGED <<disk, waiting, loaded, queue, ing, latest>>,
           Shape(registry'), saved' \subseteq Slot \X Content, moved' \in BOOLEAN,
           IsRequest(req'), silent' \subseteq Path
    PROVE  FilesTyped'
BY DEF FilesTyped

\* Rows whose keys stay, each with a row that may be there.
LEMMA SameKeys ==
    ASSUME NEW reg, Shape(reg), NEW new, DOMAIN new = DOMAIN reg,
           \A k \in DOMAIN reg : new[k] \in Row
    PROVE  Shape(new)
BY DEF Shape

LEMMA FewerKeys ==
    ASSUME NEW reg, Shape(reg), NEW K \in SUBSET DOMAIN reg
    PROVE  Shape([k \in K |-> reg[k]])
BY DEF Shape

LEMMA TypedSettings ==
    ASSUME FilesTyped, made' \in Made, Settings
    PROVE  FilesTyped'
<1>1. Shape(registry) /\ \A k \in DOMAIN registry : registry[k] \in Row
    BY DEF FilesTyped, Shape
<1>2. ASSUME NEW p \in Path, NEW b \in Book \cup {None}, SetBook(p, b) PROVE FilesTyped'
  <2>1. \A k \in DOMAIN registry : [registry[k] EXCEPT !.book = b] \in Row
      BY <1>1 DEF Row
  <2>2. Shape(registry')
      BY <1>1, <1>2, <2>1, SameKeys DEF SetBook
  <2>3. moved' \in BOOLEAN
      BY <1>2 DEF SetBook, FilesTyped
  <2>4. QED
      BY <1>2, <2>2, <2>3, TypedRegistry DEF SetBook, worker, files, FilesTyped
<1>3. ASSUME NEW k \in DOMAIN registry, NEW b \in Book \cup {None}, Confirm(k, b) PROVE FilesTyped'
  <2>1. k[1] \in Path /\ k[2] \in Slot
      BY <1>1 DEF Shape, Key
  <2>2. registry[k].form # None => registry[k].form \in Content
      BY <1>1 DEF Row
  <2>3. saved' \subseteq Slot \X Content
      BY <1>3, <2>1, <2>2 DEF Confirm, FilesTyped
  <2>4. Shape(registry')
    <3>1. [registry EXCEPT ![k].book = b] = [registry EXCEPT ![k] = [registry[k] EXCEPT !.book = b]]
        OBVIOUS
    <3>2. [registry[k] EXCEPT !.book = b] \in Row
        BY <1>1 DEF Row
    <3>3. Shape([registry EXCEPT ![k] = [registry[k] EXCEPT !.book = b]])
        BY <1>1, <3>2, SameKeys
    <3>4. QED
        BY <1>1, <1>3, <3>1, <3>3 DEF Confirm
  <2>5. IsRequest([op |-> "enqueue", touched |-> {k[1]}])
      BY <2>1 DEF IsRequest
  <2>6. QED
      BY <1>3, <2>3, <2>4, <2>5, TypedRegistry DEF Confirm, worker, files, FilesTyped
<1>4. ASSUME NEW k \in DOMAIN registry, NEW sh \in {"auto", "pinned"}, PinSheet(k, sh)
      PROVE  FilesTyped'
  <2>1. k[1] \in Path
      BY <1>1 DEF Shape, Key
  <2>2. Shape(registry')
    <3>1. [registry EXCEPT ![k].sheet = sh] = [registry EXCEPT ![k] = [registry[k] EXCEPT !.sheet = sh]]
        OBVIOUS
    <3>2. [registry[k] EXCEPT !.sheet = sh] \in Row
        BY <1>1 DEF Row
    <3>3. Shape([registry EXCEPT ![k] = [registry[k] EXCEPT !.sheet = sh]])
        BY <1>1, <3>2, SameKeys
    <3>4. QED
        BY <1>4, <3>1, <3>3 DEF PinSheet
  <2>3. IsRequest([op |-> "enqueue", touched |-> {k[1]}])
      BY <2>1 DEF IsRequest
  <2>4. QED
      BY <1>4, <2>2, <2>3, TypedRegistry DEF PinSheet, worker, files, FilesTyped
<1>5. QED
    BY <1>2, <1>3, <1>4 DEF Settings

LEMMA TypedContinue ==
    ASSUME FilesTyped, made' \in Made, Continue \/ Press \/ View
    PROVE  FilesTyped'
<1>1. IsRequest(Free)
    BY DEF IsRequest
<1>2. ASSUME NEW n \in Name, DropRefused(n) PROVE FilesTyped'
    BY <1>1, <1>2, OpFacts, TypedFiles DEF DropRefused, worker, FilesTyped
<1>3. CASE DropDone
  <2>1. IsRequest(Placed(req.touched, req.replaced))
      BY <1>3, OpFacts, PlacedTyped DEF DropDone
  <2>2. QED
      BY <1>3, <2>1, TypedFiles DEF DropDone, worker, files, FilesTyped
<1>4. ASSUME NEW c \in Content, CellWrite(c) PROVE FilesTyped'
  <2>1. IsRequest(Placed({req.path}, req.replaced))
      BY <1>4, OpFacts, PlacedTyped DEF CellWrite
  <2>2. QED
      BY <1>4, <2>1, TypedFiles DEF CellWrite, worker, FilesTyped
<1>5. CASE CellRefused
    BY <1>1, <1>5, OpFacts, TypedFiles DEF CellRefused, worker, FilesTyped
<1>6. CASE Sync
  <2>1. IsRequest(req')
      BY <1>6, OpFacts DEF Sync, IsRequest
  <2>2. Shape(registry')
      BY <1>6, SyncShape DEF Sync, FilesTyped
  <2>3. QED
      BY <1>6, <2>1, <2>2, TypedRegistry DEF Sync, worker, files, FilesTyped
<1>7. CASE Finish
  <2>1. moved' \in BOOLEAN
      BY <1>7, OpFacts DEF Finish, FilesTyped
  <2>2. QED
      BY <1>1, <1>7, <2>1, TypedRegistry DEF Finish, worker, files, FilesTyped
<1>8. CASE DeleteCommit
  <2>1. Shape(registry')
      BY <1>8, FewerKeys DEF DeleteCommit, FilesTyped
  <2>2. QED
      BY <1>1, <1>8, <2>1, TypedRegistry DEF DeleteCommit, worker, files, FilesTyped
<1>9. ASSUME NEW gate \in BOOLEAN, Enqueued(gate)
      PROVE  queue' \in Seq(BOOLEAN) /\ Len(queue') <= MaxQueue /\ latest' \in IngestOutcome
  <2>1. queue \in Seq(BOOLEAN) /\ Len(queue) < MaxQueue
      BY <1>9 DEF Enqueued, FilesTyped
  <2>2. Append(queue, gate) \in Seq(BOOLEAN) /\ Len(Append(queue, gate)) = Len(queue) + 1
      BY <2>1, AppendProperties
  <2>3. QED
      BY <1>9, <2>1, <2>2, DocumentsAssumption DEF Enqueued, IngestOutcome
<1>10. CASE Enqueue
    BY <1>1, <1>9, <1>10 DEF Enqueue, files, FilesTyped
<1>11. CASE Press
    BY <1>9, <1>11 DEF Press, files, FilesTyped
<1>12. CASE RequestDies
  <2>1. silent' \subseteq Path
      BY <1>12, OpFacts DEF RequestDies, FilesTyped
  <2>2. QED
      BY <1>1, <1>12, <2>1, TypedFiles DEF RequestDies, worker, files, FilesTyped
<1>13. CASE View
  <2>1. Shape(registry')
      BY <1>13, SyncShape DEF View, FilesTyped
  <2>2. QED
      BY <1>13, <2>1, TypedRegistry DEF View, worker, files, FilesTyped
<1>14. QED
    BY <1>2, <1>3, <1>4, <1>5, <1>6, <1>7, <1>8, <1>10, <1>11, <1>12, <1>13 DEF Continue

\* The steps of the worker.
LEMMA ToldTyped ==
    ASSUME FilesTyped, NEW outcome \in IngestOutcome, Told(outcome)
    PROVE  latest' \in IngestOutcome
BY DEF Told, FilesTyped

LEMMA EmptyReadable == Readable({})
BY DEF Readable

LEMMA TypedIngest ==
    ASSUME FilesTyped, made' \in Made, Ingest
    PROVE  FilesTyped'
<1>1. Shape(registry) /\ IsIngest(Free) /\ Readable(loaded)
    BY DEF FilesTyped, IsIngest
<1>2. ASSUME UNCHANGED <<disk, waiting, saved, queue, req>>, Shape(registry'),
             Readable(loaded'), moved' \in BOOLEAN, latest' \in IngestOutcome, IsIngest(ing'),
             silent' \subseteq Path
      PROVE  FilesTyped'
    BY <1>2 DEF FilesTyped
<1>3. CASE IngestStart
  <2>1. queue \in Seq(BOOLEAN) /\ queue # <<>> /\ Len(queue) <= MaxQueue
      BY <1>3 DEF IngestStart, FilesTyped
  <2>2. /\ Head(queue) \in BOOLEAN /\ Tail(queue) \in Seq(BOOLEAN)
        /\ Len(Tail(queue)) = Len(queue) - 1
      BY <2>1, HeadTailProperties
  <2>3. queue' \in Seq(BOOLEAN) /\ Len(queue') <= MaxQueue
      BY <1>3, <2>1, <2>2, DocumentsAssumption DEF IngestStart
  <2>4. IsIngest(ing')
      BY <1>3, <2>2 DEF IngestStart, IsIngest
  <2>5. Shape(registry')
      BY <1>1, <1>3, SyncShape DEF IngestStart
  <2>6. latest' \in IngestOutcome
      BY <1>3 DEF IngestStart, IngestOutcome, FilesTyped
  <2>7. QED
      BY <1>3, <2>3, <2>4, <2>5, <2>6 DEF IngestStart, files, FilesTyped
<1>4. ASSUME NEW choice \in Discovered(disk), IngestRefused(choice) PROVE FilesTyped'
  <2>1. Shape(registry')
      BY <1>1, <1>4, EmptyReadable, RecordShape DEF IngestRefused
  <2>2. latest' \in IngestOutcome
      BY <1>4, ToldTyped DEF IngestRefused, IngestOutcome
  <2>3. QED
      BY <1>1, <1>2, <1>4, <2>1, <2>2 DEF IngestRefused, files, FilesTyped
<1>5. ASSUME NEW choice \in Discovered(disk), IngestAnalyse(choice) PROVE FilesTyped'
  <2>1. Readable(Parsed(choice, disk, registry))
      BY <1>1, ParsedReadable DEF Discovered
  <2>2. Shape(registry')
      BY <1>1, <1>5, <2>1, RecordShape DEF IngestAnalyse, DryRun
  <2>3. latest' \in IngestOutcome /\ IsIngest(ing')
      BY <1>1, <1>5, ToldTyped DEF IngestAnalyse, IngestOutcome, IsIngest, FilesTyped
  <2>4. QED
      BY <1>1, <1>2, <1>5, <2>2, <2>3 DEF IngestAnalyse, files, FilesTyped
<1>6. ASSUME NEW choice \in Discovered(disk), IngestParse(choice) PROVE FilesTyped'
  <2>1. Readable(Parsed(choice, disk, registry))
      BY <1>1, ParsedReadable DEF Discovered
  <2>2. IsIngest([op |-> "load", parsed |-> Parsed(choice, disk, registry),
                  skipped |-> Unreadable(choice, disk)])
      BY <2>1 DEF IsIngest
  <2>3. latest' \in IngestOutcome /\ IsIngest(ing')
      BY <1>1, <1>6, <2>2, ToldTyped DEF IngestParse, IngestOutcome, FilesTyped
  <2>4. QED
      BY <1>1, <1>2, <1>6, <2>3 DEF IngestParse, files, FilesTyped
<1>7. CASE IngestLoad
  <2>1. ing.op = "load" /\ DOMAIN ing = {"op", "parsed", "skipped"} /\ Readable(ing.parsed)
      BY <1>7, OpFacts DEF IngestLoad
  <2>2. PICK declared : declared = {x \in ing.parsed : x.slot = Bcct}
      OBVIOUS
  <2>3. PICK source : source = IF Tagged(registry) THEN Planned \cup declared ELSE ing.parsed
      OBVIOUS
  <2>4. CASE book_assignment_error(registry)
             \/ (Tagged(registry) /\ \E x \in Planned : ~Holds(x.content, x.slot))
    <3>1. ing' = Free /\ Told("plan_error") /\ UNCHANGED <<loaded, moved>>
        BY <1>7, <2>4 DEF IngestLoad
    <3>2. QED
        BY <1>1, <1>2, <1>7, <3>1, ToldTyped DEF IngestLoad, files, IngestOutcome, FilesTyped
  <2>5. CASE ~(book_assignment_error(registry)
               \/ (Tagged(registry) /\ \E x \in Planned : ~Holds(x.content, x.slot)))
    <3>1. loaded' = source /\ moved' = FALSE /\ ing' = [ing EXCEPT !.op = "record"]
          /\ UNCHANGED latest
        BY <1>7, <2>2, <2>3, <2>5 DEF IngestLoad
    <3>2. Readable(source)
      <4>1. ASSUME NEW k \in SettlementRows(registry), Tagged(registry)
            PROVE  Current(k) \in Sources
        <5>1. k \in Path \X Slot /\ registry[k] \in Row /\ k \in DOMAIN registry
            BY <1>1, <4>1 DEF SettlementRows, Shape, Key
        <5>2. disk[k[1]] \in Content
          <6>1. Current(k).content = disk[k[1]] /\ Current(k) \in Planned
              BY <4>1 DEF Current, Source, Planned
          <6>2. QED
              BY <2>5, <4>1, <6>1 DEF Holds
        <5>3. QED
            BY <5>1, <5>2 DEF Current, Source, Sources, Row
      <4>2. Tagged(registry) => Readable(Planned)
          BY <2>5, <4>1 DEF Planned, Readable
      <4>3. Readable(declared)
          BY <2>1, <2>2 DEF Readable
      <4>4. QED
          BY <2>1, <2>3, <4>2, <4>3 DEF Readable
    <3>3. IsIngest(ing')
        BY <2>1, <3>1 DEF IsIngest
    <3>4. QED
        BY <1>1, <1>2, <1>7, <3>1, <3>2, <3>3 DEF IngestLoad, files, FilesTyped
  <2>6. QED
      BY <2>4, <2>5
<1>8. CASE IngestRecord
  <2>1. Shape(registry')
      BY <1>1, <1>8, OpFacts, RecordShape DEF IngestRecord
  <2>2. silent' \subseteq Path
    <3>1. \A l \in loaded : l.path \in Path
        BY <1>1 DEF Readable, Sources
    <3>2. \A k \in DOMAIN registry : k[1] \in Path
        BY <1>1 DEF Shape, Key
    <3>3. QED
        BY <1>8, <3>1, <3>2 DEF IngestRecord
  <2>3. latest' \in IngestOutcome
      BY <1>8, ToldTyped DEF IngestRecord, IngestOutcome
  <2>4. QED
      BY <1>1, <1>2, <1>8, <2>1, <2>2, <2>3 DEF IngestRecord, files, FilesTyped
<1>9. CASE IngestDies
    BY <1>1, <1>2, <1>9, ToldTyped DEF IngestDies, files, IngestOutcome, FilesTyped
<1>10. QED
    BY <1>3, <1>4, <1>5, <1>6, <1>7, <1>8, <1>9 DEF Ingest

LEMMA FilesTypedNext ==
    ASSUME FilesTyped, DocumentsNext
    PROVE  FilesTyped'
<1>1. made' \in Made
    BY MadeTyped
<1>2. QED
    BY <1>1, TypedChange, TypedDrop, TypedSettings, TypedContinue, TypedIngest
       DEF DocumentsNext, Drop

-----------------------------------------------------------------------------
(* What the officer's requests leave alone                                 *)

\* A row is never made to say that its file is loaded.
OkShrinks(reg, new) ==
    \A k \in DOMAIN new : new[k].status = "ok" => k \in DOMAIN reg /\ reg[k].status = "ok"

LEMMA SyncShrinks ==
    ASSUME NEW reg, NEW d, Shape(reg)
    PROVE  OkShrinks(reg, sync_data_files(reg, d))
BY SyncShape, NewRowTyped DEF OkShrinks

LEMMA SettingsShrink ==
    ASSUME FilesTyped, Settings
    PROVE  OkShrinks(registry, registry')
<1>1. \A k \in DOMAIN registry : registry[k] \in Row
    BY DEF FilesTyped, Shape
<1>2. ASSUME NEW p \in Path, NEW b \in Book \cup {None}, SetBook(p, b)
      PROVE  OkShrinks(registry, registry')
  <2>1. \A k \in DOMAIN registry : [registry[k] EXCEPT !.book = b].status = registry[k].status
      BY <1>1 DEF Row
  <2>2. QED
      BY <1>2, <2>1 DEF SetBook, OkShrinks
<1>3. ASSUME NEW k \in DOMAIN registry, NEW b \in Book \cup {None}, Confirm(k, b)
      PROVE  OkShrinks(registry, registry')
  <2>1. [registry[k] EXCEPT !.book = b].status = registry[k].status
      BY <1>1 DEF Row
  <2>2. registry' = registry \/ registry' = [registry EXCEPT ![k] = [registry[k] EXCEPT !.book = b]]
      BY <1>3 DEF Confirm
  <2>3. QED
      BY <2>1, <2>2 DEF OkShrinks
<1>4. ASSUME NEW k \in DOMAIN registry, NEW sh \in {"auto", "pinned"}, PinSheet(k, sh)
      PROVE  OkShrinks(registry, registry')
  <2>1. [registry[k] EXCEPT !.sheet = sh].status = registry[k].status
      BY <1>1 DEF Row
  <2>2. registry' = [registry EXCEPT ![k] = [registry[k] EXCEPT !.sheet = sh]]
      BY <1>4 DEF PinSheet
  <2>3. QED
      BY <2>1, <2>2 DEF OkShrinks
<1>5. QED
    BY <1>2, <1>3, <1>4 DEF Settings

\* Every step but the worker's leaves the loaded rows and the worker's job,
\* keeps the history, and may only add a job to the queue.
OfficerStep == Change \/ Drop \/ Settings \/ Continue \/ Press \/ View

LEMMA OfficerSteps ==
    ASSUME FilesTyped, OfficerStep
    PROVE  /\ loaded' = loaded /\ ing' = ing /\ silent \subseteq silent'
           /\ (queue' = queue /\ latest' = latest) \/ latest' = "queued"
           /\ OkShrinks(registry, registry')
<1>1. OkShrinks(registry, registry)
    BY DEF OkShrinks
<1>2. CASE Change \/ Drop
    BY <1>1, <1>2 DEF Change, Drop, CellOpen, SetType, SetTypeOfWaiting, DeleteUnlink, DropFile,
       DropUnknown, worker
<1>3. CASE Settings
  <2>1. loaded' = loaded /\ ing' = ing /\ queue' = queue /\ latest' = latest /\ silent' = silent
      BY <1>3 DEF Settings, SetBook, Confirm, PinSheet, worker
  <2>2. QED
      BY <1>3, <2>1, SettingsShrink
<1>4. CASE Press \/ View
  <2>1. Shape(registry)
      BY DEF FilesTyped
  <2>2. QED
      BY <1>1, <1>4, <2>1, SyncShrinks DEF Press, View, Enqueued, worker
<1>5. CASE Sync
    BY <1>5, SyncShrinks DEF Sync, FilesTyped, worker
<1>6. CASE DeleteCommit
    BY <1>6 DEF DeleteCommit, OkShrinks, worker
<1>7. CASE Continue /\ ~Sync /\ ~DeleteCommit
    BY <1>1, <1>7 DEF Continue, DropRefused, DropDone, CellWrite, CellRefused, Finish, Enqueue,
       Enqueued, RequestDies, worker
<1>8. QED
    BY <1>2, <1>3, <1>4, <1>5, <1>6, <1>7 DEF OfficerStep

-----------------------------------------------------------------------------
(* The worker's order, and the files shown as loaded                       *)

\* A waiting job is told as queued, the one that runs as running unless one
\* waits; between the dry run and the record no file is shown as loaded.
WorkerOrder ==
    /\ queue # <<>> => latest = "queued"
    /\ ing # Free => latest \in {"queued", "running"}
    /\ ing.op \in {"parse", "load", "record"} =>
           \A k \in DOMAIN registry : registry[k].status # "ok"

LEMMA WorkerOrderNext ==
    ASSUME FilesTyped, WorkerOrder, DocumentsNext
    PROVE  WorkerOrder'
<1>1. Free.op = "idle"
    BY DEF Free
<1>2. CASE OfficerStep
  <2>1. /\ ing' = ing /\ OkShrinks(registry, registry')
        /\ (queue' = queue /\ latest' = latest) \/ latest' = "queued"
      BY <1>2, OfficerSteps
  <2>2. QED
      BY <2>1 DEF WorkerOrder, OkShrinks
<1>3. CASE IngestStart
  <2>1. queue \in Seq(BOOLEAN) /\ queue # <<>> /\ latest = "queued"
      BY <1>3 DEF IngestStart, FilesTyped, WorkerOrder
  <2>2. /\ queue' = Tail(queue) /\ latest' = IF Len(queue) = 1 THEN "running" ELSE latest
        /\ ing'.op = "analyse"
      BY <1>3 DEF IngestStart
  <2>3. Len(queue) = 1 => Tail(queue) = <<>>
    <3>1. ASSUME Len(queue) = 1 PROVE Tail(queue) = <<>>
      <4>1. Tail(queue) \in Seq(BOOLEAN) /\ Len(Tail(queue)) = 0
          BY <2>1, <3>1, HeadTailProperties
      <4>2. QED
          BY <4>1, EmptySeq
    <3>2. QED
        BY <3>1
  <2>4. QED
      BY <2>1, <2>2, <2>3 DEF WorkerOrder
<1>4. ASSUME NEW choice \in Discovered(disk), IngestAnalyse(choice)
      PROVE  WorkerOrder'
  <2>1. \A k \in DOMAIN registry' : registry'[k].status # "ok"
    <3>1. Readable(Parsed(choice, disk, registry)) /\ Shape(registry)
        BY ParsedReadable DEF Discovered, FilesTyped
    <3>2. PICK new : new = record_parse_result(registry, Parsed(choice, disk, registry), {},
                                               "analyzed")
        OBVIOUS
    <3>3. DOMAIN new = DOMAIN registry /\ \A k \in DOMAIN registry : new[k].status # "ok"
        BY <3>1, <3>2, RecordShape
    <3>4. registry' = new
        BY <1>4, <3>2 DEF IngestAnalyse, DryRun
    <3>5. QED
        BY <3>3, <3>4
  <2>2. queue' = queue /\ ing.op = "analyse" /\ (ing' = Free \/ ing'.op = "parse")
        /\ (ing' # Free => latest' = latest) /\ (queue # <<>> => latest' = latest)
      BY <1>4 DEF IngestAnalyse, Told
  <2>3. QED
      BY <1>1, <2>1, <2>2 DEF WorkerOrder
<1>5. ASSUME NEW choice \in Discovered(disk), IngestParse(choice)
      PROVE  WorkerOrder'
  <2>1. queue' = queue /\ registry' = registry /\ ing.op = "parse"
        /\ (ing' # Free => latest' = latest) /\ (queue # <<>> => latest' = latest)
      BY <1>5 DEF IngestParse, Told
  <2>2. QED
      BY <1>1, <2>1 DEF WorkerOrder
<1>6. CASE IngestLoad
  <2>1. queue' = queue /\ registry' = registry /\ ing.op = "load"
        /\ (ing' # Free => latest' = latest) /\ (queue # <<>> => latest' = latest)
      BY <1>6 DEF IngestLoad, Told
  <2>2. QED
      BY <1>1, <2>1 DEF WorkerOrder
<1>7. ASSUME \/ IngestRecord \/ IngestDies
             \/ \E choice \in Discovered(disk) : IngestRefused(choice)
      PROVE  WorkerOrder'
  <2>1. queue' = queue /\ ing' = Free /\ (queue # <<>> => latest' = latest)
      BY <1>7 DEF IngestRecord, IngestDies, IngestRefused, Told
  <2>2. QED
      BY <1>1, <2>1 DEF WorkerOrder
<1>8. QED
    BY <1>2, <1>3, <1>4, <1>5, <1>6, <1>7 DEF DocumentsNext, OfficerStep, Ingest

\* Every step but the last of a load only takes back what rows say.
LEMMA OkOnlyByRecord ==
    ASSUME FilesTyped, Ingest, ~IngestRecord
    PROVE  OkShrinks(registry, registry')
<1>1. OkShrinks(registry, registry) /\ Shape(registry)
    BY DEF OkShrinks, FilesTyped
<1>2. ASSUME NEW choice \in Discovered(disk), IngestRefused(choice)
      PROVE  OkShrinks(registry, registry')
  <2>1. PICK new : new = record_parse_result(registry, {}, {}, "ok")
      OBVIOUS
  <2>2. DOMAIN new = DOMAIN registry /\ \A k \in DOMAIN registry : new[k].status # "ok"
      BY <1>1, <2>1, EmptyReadable, RecordShape
  <2>3. QED
      BY <1>2, <2>1, <2>2 DEF IngestRefused, OkShrinks
<1>3. ASSUME NEW choice \in Discovered(disk), IngestAnalyse(choice)
      PROVE  OkShrinks(registry, registry')
  <2>1. PICK new : new = record_parse_result(registry, Parsed(choice, disk, registry), {},
                                             "analyzed")
      OBVIOUS
  <2>2. Readable(Parsed(choice, disk, registry))
      BY <1>1, ParsedReadable DEF Discovered
  <2>3. DOMAIN new = DOMAIN registry /\ \A k \in DOMAIN registry : new[k].status # "ok"
      BY <1>1, <2>1, <2>2, RecordShape
  <2>4. QED
      BY <1>3, <2>1, <2>3 DEF IngestAnalyse, DryRun, OkShrinks
<1>4. CASE IngestStart
    BY <1>1, <1>4, SyncShrinks DEF IngestStart
<1>5. ASSUME IngestLoad \/ IngestDies \/ \E choice \in Discovered(disk) : IngestParse(choice)
      PROVE  OkShrinks(registry, registry')
    BY <1>1, <1>5 DEF IngestLoad, IngestDies, IngestParse
<1>6. QED
    BY <1>2, <1>3, <1>4, <1>5 DEF Ingest

LEMMA LoadedMeansRowsNext ==
    ASSUME FilesTyped, WorkerOrder, LoadedMeansRows, DocumentsNext
    PROVE  LoadedMeansRows'
<1>1. ASSUME OkShrinks(registry, registry'), loaded' = loaded, silent \subseteq silent'
      PROVE  LoadedMeansRows'
    BY <1>1 DEF LoadedMeansRows, OkShrinks, Rows
<1>2. CASE OfficerStep
    BY <1>1, <1>2, OfficerSteps
<1>3. CASE IngestLoad
  <2>1. registry' = registry /\ \A k \in DOMAIN registry : registry[k].status # "ok"
      BY <1>3 DEF IngestLoad, WorkerOrder
  <2>2. QED
      BY <2>1 DEF LoadedMeansRows
<1>4. CASE IngestRecord
  <2>1. DOMAIN registry' = DOMAIN registry /\ loaded' = loaded
      BY <1>4 DEF IngestRecord, record_parse_result
  <2>2. \A k \in DOMAIN registry : Rows(k[2]) = {} => k[1] \in silent'
      BY <1>4 DEF IngestRecord
  <2>3. QED
      BY <2>1, <2>2 DEF LoadedMeansRows, Rows
<1>5. CASE Ingest /\ ~IngestLoad /\ ~IngestRecord
  <2>1. loaded' = loaded /\ silent' = silent
      BY <1>5 DEF Ingest, IngestStart, IngestRefused, IngestAnalyse, IngestParse, IngestDies
  <2>2. QED
      BY <1>1, <1>5, <2>1, OkOnlyByRecord
<1>6. QED
    BY <1>2, <1>3, <1>4, <1>5 DEF DocumentsNext, OfficerStep

-----------------------------------------------------------------------------
(* Loaded rows that no longer match the files                              *)

\* The rows l are the file as it is, in the registry's book and sheet unless
\* its row says reload; and when it has no row, no row of its slot says it
\* is loaded.
Traced(l, d, reg) ==
    LET k == <<l.path, l.slot>>
    IN  /\ l.content = d[l.path]
        /\ k \in DOMAIN reg /\ reg[k].status = "ok" =>
               l.book = reg[k].book /\ l.sheet = reg[k].sheet
        /\ k \notin DOMAIN reg =>
               \A j \in DOMAIN reg : j[2] = l.slot => reg[j].status # "ok"

\* The files whose rows the request under way still has to answer for.
Owed(r) ==
    CASE r.op \in {"upload", "placed", "synced"} -> IF r.replaced THEN r.touched ELSE {}
      [] r.op = "cell" -> IF r.replaced THEN {r.path} ELSE {}
      [] r.op = "delete" -> {r.path}
      [] r.op = "enqueue" -> r.touched
      [] OTHER -> {}

\* A file whose new content is being written is cut off.
CellPartial == req.op = "cell" => disk[req.path] = Partial

\* Why rows loaded by the newest ingest may differ from the files.
Explained ==
    latest = "ok" => \A l \in loaded :
        moved \/ l.path \in silent \/ l.path \in Owed(req) \/ Traced(l, disk, registry)

\* A file that can serve a form is registered for it, unless the form has a
\* file of its own.
LEMMA ServesItsForm ==
    ASSUME NEW d, NEW k, Key(k), Holds(d[k[1]], k[2])
    PROVE  \/ k \in Registered(d)
           \/ k[2] \in Settlement /\ <<<<k[2], k[2]>>, k[2]>> \in Registered(d)
<1>1. k = <<k[1], k[2]>> /\ k[1] \in OnDisk(d)
    BY DocumentsAssumption DEF Key, Holds, OnDisk
<1>2. CASE k[2] = k[1][1]
    BY <1>1, <1>2 DEF Registered
<1>3. CASE k[1][1] \in Bcqt /\ k[2] \in Settlement /\ d[<<k[2], k[2]>>] = Gone
  <2>1. k[2] \in content_slots(d[k[1]]) /\ k \in OnDisk(d) \X Settlement
      BY <1>1, <1>3 DEF content_slots
  <2>2. QED
      BY <1>3, <2>1 DEF Registered
<1>4. CASE k[2] \in Settlement /\ d[<<k[2], k[2]>>] # Gone
  <2>1. PICK p : p = <<k[2], k[2]>>
      OBVIOUS
  <2>2. p \in OnDisk(d) /\ p[1] = k[2]
      BY <1>4, <2>1, PathFacts DEF OnDisk
  <2>3. <<p, p[1]>> \in Registered(d)
      BY <2>2 DEF Registered
  <2>4. QED
      BY <1>4, <2>1, <2>2, <2>3
<1>5. QED
    BY <1>2, <1>3, <1>4 DEF Key

\* A row that is dropped while its file stays gave way to the form's own
\* file, whose row is new.
LEMMA SyncTraced ==
    ASSUME NEW d, NEW reg, Shape(reg), NEW l \in Sources, Holds(l.content, l.slot),
           Traced(l, d, reg)
    PROVE  Traced(l, d, sync_data_files(reg, d))
<1>1. PICK k : k = <<l.path, l.slot>>
    OBVIOUS
<1>2. PICK new : new = sync_data_files(reg, d)
    OBVIOUS
<1>3. /\ DOMAIN new = Registered(d)
      /\ \A j \in Registered(d) : new[j] = IF j \in DOMAIN reg THEN reg[j] ELSE NewRow
    BY <1>2, SyncShape
<1>4. /\ k[1] = l.path /\ k[2] = l.slot /\ l.content = d[k[1]]
      /\ k \in DOMAIN reg /\ reg[k].status = "ok" =>
             l.book = reg[k].book /\ l.sheet = reg[k].sheet
      /\ k \notin DOMAIN reg =>
             \A j \in DOMAIN reg : j[2] = l.slot => reg[j].status # "ok"
    BY <1>1 DEF Traced
<1>5. k \in DOMAIN new /\ new[k].status = "ok" =>
          l.book = new[k].book /\ l.sheet = new[k].sheet
    BY <1>3, <1>4, NewRowTyped
<1>6. ASSUME k \notin DOMAIN new, NEW j \in DOMAIN new, j[2] = l.slot
      PROVE  new[j].status # "ok"
  <2>1. CASE k \notin DOMAIN reg
      BY <1>3, <1>4, <1>6, <2>1, NewRowTyped
  <2>2. CASE k \in DOMAIN reg
    <3>1. Key(k) /\ Holds(d[k[1]], k[2])
        BY <1>4, <2>2 DEF Shape
    <3>2. PICK c : c = <<<<k[2], k[2]>>, k[2]>>
        OBVIOUS
    <3>3. k[2] \in Settlement /\ c \in Registered(d)
        BY <1>3, <1>6, <3>1, <3>2, ServesItsForm
    <3>4. c[1] = <<c[2], c[2]>> /\ c[2] = k[2]
        BY <3>2
    <3>5. j = c
        BY <1>3, <1>4, <1>6, <3>3, <3>4, RegisteredKeys
    <3>6. c \notin DOMAIN reg
      <4>1. c \in DOMAIN reg => k = c
          BY <2>2, <3>3, <3>4 DEF Shape
      <4>2. QED
          BY <1>3, <1>6, <3>3, <4>1
    <3>7. QED
        BY <1>3, <1>6, <3>5, <3>6, NewRowTyped
  <2>3. QED
      BY <2>1, <2>2
<1>7. QED
    BY <1>1, <1>2, <1>4, <1>5, <1>6 DEF Traced

\* A file that was not there cannot be what rows were read from.
LEMMA NotTraced ==
    ASSUME NEW l \in Sources, NEW d, NEW reg, d[l.path] \in {Gone, Partial}
    PROVE  ~Traced(l, d, reg)
BY DocumentsAssumption DEF Traced, Sources

\* Only the disk changed, and not at the place the rows came from.
LEMMA StillTraced ==
    ASSUME NEW l, NEW d, NEW e, NEW reg, Traced(l, d, reg), e[l.path] = d[l.path]
    PROVE  Traced(l, e, reg)
BY DEF Traced

LEMMA OwedFacts ==
    ASSUME NEW touched, NEW replaced, NEW left, NEW p
    PROVE  /\ Owed(Free) = {}
           /\ Owed(Placed(touched, replaced)) = IF replaced THEN touched ELSE {}
           /\ Owed(Uploading(left, touched, replaced)) = IF replaced THEN touched ELSE {}
           /\ Owed([op |-> "cell", path |-> p, replaced |-> replaced])
                  = IF replaced THEN {p} ELSE {}
           /\ Owed([op |-> "delete", path |-> p]) = {p}
           /\ Owed([op |-> "enqueue", touched |-> touched]) = touched
BY DEF Owed, Free, Placed, Uploading

LEMMA CellPartialNext ==
    ASSUME FilesTyped, CellPartial, DocumentsNext
    PROVE  CellPartial'
<1>1. Free.op = "idle"
    BY DEF Free
<1>2. ASSUME NEW n \in Name, NEW s \in Slot, CellOpen(n, s) PROVE CellPartial'
  <2>1. PICK dest \in Path : dest = _slot_destination(s, n)
      BY PathFacts
  <2>2. disk' = [disk EXCEPT ![dest] = Partial] /\ req'.path = dest
      BY <1>2, <2>1 DEF CellOpen
  <2>3. QED
      BY <2>1, <2>2 DEF CellPartial, FilesTyped
<1>3. CASE Settings
    BY <1>1, <1>3 DEF Settings, SetBook, Confirm, PinSheet, files, CellPartial
<1>4. CASE Drop
  <2>1. req'.op = "upload"
    <3>1. ASSUME NEW n \in Name, NEW c \in Content, DropFile(n, c) PROVE req'.op = "upload"
        BY <3>1 DEF DropFile, Uploading
    <3>2. ASSUME NEW n \in Name, NEW c \in Content, DropUnknown(n, c) PROVE req'.op = "upload"
        BY <3>2, DroppingTyped DEF DropUnknown
    <3>3. QED
        BY <1>4, <3>1, <3>2 DEF Drop
  <2>2. QED
      BY <2>1 DEF CellPartial
<1>5. ASSUME NEW n \in Name, NEW s \in Slot, SetTypeOfWaiting(n, s) PROVE CellPartial'
    BY <1>5 DEF SetTypeOfWaiting, Placed, CellPartial
<1>6. ASSUME NEW p \in Path, NEW s \in Slot, SetType(p, s) PROVE CellPartial'
    BY <1>6 DEF SetType, Placed, CellPartial
<1>7. ASSUME NEW k \in DOMAIN registry, DeleteUnlink(k) PROVE CellPartial'
    BY <1>7 DEF DeleteUnlink, CellPartial
<1>8. CASE Continue
  <2>1. CASE Sync
    <3>1. req'.op = "synced"
        BY <2>1, OpFacts DEF Sync
    <3>2. QED
        BY <3>1 DEF CellPartial
  <2>2. CASE ~Sync
    <3>1. req'.op \in {"idle", "placed"}
      <4>1. ASSUME NEW c \in Content, CellWrite(c) PROVE req'.op = "placed"
          BY <4>1 DEF CellWrite, Placed
      <4>2. DropDone => req'.op = "placed"
          BY DEF DropDone, Placed
      <4>3. ASSUME \/ \E n \in Name : DropRefused(n)
                   \/ CellRefused \/ Finish \/ DeleteCommit \/ Enqueue \/ RequestDies
            PROVE  req'.op = "idle"
          BY <1>1, <4>3 DEF DropRefused, CellRefused, Finish, DeleteCommit, Enqueue, RequestDies
      <4>4. QED
          BY <1>8, <2>2, <4>1, <4>2, <4>3 DEF Continue
    <3>2. QED
        BY <3>1 DEF CellPartial
  <2>3. QED
      BY <2>1, <2>2
<1>9. CASE Press \/ View \/ Ingest
  <2>1. disk' = disk /\ req' = req
      BY <1>9 DEF Press, View, Ingest, IngestStart, IngestRefused, IngestAnalyse, IngestParse,
         IngestLoad, IngestRecord, IngestDies, files
  <2>2. QED
      BY <2>1 DEF CellPartial
<1>10. QED
    BY <1>2, <1>3, <1>4, <1>5, <1>6, <1>7, <1>8, <1>9 DEF DocumentsNext, Change

LEMMA ExplainedStep ==
    ASSUME Explained, loaded' = loaded, latest' = "ok" => latest = "ok",
           moved => moved', silent \subseteq silent',
           \A l \in loaded : l.path \in Owed(req) =>
               moved' \/ l.path \in silent' \/ l.path \in Owed(req'),
           \A l \in loaded : Traced(l, disk, registry) =>
               moved' \/ l.path \in silent' \/ l.path \in Owed(req')
                   \/ Traced(l, disk', registry')
    PROVE  Explained'
BY DEF Explained

\* A file put in a place where the request answers for what was there.
LEMMA ExplainedPlaced ==
    ASSUME FilesTyped, Explained, NEW dest \in Path, NEW c \in Content \cup {Gone, Partial},
           disk' = [disk EXCEPT ![dest] = c],
           disk[dest] \notin {Gone, Partial} => dest \in Owed(req') \/ dest \in silent',
           Owed(req) \subseteq Owed(req') \cup silent', silent \subseteq silent',
           UNCHANGED <<registry, loaded, moved, latest>>
    PROVE  Explained'
<1>1. ASSUME NEW l \in loaded, Traced(l, disk, registry)
      PROVE  l.path \in silent' \/ l.path \in Owed(req') \/ Traced(l, disk', registry')
  <2>1. l \in Sources
      BY DEF FilesTyped, Readable
  <2>2. CASE l.path = dest
      BY <1>1, <2>1, <2>2, NotTraced
  <2>3. CASE l.path # dest
    <3>1. disk'[l.path] = disk[l.path]
        BY <2>1, <2>3 DEF FilesTyped, Sources
    <3>2. QED
        BY <1>1, <3>1, StillTraced
  <2>4. QED
      BY <2>2, <2>3
<1>2. QED
    BY <1>1, ExplainedStep

LEMMA ExplainedDrop ==
    ASSUME FilesTyped, Explained, NEW n \in Name, NEW c \in Content,
           DropFile(n, c) \/ DropUnknown(n, c)
    PROVE  Explained'
<1>1. Owed(req) = IF Dropping.replaced THEN Dropping.touched ELSE {}
  <2>1. Dropping.op = "upload"
      BY DEF DropFile, DropUnknown
  <2>2. CASE req = Free
    <3>1. Owed(req) = {}
        BY <2>2, OwedFacts
    <3>2. Dropping.touched = {}
        BY <2>1, <2>2, DroppingTyped
    <3>3. QED
        BY <3>1, <3>2
  <2>3. CASE req # Free
    <3>1. req = Dropping
        BY <2>1, <2>3, DroppingTyped
    <3>2. QED
        BY <2>1, <3>1 DEF Owed
  <2>4. QED
      BY <2>2, <2>3
<1>2. CASE DropFile(n, c)
  <2>1. PICK dest : dest = _slot_destination(propose(n, c), n)
      OBVIOUS
  <2>2. PICK over \in BOOLEAN : over = (disk[dest] # Gone)
      OBVIOUS
  <2>3. dest \in Path
      BY <1>2, <2>1, ProposedSlot, PathFacts DEF DropFile
  <2>4. /\ disk' = [disk EXCEPT ![dest] = c] /\ Dropping.op = "upload"
        /\ req' = Uploading(Dropping.left - 1,
                            Dropping.touched \cup (IF over THEN {dest} ELSE {}),
                            Dropping.replaced \/ over)
        /\ UNCHANGED <<registry, loaded, moved, latest, silent>>
      BY <1>2, <2>1, <2>2 DEF DropFile, worker
  <2>5. Owed(req') = IF Dropping.replaced \/ over
                     THEN Dropping.touched \cup (IF over THEN {dest} ELSE {}) ELSE {}
      BY <2>4, OwedFacts
  <2>6. QED
      BY <1>1, <2>2, <2>3, <2>4, <2>5, ExplainedPlaced
<1>3. CASE DropUnknown(n, c)
  <2>1. /\ Dropping.op = "upload" /\ req' = [Dropping EXCEPT !.left = Dropping.left - 1]
        /\ UNCHANGED <<disk, registry, loaded, moved, latest, silent>>
      BY <1>3 DEF DropUnknown, worker
  <2>2. req'.op = "upload" /\ req'.touched = Dropping.touched /\ req'.replaced = Dropping.replaced
      BY <2>1, DroppingTyped
  <2>3. Owed(req') = IF Dropping.replaced THEN Dropping.touched ELSE {}
      BY <2>2 DEF Owed
  <2>4. QED
      BY <1>1, <2>1, <2>3, ExplainedStep
<1>4. QED
    BY <1>2, <1>3

LEMMA ExplainedChange ==
    ASSUME FilesTyped, Explained, Change
    PROVE  Explained'
<1>1. ASSUME NEW n \in Name, NEW s \in Slot, CellOpen(n, s) PROVE Explained'
  <2>1. PICK dest \in Path : dest = _slot_destination(s, n)
      BY PathFacts
  <2>2. /\ req = Free /\ disk' = [disk EXCEPT ![dest] = Partial]
        /\ req' = [op |-> "cell", path |-> dest, replaced |-> disk[dest] # Gone]
        /\ UNCHANGED <<registry, loaded, moved, latest, silent>>
      BY <1>1, <2>1 DEF CellOpen, worker
  <2>3. Owed(req) = {} /\ Owed(req') = IF disk[dest] # Gone THEN {dest} ELSE {}
      BY <2>2, OwedFacts
  <2>4. QED
      BY <2>2, <2>3, ExplainedPlaced
<1>2. ASSUME NEW p \in Path, NEW s \in Slot, SetType(p, s) PROVE Explained'
  <2>1. PICK dest \in Path : dest = _slot_destination(s, p[2])
      BY PathFacts
  <2>2. PICK over \in BOOLEAN : over = (dest # p /\ disk[dest] # Gone)
      OBVIOUS
  <2>3. /\ req = Free /\ disk' = [disk EXCEPT ![p] = Gone, ![dest] = disk[p]]
        /\ req' = Placed({p, dest}, over)
        /\ silent' = IF dest = p THEN silent ELSE silent \cup {p}
        /\ UNCHANGED <<registry, loaded, moved, latest>>
      BY <1>2, <2>1, <2>2 DEF SetType, worker
  <2>4. Owed(req) = {} /\ Owed(req') = IF over THEN {p, dest} ELSE {}
    <3>1. PICK touched : touched = {p, dest}
        OBVIOUS
    <3>2. req = Free /\ req' = Placed(touched, over)
        BY <2>3, <3>1
    <3>3. Owed(req') = IF over THEN touched ELSE {}
      <4>1. req'.op = "placed" /\ req'.touched = touched /\ req'.replaced = over
          BY <3>2 DEF Placed
      <4>2. QED
          BY <4>1 DEF Owed
    <3>4. Owed(req) = {}
        BY <3>2, OwedFacts
    <3>5. QED
        BY <3>1, <3>3, <3>4
  <2>5. disk \in [Path -> Content \cup {Gone, Partial}]
      BY DEF FilesTyped
  <2>6. ASSUME NEW l \in loaded, Traced(l, disk, registry)
        PROVE  l.path \in silent' \/ l.path \in Owed(req') \/ Traced(l, disk', registry')
    <3>1. l \in Sources /\ l.path \in Path
        BY DEF FilesTyped, Readable, Sources
    <3>2. CASE dest = p
      <4>1. disk'[l.path] = disk[l.path]
          BY <2>3, <2>5, <3>1, <3>2
      <4>2. QED
          BY <2>3, <2>6, <4>1, StillTraced
    <3>3. CASE dest # p /\ l.path = p
        BY <2>3, <3>3
    <3>4. CASE dest # p /\ l.path = dest
      <4>1. disk[l.path] # Gone
          BY <2>6, <3>1, NotTraced
      <4>2. QED
          BY <2>2, <2>4, <3>4, <4>1
    <3>5. CASE l.path # p /\ l.path # dest
      <4>1. disk'[l.path] = disk[l.path]
          BY <2>3, <2>5, <3>1, <3>5
      <4>2. QED
          BY <2>3, <2>6, <4>1, StillTraced
    <3>6. QED
        BY <3>2, <3>3, <3>4, <3>5
  <2>7. QED
      BY <2>3, <2>4, <2>6, ExplainedStep
<1>3. ASSUME NEW n \in Name, NEW s \in Slot, SetTypeOfWaiting(n, s) PROVE Explained'
  <2>1. PICK dest \in Path : dest = _slot_destination(s, n)
      BY PathFacts
  <2>2. /\ req = Free /\ disk' = [disk EXCEPT ![dest] = waiting[n]]
        /\ req' = Placed({dest}, disk[dest] # Gone)
        /\ UNCHANGED <<registry, loaded, moved, latest, silent>>
      BY <1>3, <2>1 DEF SetTypeOfWaiting, worker
  <2>3. Owed(req) = {} /\ Owed(req') = IF disk[dest] # Gone THEN {dest} ELSE {}
      BY <2>2, OwedFacts
  <2>4. waiting[n] \in Content \cup {Gone, Partial}
      BY DEF FilesTyped
  <2>5. QED
      BY <2>2, <2>3, <2>4, ExplainedPlaced
<1>4. ASSUME NEW k \in DOMAIN registry, DeleteUnlink(k) PROVE Explained'
  <2>1. k[1] \in Path
      BY DEF FilesTyped, Shape, Key
  <2>2. /\ req = Free /\ disk' = [disk EXCEPT ![k[1]] = Gone]
        /\ req' = [op |-> "delete", path |-> k[1]]
        /\ UNCHANGED <<registry, loaded, moved, latest, silent>>
      BY <1>4 DEF DeleteUnlink, worker
  <2>3. Owed(req) = {} /\ Owed(req') = {k[1]}
      BY <2>2, OwedFacts
  <2>4. QED
      BY <2>1, <2>2, <2>3, ExplainedPlaced
<1>5. QED
    BY <1>1, <1>2, <1>3, <1>4 DEF Change

LEMMA ExplainedSettings ==
    ASSUME FilesTyped, Explained, Settings
    PROVE  Explained'
<1>1. \A k \in DOMAIN registry : registry[k] \in Row
    BY DEF FilesTyped, Shape
<1>2. Owed(Free) = {}
    BY OwedFacts
<1>3. ASSUME NEW p \in Path, NEW b \in Book \cup {None}, SetBook(p, b) PROVE Explained'
  <2>1. PICK keys \in SUBSET DOMAIN registry :
            keys = {k \in SettlementRows(registry) : k[1] = p}
      BY DEF SettlementRows
  <2>2. /\ registry' = [k \in DOMAIN registry |->
               IF k \in keys THEN [registry[k] EXCEPT !.book = b] ELSE registry[k]]
        /\ moved' = (moved \/ ((\E k \in keys : registry[k].book # b)
                               /\ \E k \in keys : registry[k].status = "ok"))
        /\ UNCHANGED <<disk, loaded, latest, req, silent>>
      BY <1>3, <2>1 DEF SetBook, files, worker
  <2>3. ASSUME NEW l \in loaded, Traced(l, disk, registry), ~moved'
        PROVE  Traced(l, disk', registry')
    <3>1. PICK k : k = <<l.path, l.slot>>
        OBVIOUS
    <3>2. DOMAIN registry' = DOMAIN registry
        BY <2>2
    <3>3. ASSUME NEW j \in DOMAIN registry
          PROVE  /\ registry'[j].status = registry[j].status
                 /\ registry'[j].sheet = registry[j].sheet
                 /\ registry[j].status = "ok" => registry'[j].book = registry[j].book
      <4>1. registry[j] \in Row
          BY <1>1
      <4>2. CASE j \in keys
        <5>1. registry'[j] = [registry[j] EXCEPT !.book = b]
            BY <2>2, <4>2
        <5>2. registry[j].status = "ok" => registry[j].book = b
            BY <2>2, <2>3, <4>2
        <5>3. QED
            BY <4>1, <5>1, <5>2 DEF Row
      <4>3. CASE j \notin keys
          BY <2>2, <4>3
      <4>4. QED
          BY <4>2, <4>3
    <3>4. QED
        BY <2>2, <2>3, <3>1, <3>2, <3>3 DEF Traced
  <2>4. QED
      BY <2>2, <2>3, ExplainedStep
<1>4. ASSUME NEW k \in DOMAIN registry, NEW row, row.status = registry[k].status,
             registry' = registry \/ registry' = [registry EXCEPT ![k] = row],
             req = Free, req' = [op |-> "enqueue", touched |-> {k[1]}],
             UNCHANGED <<disk, loaded, moved, latest, silent>>
      PROVE  Explained'
  <2>1. Owed(req) = {} /\ Owed(req') = {k[1]}
    <3>1. PICK touched : touched = {k[1]}
        OBVIOUS
    <3>2. req'.op = "enqueue" /\ req'.touched = touched
        BY <1>4, <3>1
    <3>3. QED
        BY <1>2, <1>4, <3>1, <3>2 DEF Owed
  <2>2. ASSUME NEW l \in loaded, Traced(l, disk, registry), l.path # k[1]
        PROVE  Traced(l, disk', registry')
    <3>1. PICK i : i = <<l.path, l.slot>>
        OBVIOUS
    <3>2. i # k
        BY <2>2, <3>1
    <3>3. DOMAIN registry' = DOMAIN registry
          /\ \A j \in DOMAIN registry : registry'[j].status = registry[j].status
                                        /\ (j # k => registry'[j] = registry[j])
        BY <1>4
    <3>4. QED
        BY <1>4, <2>2, <3>1, <3>2, <3>3 DEF Traced
  <2>3. QED
      BY <1>4, <2>1, <2>2, ExplainedStep
<1>5. ASSUME NEW k \in DOMAIN registry, NEW b \in Book \cup {None}, Confirm(k, b)
      PROVE  Explained'
  <2>1. PICK row : row = [registry[k] EXCEPT !.book = b]
      OBVIOUS
  <2>2. row.status = registry[k].status
      BY <1>1, <2>1 DEF Row
  <2>3. registry' = registry \/ registry' = [registry EXCEPT ![k] = row]
      BY <1>5, <2>1 DEF Confirm
  <2>4. QED
      BY <1>4, <1>5, <2>2, <2>3 DEF Confirm, files, worker
<1>6. ASSUME NEW k \in DOMAIN registry, NEW sh \in {"auto", "pinned"}, PinSheet(k, sh)
      PROVE  Explained'
  <2>1. PICK row : row = [registry[k] EXCEPT !.sheet = sh]
      OBVIOUS
  <2>2. row.status = registry[k].status
      BY <1>1, <2>1 DEF Row
  <2>3. registry' = [registry EXCEPT ![k] = row]
      BY <1>6, <2>1 DEF PinSheet
  <2>4. QED
      BY <1>4, <1>6, <2>2, <2>3 DEF PinSheet, files, worker
<1>7. QED
    BY <1>3, <1>5, <1>6 DEF Settings

\* A sync, by a request or by a page.
LEMMA ExplainedSync ==
    ASSUME FilesTyped, Explained, registry' = sync_data_files(registry, disk),
           Owed(req') = Owed(req), UNCHANGED <<disk, loaded, moved, latest, silent>>
    PROVE  Explained'
<1>1. Shape(registry) /\ \A l \in loaded : l \in Sources /\ Holds(l.content, l.slot)
    BY DEF FilesTyped, Readable
<1>2. \A l \in loaded : Traced(l, disk, registry) => Traced(l, disk', registry')
    BY <1>1, SyncTraced
<1>3. QED
    BY <1>2, ExplainedStep

LEMMA ExplainedContinue ==
    ASSUME FilesTyped, Explained, CellPartial, Continue \/ Press \/ View
    PROVE  Explained'
<1>1. Owed(Free) = {} /\ Free.op = "idle"
    BY OwedFacts DEF Free
<1>2. ASSUME UNCHANGED <<disk, registry, loaded, latest>>, moved => moved',
             silent \subseteq silent', Owed(req) \subseteq silent' \/ moved' \/ Owed(req') = Owed(req)
      PROVE  Explained'
    BY <1>2, ExplainedStep
<1>3. CASE Enqueue \/ Press
    BY <1>3 DEF Enqueue, Press, Enqueued, Explained
<1>4. ASSUME NEW n \in Name, DropRefused(n) PROVE Explained'
  <2>1. Owed(req) \subseteq silent'
      BY <1>4 DEF DropRefused, Owed
  <2>2. QED
      BY <1>2, <1>4, <2>1 DEF DropRefused, worker
<1>5. CASE DropDone
  <2>1. PICK touched, replaced : touched = req.touched /\ replaced = req.replaced
      OBVIOUS
  <2>2. req.op = "upload" /\ req' = Placed(touched, replaced)
      BY <1>5, <2>1 DEF DropDone
  <2>3. req'.op = "placed" /\ req'.touched = touched /\ req'.replaced = replaced
      BY <2>2 DEF Placed
  <2>4. Owed(req') = Owed(req)
      BY <2>1, <2>2, <2>3 DEF Owed
  <2>5. QED
      BY <1>2, <1>5, <2>4 DEF DropDone, files, worker
<1>6. ASSUME NEW c \in Content, CellWrite(c) PROVE Explained'
  <2>1. PICK dest \in Path, replaced \in BOOLEAN :
            req.op = "cell" /\ req.path = dest /\ req.replaced = replaced
      BY <1>6, OpFacts DEF CellWrite
  <2>2. /\ disk[dest] = Partial /\ disk' = [disk EXCEPT ![dest] = c]
        /\ req' = Placed({dest}, replaced) /\ UNCHANGED <<registry, loaded, moved, latest, silent>>
      BY <1>6, <2>1 DEF CellWrite, CellPartial, worker
  <2>3. req'.op = "placed" /\ req'.touched = {dest} /\ req'.replaced = replaced
      BY <2>2 DEF Placed
  <2>4. Owed(req') = Owed(req)
      BY <2>1, <2>3 DEF Owed
  <2>5. QED
      BY <2>2, <2>4, ExplainedPlaced
<1>7. CASE CellRefused
  <2>1. PICK dest \in Path : req.op = "cell" /\ req.path = dest
      BY <1>7, OpFacts DEF CellRefused
  <2>2. /\ disk' = [disk EXCEPT ![dest] = Gone] /\ silent' = silent \cup {dest}
        /\ UNCHANGED <<registry, loaded, moved, latest>>
      BY <1>7, <2>1 DEF CellRefused, worker
  <2>3. Owed(req) \subseteq {dest}
      BY <2>1 DEF Owed
  <2>4. QED
      BY <2>2, <2>3, ExplainedPlaced
<1>8. CASE Sync
  <2>1. req.op = "placed" /\ req' = [req EXCEPT !.op = "synced"]
        /\ DOMAIN req = {"op", "touched", "replaced"}
      BY <1>8, OpFacts DEF Sync
  <2>2. req'.op = "synced" /\ req'.touched = req.touched /\ req'.replaced = req.replaced
      BY <2>1
  <2>3. Owed(req') = Owed(req)
      BY <2>1, <2>2 DEF Owed
  <2>4. QED
      BY <1>8, <2>3, ExplainedSync DEF Sync, files, worker
<1>9. CASE View
    BY <1>9, ExplainedSync DEF View, files, worker
<1>10. CASE Finish
  <2>1. req.op = "synced" /\ req.replaced \in BOOLEAN /\ moved' = (moved \/ req.replaced)
      BY <1>10, OpFacts DEF Finish
  <2>2. moved' \/ Owed(req) \subseteq silent'
      BY <2>1 DEF Owed
  <2>3. QED
      BY <1>2, <1>10, <2>1, <2>2 DEF Finish, files, worker
<1>11. CASE DeleteCommit
  <2>1. moved' = TRUE /\ loaded' = loaded
      BY <1>11 DEF DeleteCommit
  <2>2. QED
      BY <2>1 DEF Explained
<1>12. CASE RequestDies
  <2>1. Owed(req) \subseteq silent'
      BY <1>12, OpFacts DEF RequestDies, Owed
  <2>2. QED
      BY <1>2, <1>12, <2>1 DEF RequestDies, files, worker
<1>13. QED
    BY <1>3, <1>4, <1>5, <1>6, <1>7, <1>8, <1>9, <1>10, <1>11, <1>12 DEF Continue

\* The end of a load settles what its rows and the files have in common.
LEMMA ExplainedIngest ==
    ASSUME FilesTyped, WorkerOrder, Ingest
    PROVE  Explained'
<1>1. CASE IngestRecord
  <2>1. PICK new : new = record_parse_result(registry, ing.parsed, ing.skipped, "ok")
      OBVIOUS
  <2>2. /\ DOMAIN new = DOMAIN registry
        /\ \A k \in DOMAIN registry : new[k].book = registry[k].book
                                      /\ new[k].sheet = registry[k].sheet
      BY <1>1, <2>1, OpFacts, RecordShape DEF IngestRecord, FilesTyped
  <2>3. registry' = new /\ disk' = disk /\ loaded' = loaded
      BY <1>1, <2>1 DEF IngestRecord, files
  <2>4. ASSUME NEW l \in loaded, l \in Present
        PROVE  Traced(l, disk', registry')
    <3>1. PICK k \in DOMAIN registry : l = Current(k)
        BY <2>4 DEF Present
    <3>2. k = <<k[1], k[2]>>
        BY DEF FilesTyped, Shape, Key
    <3>3. /\ l.path = k[1] /\ l.slot = k[2] /\ l.content = disk[k[1]]
          /\ l.book = registry[k].book /\ l.sheet = registry[k].sheet
        BY <3>1 DEF Current, Source
    <3>4. QED
        BY <2>2, <2>3, <3>2, <3>3 DEF Traced
  <2>5. ASSUME NEW l \in loaded, l \notin Present
        PROVE  l.path \in silent'
      BY <1>1, <2>5 DEF IngestRecord
  <2>6. QED
      BY <2>3, <2>4, <2>5 DEF Explained
<1>2. CASE ~IngestRecord
  <2>1. latest \in {"queued", "running"}
      BY <1>2, OpFacts DEF Ingest, IngestStart, IngestRefused, IngestAnalyse, IngestParse,
         IngestLoad, IngestDies, WorkerOrder, Free
  <2>2. latest' = latest
        \/ latest' \in {"running", "needs_review", "diagnosis_error", "plan_error", "failed"}
      BY <1>2 DEF Ingest, IngestStart, IngestRefused, IngestAnalyse, IngestParse, IngestLoad,
         IngestDies, Told
  <2>3. QED
      BY <2>1, <2>2 DEF Explained
<1>3. QED
    BY <1>1, <1>2

-----------------------------------------------------------------------------
(* Theorems                                                                *)

IInv == FilesTyped /\ WorkerOrder /\ LoadedMeansRows /\ CellPartial /\ Explained

LEMMA InvInit == DocumentsInit => IInv
<1>1. DocumentsInit => FilesTyped
    BY InitTyped
<1>2. DocumentsInit => WorkerOrder /\ LoadedMeansRows /\ CellPartial /\ Explained
    BY DEF DocumentsInit, WorkerOrder, LoadedMeansRows, CellPartial, Explained, Free
<1>3. QED
    BY <1>1, <1>2 DEF IInv

LEMMA InvNext == IInv /\ [DocumentsNext]_documentVars => IInv'
<1>1. ASSUME IInv, DocumentsNext PROVE IInv'
  <2>1. Explained'
    <3>1. CASE Drop
        BY <1>1, <3>1, ExplainedDrop DEF Drop, IInv
    <3>2. CASE Change \/ Settings \/ Continue \/ Press \/ View \/ Ingest
        BY <1>1, <3>2, ExplainedChange, ExplainedSettings, ExplainedContinue, ExplainedIngest
           DEF IInv
    <3>3. QED
        BY <1>1, <3>1, <3>2 DEF DocumentsNext
  <2>2. QED
      BY <1>1, <2>1, FilesTypedNext, WorkerOrderNext, LoadedMeansRowsNext, CellPartialNext DEF IInv
<1>2. ASSUME IInv, UNCHANGED documentVars PROVE IInv'
  <2>1. UNCHANGED <<disk, waiting, registry, saved, loaded, moved, queue, ing, latest, req, made,
                    silent>>
      BY <1>2 DEF documentVars
  <2>2. FilesTyped' /\ WorkerOrder'
      BY <1>2, <2>1 DEF IInv, FilesTyped, WorkerOrder
  <2>3. LoadedMeansRows' /\ CellPartial' /\ Explained'
      BY <1>2, <2>1 DEF IInv, LoadedMeansRows, Rows, CellPartial, Explained
  <2>4. QED
      BY <2>2, <2>3 DEF IInv
<1>3. QED
    BY <1>1, <1>2

LEMMA Inv == DocumentsSpec => []IInv
BY InvInit, InvNext, PTL DEF DocumentsSpec

\* Whatever requests, views, ingests and failures follow one another, disk,
\* registry and queue keep their types, and rows were only ever loaded from
\* workbooks that hold their form (sync_data_files, record_parse_result and
\* ingest_handler).
THEOREM DocumentsTypeCorrect == DocumentsSpec => []DocumentsTypeOK
<1>1. IInv => DocumentsTypeOK
  <2>1. ASSUME IInv PROVE DocumentsTypeOK
    <3>1. /\ DOMAIN registry \subseteq Path \X Slot
          /\ \A k \in DOMAIN registry : registry[k] \in Row
        BY <2>1 DEF IInv, FilesTyped, Shape, Key
    <3>2. \A l \in loaded : Holds(l.content, l.slot)
        BY <2>1 DEF IInv, FilesTyped, Readable
    <3>3. QED
        BY <2>1, <3>1, <3>2 DEF IInv, FilesTyped, DocumentsTypeOK, IngestOutcome, Made
  <2>2. QED
      BY <2>1
<1>2. QED
    BY <1>1, Inv, PTL

\* Outside a request, and but for the changes that tell nobody, rows whose
\* file was replaced, deleted, put in another book or pinned to another sheet
\* are never shown as current, in spite of the disk changing before the
\* registry and the version (upload_drop_zone, documents_delete_file,
\* documents_set_file_book, documents_pin_sheet, readiness.py).
THEOREM MismatchesShown == DocumentsSpec => []MismatchShown
<1>1. IInv => MismatchShown
  <2>1. ASSUME IInv, req = Free, NEW l \in loaded, l \notin Present, ~moved, latest = "ok",
               l.path \notin silent
        PROVE  slot_stale(l.slot)
    <3>1. Traced(l, disk, registry) /\ l \in Sources
      <4>1. Owed(req) = {}
          BY <2>1, OwedFacts
      <4>2. QED
          BY <2>1, <4>1 DEF IInv, Explained, FilesTyped, Readable
    <3>2. PICK k : k = <<l.path, l.slot>>
        OBVIOUS
    <3>3. CASE k \in DOMAIN registry
      <4>1. registry[k].status # "ok"
        <5>1. ASSUME registry[k].status = "ok" PROVE FALSE
          <6>1. /\ l.content = disk[k[1]] /\ l.book = registry[k].book
                /\ l.sheet = registry[k].sheet /\ l.slot = k[2] /\ l.path = k[1]
              BY <3>1, <3>2, <3>3, <5>1 DEF Traced
          <6>2. l = Current(k)
              BY <3>1, <6>1 DEF Current, Source, Sources
          <6>3. QED
              BY <2>1, <3>3, <6>2 DEF Present
        <5>2. QED
            BY <5>1
      <4>2. QED
          BY <2>1, <3>2, <3>3, <4>1 DEF slot_stale, Rows
    <3>4. CASE k \notin DOMAIN registry
      <4>1. \A j \in DOMAIN registry : j[2] = l.slot => registry[j].status # "ok"
          BY <3>1, <3>2, <3>4 DEF Traced
      <4>2. QED
          BY <2>1, <4>1 DEF slot_stale, Rows
    <3>5. QED
        BY <3>3, <3>4
  <2>2. QED
      BY <2>1 DEF MismatchShown
<1>2. QED
    BY <1>1, Inv, PTL

\* A file shown as loaded is in a slot that has rows, though the rows and the
\* registry are committed one after the other (ingest_handler).
THEOREM LoadedFilesHaveRows == DocumentsSpec => []LoadedMeansRows
<1>1. IInv => LoadedMeansRows
    BY DEF IInv
<1>2. QED
    BY <1>1, Inv, PTL

\* Rows in books are only replaced by rows in books: the plan refuses files
\* without one as long as loaded rows are in some (book_assignment_error).
THEOREM BooksStayApart == DocumentsSpec => BooksNeverMerge
<1> DEFINE A == (loaded' # loaded /\ \E l \in loaded : l.book # None)
                    => \A l \in loaded' : l.slot \in Settlement => l.book # None
<1>1. IInv /\ [DocumentsNext]_documentVars => [A]_documentVars
  <2>1. ASSUME IInv, DocumentsNext, loaded' # loaded, NEW x \in loaded, x.book # None,
               NEW l \in loaded', l.slot \in Settlement
        PROVE  l.book # None
    <3>1. IngestLoad
      <4>1. Ingest
          BY <2>1, OfficerSteps DEF DocumentsNext, OfficerStep, IInv
      <4>2. QED
          BY <2>1, <4>1 DEF Ingest, IngestStart, IngestRefused, IngestAnalyse, IngestParse,
             IngestRecord, IngestDies
    <3>2. ~book_assignment_error(registry)
          /\ loaded' = IF Tagged(registry)
                       THEN Planned \cup {y \in ing.parsed : y.slot = Bcct} ELSE ing.parsed
        BY <2>1, <3>1 DEF IngestLoad
    <3>3. Tagged(registry) /\ \A k \in SettlementRows(registry) : registry[k].book # None
        BY <2>1, <3>2 DEF book_assignment_error
    <3>4. l \in Planned
        BY <2>1, <3>2, <3>3, DocumentsAssumption
    <3>5. PICK k \in SettlementRows(registry) : l = Current(k)
        BY <3>4 DEF Planned
    <3>6. l.book = registry[k].book
        BY <3>5 DEF Current, Source
    <3>7. QED
        BY <3>3, <3>6
  <2>2. QED
      BY <2>1
<1>2. QED
    BY <1>1, Inv, PTL DEF DocumentsSpec, BooksNeverMerge

\* The gate only stops an ingest for columns nobody confirmed, or for a file
\* that went away while it ran: columns that were confirmed are not asked for
\* again (resolve_officer_confirmed, the review gate of ingest_handler).
THEOREM GateOpens == DocumentsSpec => GateOpensOnceConfirmed
<1> DEFINE A == (latest' = "needs_review" /\ latest # "needs_review") =>
                   \E k \in DOMAIN registry' :
                       /\ registry'[k].review
                       /\ \/ <<k[2], registry'[k].form>> \notin saved
                          \/ ~Holds(disk[k[1]], k[2])
<1>1. IInv /\ [DocumentsNext]_documentVars => [A]_documentVars
  <2>1. ASSUME IInv, DocumentsNext, latest' = "needs_review", latest # "needs_review"
        PROVE  A
    <3>1. PICK choice \in Discovered(disk) : IngestAnalyse(choice)
      <4>1. Ingest
          BY <2>1, OfficerSteps DEF DocumentsNext, OfficerStep, IInv
      <4>2. QED
          BY <2>1, <4>1 DEF Ingest, IngestStart, IngestRefused, IngestParse, IngestLoad,
             IngestRecord, IngestDies, Told
    <3>2. PICK parsed : parsed = Parsed(choice, disk, registry)
        OBVIOUS
    <3>3. PICK new : new = record_parse_result(registry, parsed, {}, "analyzed")
        OBVIOUS
    <3>4. /\ registry' = new /\ Unreadable(choice, disk) = {}
          /\ \E k \in DOMAIN new : new[k].review
        BY <2>1, <3>1, <3>2, <3>3 DEF IngestAnalyse, DryRun
    <3>5. Shape(registry) /\ Readable(parsed)
        BY <2>1, <3>2, ParsedReadable DEF Discovered, IInv, FilesTyped
    <3>6. PICK k \in DOMAIN new : new[k].review
        BY <3>4
    <3>7. k \in DOMAIN registry
        BY <3>3, <3>6 DEF record_parse_result
    <3>8. CASE new[k].review = (Unsettled(k[2], {new[k].form}) # {})
        BY <3>4, <3>6, <3>8 DEF Unsettled
    <3>9. CASE \A l \in parsed : l.slot # k[2]
      <4>1. ASSUME Holds(disk[k[1]], k[2]) PROVE FALSE
        <5>1. \A x \in choice : Holds(disk[x[1]], x[2])
            BY <3>4 DEF Unreadable
        <5>2. \A x \in choice : \E l \in parsed : l.slot = x[2]
          <6>1. ASSUME NEW x \in choice PROVE \E l \in parsed : l.slot = x[2]
            <7>1. PICK l : l = Source(x, disk[x[1]], None,
                                      IF x \in DOMAIN registry THEN registry[x].sheet ELSE "auto")
                OBVIOUS
            <7>2. l \in parsed /\ l.slot = x[2]
                BY <3>2, <5>1, <7>1 DEF Parsed, Source
            <7>3. QED
                BY <7>2
          <6>2. QED
              BY <6>1
        <5>3. \A x \in choice : x[2] # k[2]
            BY <3>9, <5>2
        <5>4. \A x \in Registered(disk) : x[2] # k[2]
          <6>1. ASSUME NEW x \in Registered(disk), x[2] = k[2] PROVE FALSE
            <7>1. CASE x[2] = Bcct
                BY <3>1, <5>3, <6>1, <7>1 DEF Discovered
            <7>2. CASE x[2] # Bcct
              <8>1. PICK S : S = {y \in choice : y[2] = x[2]}
                  OBVIOUS
              <8>2. Cardinality(S) = 1
                  BY <3>1, <7>2, <8>1 DEF Discovered
              <8>3. S = {}
                  BY <5>3, <6>1, <8>1
              <8>4. Cardinality({}) = 0
                  BY FS_EmptySet
              <8>5. QED
                  BY <8>2, <8>3, <8>4
            <7>3. QED
                BY <7>1, <7>2
          <6>2. QED
              BY <6>1
        <5>5. Key(k)
            BY <3>5, <3>7 DEF Shape
        <5>6. PICK c : c = <<<<k[2], k[2]>>, k[2]>>
            OBVIOUS
        <5>7. k \in Registered(disk) \/ c \in Registered(disk)
            BY <4>1, <5>5, <5>6, ServesItsForm
        <5>8. QED
            BY <5>4, <5>6, <5>7
      <4>2. QED
          BY <3>4, <3>6, <4>1
    <3>10. (\E l \in parsed : l.slot = k[2])
               => new[k].review = (Unsettled(k[2], {new[k].form}) # {})
        BY <3>3, <3>5, <3>7, RecordReview
    <3>11. QED
        BY <3>8, <3>9, <3>10
  <2>2. QED
      BY <2>1
<1>2. QED
    BY <1>1, Inv, PTL DEF DocumentsSpec, GateOpensOnceConfirmed

-----------------------------------------------------------------------------
(* What the screen of the documents relies on                              *)

\* A load that stopped leaves no file shown as loaded; columns to be confirmed
\* are of a form that is known; and only settlement rows are in a book.
BadEnd == {"needs_review", "plan_error", "diagnosis_error"}
FormKnown(reg) == \A k \in DOMAIN reg : reg[k].review => reg[k].form # None
InBooks(S) == \A l \in S : l.book # None => l.slot \in Settlement

ScreenInv ==
    /\ latest \in BadEnd => \A k \in DOMAIN registry : registry[k].status # "ok"
    /\ FormKnown(registry)
    /\ InBooks(loaded)
    /\ ing.op = "load" => \A l \in ing.parsed : l.book = None

LEMMA ScreenInvInit == DocumentsInit => ScreenInv
BY DEF DocumentsInit, ScreenInv, FormKnown, InBooks, Free

LEMMA SyncFormKnown ==
    ASSUME NEW reg, NEW d, Shape(reg), FormKnown(reg)
    PROVE  FormKnown(sync_data_files(reg, d))
<1>1. NewRow.review = FALSE
    BY DEF NewRow
<1>2. QED
    BY <1>1, SyncShape DEF FormKnown

\* A reading says of a row the form it found, or nothing new of its columns.
LEMMA RecordForm ==
    ASSUME NEW reg, Shape(reg), NEW parsed, Readable(parsed), NEW skipped,
           NEW ok \in {"ok", "analyzed"}, NEW k \in DOMAIN reg
    PROVE  LET new == record_parse_result(reg, parsed, skipped, ok)
           IN  \/ new[k].review = reg[k].review /\ new[k].form = reg[k].form
               \/ new[k].form \in Content
<1>1. PICK forms : forms = {x.content : x \in {y \in parsed : y.slot = k[2]}}
    OBVIOUS
<1>2. PICK form, review : form = Provenance(k[2], forms)
                          /\ review = (Unsettled(k[2], {form}) # {})
    OBVIOUS
<1>3. PICK new : new = record_parse_result(reg, parsed, skipped, ok)
    OBVIOUS
<1>4. new[k] = IF forms = {} \/ k \in skipped THEN [reg[k] EXCEPT !.status = "error"]
               ELSE [reg[k] EXCEPT !.status = ok, !.form = form, !.review = review]
    BY <1>1, <1>2, <1>3 DEF record_parse_result
<1>5. reg[k] \in Row
    BY DEF Shape
<1>6. forms # {} => form \in Content
  <2>1. \A x \in parsed : x.content \in Content
      BY DEF Readable, Sources
  <2>2. forms # {} => form \in forms
      BY <1>2, ProvenanceIn
  <2>3. QED
      BY <1>1, <2>1, <2>2
<1>7. (new[k].review = reg[k].review /\ new[k].form = reg[k].form) \/ new[k].form \in Content
  <2>1. CASE forms = {} \/ k \in skipped
    <3>1. new[k] = [reg[k] EXCEPT !.status = "error"]
        BY <1>4, <2>1
    <3>2. QED
        BY <1>5, <3>1 DEF Row
  <2>2. CASE ~(forms = {} \/ k \in skipped)
    <3>1. new[k] = [reg[k] EXCEPT !.status = ok, !.form = form, !.review = review]
        BY <1>4, <2>2
    <3>2. new[k].form = form
        BY <1>5, <3>1 DEF Row
    <3>3. QED
        BY <1>6, <2>2, <3>2
  <2>3. QED
      BY <2>1, <2>2
<1>8. QED
    BY <1>3, <1>7

LEMMA RecordFormKnown ==
    ASSUME NEW reg, Shape(reg), FormKnown(reg), NEW parsed, Readable(parsed), NEW skipped,
           NEW ok \in {"ok", "analyzed"}
    PROVE  FormKnown(record_parse_result(reg, parsed, skipped, ok))
<1>1. PICK new : new = record_parse_result(reg, parsed, skipped, ok)
    OBVIOUS
<1>2. DOMAIN new = DOMAIN reg
    BY <1>1, RecordShape
<1>3. ASSUME NEW k \in DOMAIN reg
      PROVE  (new[k].review = reg[k].review /\ new[k].form = reg[k].form) \/ new[k].form \in Content
    BY <1>1, RecordForm
<1>4. QED
    BY <1>1, <1>2, <1>3, DocumentsAssumption DEF FormKnown

\* A setting leaves the forms and what is to be confirmed as they are.
LEMMA SettingsFormKnown ==
    ASSUME FilesTyped, FormKnown(registry), Settings
    PROVE  FormKnown(registry')
<1>1. \A k \in DOMAIN registry : registry[k] \in Row
    BY DEF FilesTyped, Shape
<1>2. ASSUME NEW k \in DOMAIN registry, NEW b, NEW sh
      PROVE  /\ [registry[k] EXCEPT !.book = b].review = registry[k].review
             /\ [registry[k] EXCEPT !.book = b].form = registry[k].form
             /\ [registry[k] EXCEPT !.sheet = sh].review = registry[k].review
             /\ [registry[k] EXCEPT !.sheet = sh].form = registry[k].form
    BY <1>1 DEF Row
<1>3. ASSUME NEW p \in Path, NEW b \in Book \cup {None}, SetBook(p, b)
      PROVE  FormKnown(registry')
    BY <1>2, <1>3 DEF SetBook, FormKnown
<1>4. ASSUME NEW k \in DOMAIN registry, NEW b \in Book \cup {None}, Confirm(k, b)
      PROVE  FormKnown(registry')
  <2>1. registry' = registry \/ registry' = [registry EXCEPT ![k] = [registry[k] EXCEPT !.book = b]]
      BY <1>4 DEF Confirm
  <2>2. /\ [registry[k] EXCEPT !.book = b].review = registry[k].review
        /\ [registry[k] EXCEPT !.book = b].form = registry[k].form
      BY <1>2
  <2>3. QED
      BY <2>1, <2>2 DEF FormKnown
<1>5. ASSUME NEW k \in DOMAIN registry, NEW sh \in {"auto", "pinned"}, PinSheet(k, sh)
      PROVE  FormKnown(registry')
  <2>1. registry' = [registry EXCEPT ![k] = [registry[k] EXCEPT !.sheet = sh]]
      BY <1>5 DEF PinSheet
  <2>2. QED
      BY <1>2, <2>1 DEF FormKnown
<1>6. QED
    BY <1>3, <1>4, <1>5 DEF Settings

LEMMA OfficerFormKnown ==
    ASSUME FilesTyped, FormKnown(registry), OfficerStep
    PROVE  FormKnown(registry')
<1>1. Shape(registry)
    BY DEF FilesTyped
<1>2. CASE Settings
    BY <1>2, SettingsFormKnown
<1>3. CASE Sync \/ View
    BY <1>1, <1>3, SyncFormKnown DEF Sync, View
<1>4. CASE DeleteCommit
    BY <1>4 DEF DeleteCommit, FormKnown
<1>5. CASE (Change \/ Drop \/ Continue \/ Press) /\ ~Sync /\ ~DeleteCommit
  <2>1. registry' = registry
      BY <1>5 DEF Change, Drop, CellOpen, SetType, SetTypeOfWaiting, DeleteUnlink, DropFile,
         DropUnknown, Continue, DropRefused, DropDone, CellWrite, CellRefused, Finish, Enqueue,
         RequestDies, Press
  <2>2. QED
      BY <2>1
<1>6. QED
    BY <1>2, <1>3, <1>4, <1>5 DEF OfficerStep

LEMMA ScreenInvNext ==
    ASSUME FilesTyped, WorkerOrder, ScreenInv, DocumentsNext
    PROVE  ScreenInv'
<1>1. Shape(registry)
    BY DEF FilesTyped
<1>2. CASE OfficerStep
  <2>1. FormKnown(registry')
      BY <1>2, OfficerFormKnown DEF ScreenInv
  <2>2. loaded' = loaded /\ ing' = ing /\ (latest' = latest \/ latest' = "queued")
        /\ OkShrinks(registry, registry')
      BY <1>2, OfficerSteps
  <2>3. QED
      BY <2>1, <2>2 DEF ScreenInv, BadEnd, OkShrinks
<1>3. CASE IngestStart
  <2>1. FormKnown(registry') /\ OkShrinks(registry, registry')
      BY <1>1, <1>3, SyncFormKnown, SyncShrinks DEF IngestStart, ScreenInv
  <2>2. loaded' = loaded /\ ing'.op = "analyse" /\ (latest' = latest \/ latest' = "running")
      BY <1>3 DEF IngestStart
  <2>3. QED
      BY <2>1, <2>2 DEF ScreenInv, BadEnd, OkShrinks
<1>4. ASSUME NEW choice \in Discovered(disk), IngestRefused(choice) \/ IngestAnalyse(choice)
      PROVE  ScreenInv'
  <2>2. Readable(Parsed(choice, disk, registry)) /\ Readable({})
      BY <1>1, ParsedReadable, EmptyReadable DEF Discovered
  <2>3. FormKnown(registry') /\ \A k \in DOMAIN registry' : registry'[k].status # "ok"
    <3>1. CASE IngestRefused(choice)
      <4>1. registry' = record_parse_result(registry, {}, {}, "ok")
          BY <3>1 DEF IngestRefused
      <4>2. PICK new : new = record_parse_result(registry, {}, {}, "ok")
          OBVIOUS
      <4>3. FormKnown(new) /\ DOMAIN new = DOMAIN registry
            /\ \A k \in DOMAIN registry : new[k].status # "ok"
          BY <1>1, <2>2, <4>2, RecordFormKnown, RecordShape DEF ScreenInv
      <4>4. QED
          BY <4>1, <4>2, <4>3
    <3>2. CASE IngestAnalyse(choice)
      <4>1. PICK new : new = record_parse_result(registry, Parsed(choice, disk, registry), {},
                                                 "analyzed")
          OBVIOUS
      <4>2. FormKnown(new) /\ DOMAIN new = DOMAIN registry
            /\ \A k \in DOMAIN registry : new[k].status # "ok"
          BY <1>1, <2>2, <4>1, RecordFormKnown, RecordShape DEF ScreenInv
      <4>3. QED
          BY <3>2, <4>1, <4>2 DEF IngestAnalyse, DryRun
    <3>3. QED
        BY <1>4, <3>1, <3>2
  <2>4. loaded' = loaded /\ (ing' = Free \/ ing'.op = "parse")
      BY <1>4 DEF IngestRefused, IngestAnalyse
  <2>5. QED
      BY <2>3, <2>4 DEF ScreenInv, Free
<1>5. ASSUME NEW choice \in Discovered(disk), IngestParse(choice)
      PROVE  ScreenInv'
  <2>1. registry' = registry /\ loaded' = loaded /\ latest' \in {latest, "failed"}
      BY <1>5 DEF IngestParse, Told
  <2>2. ing' = Free \/ ing'.parsed = Parsed(choice, disk, registry)
      BY <1>5 DEF IngestParse
  <2>3. \A l \in Parsed(choice, disk, registry) : l.book = None
      BY <1>1, ParsedReadable DEF Discovered
  <2>4. QED
      BY <2>1, <2>2, <2>3 DEF ScreenInv, BadEnd, Free
<1>6. CASE IngestLoad
  <2>1. registry' = registry /\ ing'.op # "load"
        /\ \A k \in DOMAIN registry : registry[k].status # "ok"
    <3>1. ing.op = "load" /\ registry' = registry
        BY <1>6 DEF IngestLoad
    <3>2. ing' = Free \/ ing'.op = "record"
        BY <1>6, <3>1, OpFacts DEF IngestLoad
    <3>3. QED
        BY <3>1, <3>2 DEF Free, WorkerOrder
  <2>2. InBooks(loaded')
    <3>1. \A l \in ing.parsed : l.book = None
        BY <1>6 DEF IngestLoad, ScreenInv
    <3>2. \A l \in Planned : l.slot \in Settlement
        BY DEF Planned, Current, Source, SettlementRows
    <3>3. loaded' = loaded \/ loaded' \subseteq Planned \cup ing.parsed
        BY <1>6 DEF IngestLoad
    <3>4. QED
        BY <3>1, <3>2, <3>3 DEF InBooks, ScreenInv
  <2>3. QED
      BY <2>1, <2>2 DEF ScreenInv
<1>7. CASE IngestRecord
  <2>1. latest' \notin BadEnd
      BY <1>7 DEF IngestRecord, Told, WorkerOrder, BadEnd
  <2>2. FormKnown(registry')
    <3>1. ing.op \in {"load", "record"}
        BY <1>7 DEF IngestRecord
    <3>2. Readable(ing.parsed)
        BY <3>1, OpFacts
    <3>3. QED
        BY <1>1, <1>7, <3>2, RecordFormKnown DEF IngestRecord, ScreenInv
  <2>3. ing'.op # "load" /\ loaded' = loaded
      BY <1>7 DEF IngestRecord, Free
  <2>4. QED
      BY <2>1, <2>2, <2>3 DEF ScreenInv
<1>8. CASE IngestDies
  <2>1. registry' = registry /\ loaded' = loaded /\ latest' \in {latest, "failed"} /\ ing' = Free
      BY <1>8 DEF IngestDies, Told
  <2>2. QED
      BY <2>1 DEF ScreenInv, BadEnd, Free
<1>9. QED
    BY <1>2, <1>3, <1>4, <1>5, <1>6, <1>7, <1>8 DEF DocumentsNext, OfficerStep, Ingest

-----------------------------------------------------------------------------
(* What the lines of the screen are                                        *)

LEMMA LineFields ==
    ASSUME NEW kind, NEW key, NEW codes, NEW remedy, NEW action
    PROVE  LET l == Line(kind, key, codes, remedy, action)
           IN  l.kind = kind /\ l.key = key /\ l.codes = codes /\ l.action = action
BY DEF Line

\* A check lacks data: its own gate stops it, or one of its sources is not there.
LEMMA BlockedIs ==
    ASSUME NEW a \in Around, NEW present, NEW c \in Check \cup Added, NEW v,
           v = predict_check(c, present, a), v.status = "blocked"
    PROVE  \/ requires[c] \subseteq present
           \/ \E s \in Slot \ present : v.outcome.target = <<"document", s>>
<1>1. c \notin Added
    BY DEF predict_check, Predicted
<1>2. requires[c] \subseteq Slot
    BY <1>1, DataScreenAssumption
<1>3. CASE ~(requires[c] \subseteq present)
  <2>1. PICK missing : missing = requires[c] \ present
      OBVIOUS
  <2>2. PICK found : found = {i \in DOMAIN Alphabetical : Alphabetical[i] \in missing}
      OBVIOUS
  <2>3. PICK first : first = CHOOSE i \in found : \A j \in found : i <= j
      OBVIOUS
  <2>4. v.outcome.target = <<"document", Alphabetical[first]>>
      BY <1>1, <1>3, <2>1, <2>2, <2>3 DEF predict_check, Predicted, classify_missing_sources
  <2>5. first \in found
    <3>1. found \in SUBSET Nat /\ IsFiniteSet(found)
      <4>1. Len(Alphabetical) \in Nat /\ DOMAIN Alphabetical = 1 .. Len(Alphabetical)
          BY DataScreenAssumption
      <4>2. IsFiniteSet(1 .. Len(Alphabetical))
          BY <4>1, FS_Interval
      <4>3. found \subseteq 1 .. Len(Alphabetical)
          BY <2>2, <4>1
      <4>4. IsFiniteSet(found)
          BY <4>2, <4>3, FS_Subset
      <4>5. found \subseteq Nat
          BY <4>1, <4>3
      <4>6. QED
          BY <4>4, <4>5
    <3>2. found # {}
      <4>1. PICK s \in missing : s \in Slot
          BY <1>2, <1>3, <2>1
      <4>2. \E i \in DOMAIN Alphabetical : Alphabetical[i] = s
          BY <4>1, DataScreenAssumption
      <4>3. QED
          BY <2>2, <4>1, <4>2
    <3>3. \E i \in found : \A j \in found : i <= j
        BY <3>1, <3>2, SmallestExists
    <3>4. QED
        BY <2>3, <3>3
  <2>6. Alphabetical[first] \in Slot \ present
      BY <1>2, <2>1, <2>2, <2>5
  <2>7. QED
      BY <2>4, <2>6
<1>4. QED
    BY <1>3

\* A slot with files is ready, or stale over rows, or has a line of its own.
LEMMA SlotIs ==
    ASSUME NEW reg, NEW present, NEW slots, slots = _slot_statuses(reg, present), NEW s \in Slot
    PROVE  /\ slots[s].stale = StaleSlot(reg, s, s \in present)
           /\ FilesOf(reg, s) # {} /\ slots[s].state \notin FileLevel =>
                 /\ s \in present
                 /\ ~(s \in Settlement /\ book_assignment_error(reg))
           /\ slots[s].state = "needs-column-review" =>
                 /\ review_gate_for_files(reg) # {}
                 /\ slots[s].files = review_gate_for_files(reg)
<1>1. PICK state : state = _slot_state(reg, s, s \in present)
    OBVIOUS
<1>2. slots[s] = [state |-> state, has_rows |-> s \in present,
                  stale |-> StaleSlot(reg, s, s \in present),
                  files |-> IF state = "needs-column-review" THEN review_gate_for_files(reg)
                                                             ELSE FilesOf(reg, s)]
    BY <1>1 DEF _slot_statuses
<1>3. FilesOf(reg, s) # {} => StatusesOf(reg, s) # {}
    BY DEF StatusesOf
<1>4. StatusesOf(reg, s) # {} /\ state \notin FileLevel =>
          s \in present /\ ~(s \in Settlement /\ book_assignment_error(reg))
    BY <1>1 DEF _slot_state, FileLevel
<1>5. state = "needs-column-review" => review_gate_for_files(reg) # {}
    BY <1>1 DEF _slot_state
<1>6. QED
    BY <1>2, <1>3, <1>4, <1>5

\* The checks that lack data, and those of them a line for a slot stands for.
Blocked(verdicts) == {c \in DOMAIN verdicts : verdicts[c].status = "blocked"}
Taken(slots, verdicts) == UNION {l.codes : l \in FileLines(slots, verdicts)}
Left(slots, verdicts) == Blocked(verdicts) \ Taken(slots, verdicts)

FileLineOf(slots, verdicts, s) ==
    Line("file", s, Absorbed(verdicts, s), None, _file_action(slots[s]))
CheckLineOf(slots, verdicts, o) ==
    Line("check", o, {c \in Left(slots, verdicts) : verdicts[c].outcome = o}, o.remedy,
         _check_action(o.target))

LEMMA FileLinesAre ==
    ASSUME NEW slots, NEW verdicts
    PROVE  FileLines(slots, verdicts) =
               {FileLineOf(slots, verdicts, s) : s \in {t \in Slot : slots[t].state \in FileLevel}}
BY DEF FileLines, FileLineOf

LEMMA CheckLinesAre ==
    ASSUME NEW slots, NEW verdicts
    PROVE  CheckLines(slots, verdicts) =
               {CheckLineOf(slots, verdicts, o) :
                   o \in {verdicts[c].outcome : c \in Left(slots, verdicts)}}
BY DEF CheckLines, CheckLineOf, Left, Blocked, Taken

LEMMA OtherLines ==
    ASSUME NEW slots, NEW verdicts, NEW a, NEW l \in _blockers(slots, verdicts, a)
    PROVE  \/ l \in FileLines(slots, verdicts)
           \/ l \in CheckLines(slots, verdicts)
           \/ l.kind = "file" /\ l.codes = {} /\ l.action = <<"ingest">>
           \/ l.kind = "coverage" /\ l.codes = {}
<1>1. l \in _stale_blocker(slots) => l.kind = "file" /\ l.codes = {} /\ l.action = <<"ingest">>
    BY LineFields DEF _stale_blocker
<1>2. l \in _coverage_blockers(a) => l.kind = "coverage" /\ l.codes = {}
    BY LineFields DEF _coverage_blockers
<1>3. QED
    BY <1>1, <1>2 DEF _blockers

\* A line stands for checks that lack data; one for a slot for those whose
\* remedy is a file of it.
LEMMA CodesOf ==
    ASSUME NEW slots, NEW verdicts, NEW a, NEW l \in _blockers(slots, verdicts, a),
           NEW c \in l.codes
    PROVE  \/ /\ l \in FileLines(slots, verdicts)
              /\ c \in Blocked(verdicts)
              /\ \E s \in Slot : l = FileLineOf(slots, verdicts, s)
                                 /\ verdicts[c].outcome.target = <<"document", s>>
           \/ /\ c \in Left(slots, verdicts)
              /\ l = CheckLineOf(slots, verdicts, verdicts[c].outcome)
<1>1. CASE l \in FileLines(slots, verdicts)
  <2>1. PICK s \in Slot : l = FileLineOf(slots, verdicts, s)
      BY <1>1, FileLinesAre
  <2>2. l.codes = Absorbed(verdicts, s)
      BY <2>1, LineFields DEF FileLineOf
  <2>3. QED
      BY <1>1, <2>1, <2>2 DEF Absorbed, Blocked
<1>2. CASE l \in CheckLines(slots, verdicts)
  <2>1. PICK o : l = CheckLineOf(slots, verdicts, o)
      BY <1>2, CheckLinesAre
  <2>2. l.codes = {b \in Left(slots, verdicts) : verdicts[b].outcome = o}
      BY <2>1, LineFields DEF CheckLineOf
  <2>3. QED
      BY <2>1, <2>2
<1>3. QED
    BY <1>1, <1>2, OtherLines

-----------------------------------------------------------------------------
(* The four promises of the list                                           *)

\* A file is asked for of a slot that has none, or by a gate.
LEMMA NeverOneThatIsThere ==
    ASSUME NEW reg, NEW present, NEW a \in Around,
           NEW slots, slots = _slot_statuses(reg, present),
           NEW verdicts,
           verdicts = [c \in Check \cup Added |-> predict_check(c, present, a)],
           NEW l \in _blockers(slots, verdicts, a), l.kind = "check", l.action[1] = "upload"
    PROVE  FilesOf(reg, l.action[2]) = {} \/ \A c \in l.codes : requires[c] \subseteq present
<1> SUFFICES ASSUME NEW c \in l.codes, ~(requires[c] \subseteq present)
             PROVE  FilesOf(reg, l.action[2]) = {}
    OBVIOUS
<1>1. c \in Left(slots, verdicts) /\ l = CheckLineOf(slots, verdicts, verdicts[c].outcome)
  <2>1. ASSUME NEW s, l = FileLineOf(slots, verdicts, s) PROVE FALSE
    <3>1. l.kind = "file"
        BY <2>1, LineFields DEF FileLineOf
    <3>2. QED
        BY <3>1
  <2>2. l \in _blockers(slots, verdicts, a) /\ c \in l.codes
      OBVIOUS
  <2>3. \/ \E s \in Slot : l = FileLineOf(slots, verdicts, s)
        \/ /\ c \in Left(slots, verdicts)
           /\ l = CheckLineOf(slots, verdicts, verdicts[c].outcome)
      BY <2>2, CodesOf
  <2>4. QED
      BY <2>1, <2>3
<1>2. c \in Check \cup Added /\ verdicts[c] = predict_check(c, present, a)
      /\ verdicts[c].status = "blocked" /\ c \in DOMAIN verdicts
    BY <1>1 DEF Left, Blocked
<1>3. PICK s \in Slot \ present : verdicts[c].outcome.target = <<"document", s>>
    BY <1>2, BlockedIs
<1>4. l.action = <<"upload", s>>
  <2>1. l.action = _check_action(verdicts[c].outcome.target)
      BY <1>1, LineFields DEF CheckLineOf
  <2>2. _check_action(<<"document", s>>) = <<"upload", s>>
      BY DEF _check_action
  <2>3. QED
      BY <1>3, <2>1, <2>2
<1>5. ASSUME FilesOf(reg, s) # {} PROVE FALSE
  <2>1. slots[s].state \in FileLevel
      BY <1>3, <1>5, SlotIs
  <2>2. FileLineOf(slots, verdicts, s) \in FileLines(slots, verdicts)
      BY <2>1, FileLinesAre
  <2>3. c \in Absorbed(verdicts, s)
      BY <1>2, <1>3 DEF Absorbed
  <2>4. FileLineOf(slots, verdicts, s).codes = Absorbed(verdicts, s)
      BY LineFields DEF FileLineOf
  <2>5. c \in Taken(slots, verdicts)
      BY <2>2, <2>3, <2>4 DEF Taken
  <2>6. QED
      BY <1>1, <2>5 DEF Left
<1>6. QED
    BY <1>4, <1>5

\* A check that lacks data is in one line, and no other check is in any.
LEMMA InOneLine ==
    ASSUME NEW slots, NEW verdicts, NEW a, NEW c \in DOMAIN verdicts
    PROVE  Cardinality({l \in _blockers(slots, verdicts, a) : c \in l.codes}) =
               IF verdicts[c].status = "blocked" THEN 1 ELSE 0
<1>1. PICK lines : lines = {l \in _blockers(slots, verdicts, a) : c \in l.codes}
    OBVIOUS
<1>2. CASE c \notin Blocked(verdicts)
  <2>1. lines = {}
      BY <1>1, <1>2, CodesOf DEF Left
  <2>2. Cardinality({}) = 0
      BY FS_EmptySet
  <2>3. QED
      BY <1>1, <1>2, <2>1, <2>2 DEF Blocked
<1>3. CASE c \in Blocked(verdicts)
  <2>1. \E l \in lines : \A k \in lines : k = l
    <3>1. CASE c \in Taken(slots, verdicts)
      <4>1. PICK l \in FileLines(slots, verdicts) : c \in l.codes
          BY <3>1 DEF Taken
      <4>2. l \in lines
          BY <1>1, <4>1 DEF _blockers
      <4>3. ASSUME NEW k \in lines PROVE k = l
        <5>1. \A x \in lines : \E s \in Slot : x = FileLineOf(slots, verdicts, s)
                                  /\ verdicts[c].outcome.target = <<"document", s>>
            BY <1>1, <3>1, CodesOf DEF Left
        <5>2. PICK s \in Slot : l = FileLineOf(slots, verdicts, s)
                                /\ verdicts[c].outcome.target = <<"document", s>>
            BY <4>2, <5>1
        <5>3. PICK t \in Slot : k = FileLineOf(slots, verdicts, t)
                                /\ verdicts[c].outcome.target = <<"document", t>>
            BY <5>1
        <5>4. s = t
            BY <5>2, <5>3
        <5>5. QED
            BY <5>2, <5>3, <5>4
      <4>4. QED
          BY <4>2, <4>3
    <3>2. CASE c \in Left(slots, verdicts)
      <4>1. PICK l : l = CheckLineOf(slots, verdicts, verdicts[c].outcome)
          OBVIOUS
      <4>2. l \in CheckLines(slots, verdicts)
          BY <3>2, <4>1, CheckLinesAre
      <4>3. c \in l.codes
          BY <3>2, <4>1, LineFields DEF CheckLineOf
      <4>4. l \in lines
          BY <1>1, <4>2, <4>3 DEF _blockers
      <4>5. ASSUME NEW k \in lines PROVE k = l
        <5>1. k \notin FileLines(slots, verdicts)
            BY <1>1, <3>2 DEF Left, Taken
        <5>2. QED
            BY <1>1, <4>1, <5>1, CodesOf
      <4>6. QED
          BY <4>4, <4>5
    <3>3. QED
        BY <1>3, <3>1, <3>2 DEF Left
  <2>2. PICK l : lines = {l}
      BY <2>1
  <2>3. Cardinality({l}) = 1
      BY FS_Singleton
  <2>4. QED
      BY <1>1, <1>3, <2>2, <2>3 DEF Blocked
<1>4. QED
    BY <1>2, <1>3

\* Files whose load stopped, or whose books would stop one, are spoken of.
LEMMA FilesAreSpokenOf ==
    ASSUME NEW reg, Shape(reg), InBooks(loaded), Readable(loaded), NEW present, NEW a,
           \A s \in Settlement : Rows(s) # {} => s \in present,
           NEW slots, slots = _slot_statuses(reg, present), NEW verdicts, DOMAIN reg # {},
           (\A k \in DOMAIN reg : reg[k].status # "ok") \/ book_assignment_error(reg)
    PROVE  \E l \in _blockers(slots, verdicts, a) : l.kind = "file"
<1> SUFFICES ASSUME \A s \in Slot : slots[s].state \notin FileLevel /\ ~slots[s].stale
             PROVE  FALSE
  <2>1. ASSUME NEW s \in Slot, slots[s].state \in FileLevel
        PROVE  \E l \in _blockers(slots, verdicts, a) : l.kind = "file"
    <3>1. FileLineOf(slots, verdicts, s) \in _blockers(slots, verdicts, a)
        BY <2>1, FileLinesAre DEF _blockers
    <3>2. FileLineOf(slots, verdicts, s).kind = "file"
        BY LineFields DEF FileLineOf
    <3>3. QED
        BY <3>1, <3>2
  <2>2. ASSUME NEW s \in Slot, slots[s].stale
        PROVE  \E l \in _blockers(slots, verdicts, a) : l.kind = "file"
    <3>1. Line("file", "stale", {}, None, <<"ingest">>) \in _blockers(slots, verdicts, a)
        BY <2>2 DEF _blockers, _stale_blocker
    <3>2. QED
        BY <3>1, LineFields
  <2>3. QED
      BY <2>1, <2>2
<1>1. ASSUME NEW k \in DOMAIN reg
      PROVE  reg[k].status = "ok" /\ ~(k[2] \in Settlement /\ book_assignment_error(reg))
  <2>1. k[2] \in Slot /\ k \in FilesOf(reg, k[2])
      BY DEF Shape, Key, FilesOf
  <2>2. PICK s \in Slot : s = k[2]
      BY <2>1
  <2>3. s \in present /\ ~(s \in Settlement /\ book_assignment_error(reg))
      BY <2>1, <2>2, SlotIs
  <2>4. ~StaleSlot(reg, s, s \in present)
      BY <2>2, SlotIs
  <2>5. StatusesOf(reg, s) = {"ok"}
      BY <2>3, <2>4 DEF StaleSlot
  <2>6. reg[k].status \in StatusesOf(reg, s)
      BY <2>1, <2>2 DEF StatusesOf
  <2>7. QED
      BY <2>2, <2>3, <2>5, <2>6
<1>2. book_assignment_error(reg)
    BY <1>1
<1>3. SettlementRows(reg) = {}
    BY <1>1, <1>2 DEF SettlementRows
<1>4. PICK l \in loaded : l.book # None
    BY <1>2, <1>3 DEF book_assignment_error, Tagged
<1>5. PICK s \in Settlement : s = l.slot
    BY <1>4 DEF InBooks
<1>6. s \in present /\ s \in Slot
    BY <1>4, <1>5 DEF Rows, Slot
<1>7. FilesOf(reg, s) = {}
    BY <1>3, <1>5 DEF FilesOf, SettlementRows
<1>8. slots[s].stale
    BY <1>6, <1>7, SlotIs DEF StaleSlot
<1>9. QED
    BY <1>6, <1>8

\* A line about columns opens files with columns that can be confirmed.
LEMMA OpensWhatCanBeConfirmed ==
    ASSUME NEW reg, FormKnown(reg), NEW present, NEW a,
           NEW slots, slots = _slot_statuses(reg, present), NEW verdicts,
           NEW l \in _blockers(slots, verdicts, a), l.kind = "file", l.key \in Slot,
           l.action[1] = "open_file", slots[l.key].state = "needs-column-review"
    PROVE  l.action[2] # {} /\ \A k \in l.action[2] : reg[k].review /\ can_confirm(reg, k)
<1>1. l \in FileLines(slots, verdicts)
  <2>1. l \notin CheckLines(slots, verdicts)
    <3>1. \A o : CheckLineOf(slots, verdicts, o).kind = "check"
        BY LineFields DEF CheckLineOf
    <3>2. QED
        BY <3>1, CheckLinesAre
  <2>2. l.action # <<"ingest">>
    <3>1. <<"ingest">>[1] = "ingest"
        OBVIOUS
    <3>2. QED
        BY <3>1
  <2>3. QED
      BY <2>1, <2>2, OtherLines
<1>2. PICK s \in Slot : l = FileLineOf(slots, verdicts, s)
    BY <1>1, FileLinesAre
<1>3. l.key = s /\ l.action = _file_action(slots[s])
    BY <1>2, LineFields DEF FileLineOf
<1>4. l.action[2] = slots[s].files
    BY <1>3 DEF _file_action
<1>5. review_gate_for_files(reg) # {} /\ slots[s].files = review_gate_for_files(reg)
    BY <1>3, SlotIs
<1>6. QED
    BY <1>4, <1>5 DEF review_gate_for_files, can_confirm, FormKnown

-----------------------------------------------------------------------------
LEMMA ScreenInvariant == DocumentsSpec => [](IInv /\ ScreenInv)
<1>1. DocumentsInit => ScreenInv
    BY ScreenInvInit
<1>2. IInv /\ ScreenInv /\ [DocumentsNext]_documentVars => ScreenInv'
  <2>1. ASSUME IInv, ScreenInv, DocumentsNext PROVE ScreenInv'
      BY <2>1, ScreenInvNext DEF IInv
  <2>2. ASSUME ScreenInv, UNCHANGED documentVars PROVE ScreenInv'
      BY <2>2 DEF ScreenInv, FormKnown, InBooks, documentVars, worker, files
  <2>3. QED
      BY <2>1, <2>2
<1>3. QED
    BY <1>1, <1>2, Inv, PTL DEF DocumentsSpec

\* The list of what is to be done is about the period as it is, at every
\* moment of uploads, settings and loads: no file is asked for that is there,
\* a check that lacks data is in one line, files that stopped a load are
\* spoken of, and columns can be confirmed where the line leads (readiness.py,
\* data_screen.py).
THEOREM WorkListIsTrue == DocumentsSpec => []WorkListTrue
<1>1. IInv /\ ScreenInv => WorkListTrue
  <2> SUFFICES ASSUME IInv, ScreenInv, NEW a \in Around,
                      build_data_screen(a) # NoRowYet
               PROVE
        LET reg == sync_data_files(registry, disk)
            present == available_sources(a)
            row == build_data_screen(a)
            lines == row.readiness.lines
            verdicts == row.readiness.verdicts
            aboutFiles == {l \in lines : l.kind = "file"}
        IN  /\ \A l \in lines :
                (l.kind = "check" /\ l.action[1] = "upload") =>
                    \/ FilesOf(reg, l.action[2]) = {}
                    \/ \A c \in l.codes : requires[c] \subseteq present
            /\ \A c \in DOMAIN verdicts :
                Cardinality({l \in lines : c \in l.codes}) =
                    (IF verdicts[c].status = "blocked" THEN 1 ELSE 0)
            /\ (DOMAIN reg # {} /\
                (\/ latest \in {"needs_review", "plan_error", "diagnosis_error"}
                 \/ book_assignment_error(reg))) => aboutFiles # {}
            /\ \A l \in aboutFiles :
                (l.key \in Slot /\ l.action[1] = "open_file"
                 /\ row.readiness.slots[l.key].state = "needs-column-review") =>
                    l.action[2] # {} /\ \A k \in l.action[2] :
                        reg[k].review /\ can_confirm(reg, k)
      BY DEF WorkListTrue
  <2>1. PICK reg : reg = sync_data_files(registry, disk)
      OBVIOUS
  <2>2. PICK present : present = available_sources(a)
      OBVIOUS
  <2>3. PICK verdicts : verdicts = [c \in Check \cup Added |-> predict_check(c, present, a)]
      OBVIOUS
  <2>4. PICK slots : slots = _slot_statuses(reg, present)
      OBVIOUS
  <2>5. PICK lines : lines = _blockers(slots, verdicts, a)
      OBVIOUS
  <2>6. PICK row : row = build_data_screen(a)
      OBVIOUS
  <2>7. row.readiness.lines = lines /\ row.readiness.verdicts = verdicts
        /\ row.readiness.slots = slots
    <3>1. row = _period_row(reg, a)
        BY <2>1, <2>6 DEF build_data_screen
    <3>2. row.readiness = period_readiness(reg, a)
        BY <3>1 DEF _period_row
    <3>3. QED
        BY <2>2, <2>3, <2>4, <2>5, <3>2 DEF period_readiness
  <2>8. Shape(reg) /\ FormKnown(reg) /\ OkShrinks(registry, reg)
      BY <2>1, SyncShape, SyncFormKnown, SyncShrinks DEF IInv, FilesTyped, ScreenInv
  <2>9. ASSUME NEW l \in lines, l.kind = "check", l.action[1] = "upload"
        PROVE  FilesOf(reg, l.action[2]) = {} \/ \A c \in l.codes : requires[c] \subseteq present
      BY <2>3, <2>4, <2>5, <2>9, NeverOneThatIsThere
  <2>10. ASSUME NEW c \in DOMAIN verdicts
         PROVE  Cardinality({l \in lines : c \in l.codes}) =
                    (IF verdicts[c].status = "blocked" THEN 1 ELSE 0)
      BY <2>5, InOneLine
  <2>11. ASSUME DOMAIN reg # {},
                \/ latest \in {"needs_review", "plan_error", "diagnosis_error"}
                \/ book_assignment_error(reg)
         PROVE  \E l \in lines : l.kind = "file"
    <3>1. (\A k \in DOMAIN reg : reg[k].status # "ok") \/ book_assignment_error(reg)
        BY <2>8, <2>11 DEF ScreenInv, BadEnd, OkShrinks
    <3>2. \A s \in Settlement : Rows(s) # {} => s \in present
        BY <2>2 DEF available_sources
    <3>3. InBooks(loaded) /\ Readable(loaded)
        BY DEF IInv, FilesTyped, ScreenInv
    <3>4. QED
        BY <2>4, <2>5, <2>8, <2>11, <3>1, <3>2, <3>3, FilesAreSpokenOf
  <2>12. ASSUME NEW l \in lines, l.kind = "file", l.key \in Slot, l.action[1] = "open_file",
                slots[l.key].state = "needs-column-review"
         PROVE  l.action[2] # {} /\ \A k \in l.action[2] : reg[k].review /\ can_confirm(reg, k)
      BY <2>4, <2>5, <2>8, <2>12, OpensWhatCanBeConfirmed
  <2>13. QED
      BY <2>1, <2>2, <2>6, <2>7, <2>9, <2>10, <2>11, <2>12
<1>2. QED
    BY <1>1, ScreenInvariant, PTL

-----------------------------------------------------------------------------
(* Columns: what a read is                                                 *)

Cols == UNION {[S -> SUBSET Column] : S \in SUBSET Field}
SavedMap == [map : Cols, absent : SUBSET Field]

LEMMA ColsIn ==
    ASSUME NEW S \in SUBSET Field, NEW c \in [S -> SUBSET Column]
    PROVE  c \in Cols
BY DEF Cols

LEMMA ColsOf ==
    ASSUME NEW c \in Cols
    PROVE  /\ DOMAIN c \in SUBSET Field /\ c \in [DOMAIN c -> SUBSET Column]
           /\ \A f \in DOMAIN c : f \in Field /\ c[f] \in SUBSET Column
<1>1. PICK S \in SUBSET Field : c \in [S -> SUBSET Column]
    BY DEF Cols
<1>2. QED
    BY <1>1

IsRead(r) ==
    /\ r = [workbook |-> r.workbook, layout |-> r.layout, cols |-> r.cols,
            evidence |-> r.evidence, gone |-> r.gone]
    /\ r.workbook \in Workbook /\ r.layout \in {"standard", "extended"} /\ r.cols \in Cols

\* What the marks of a read and its balance say of the map it was read with.
ReadBy(r, w, maps) ==
    /\ IsRead(r) /\ r.workbook = w /\ r.gone = {}
    /\ \A f \in DOMAIN r.cols : r.evidence[f] = "officer" =>
          f \in DOMAIN maps[signature[w]].map /\ maps[signature[w]].map[f] = r.cols[f]
    /\ r.layout = "extended" => Balanced(w, r.cols)

LEMMA OfficerCols ==
    ASSUME NEW w \in Workbook, NEW maps \in [Signature -> SavedMap], NEW known
    PROVE  LET groups == officer_column_groups(w, maps, known)
               map == maps[signature[w]].map
           IN  /\ DOMAIN groups \in SUBSET (DOMAIN map \cap known)
               /\ DOMAIN groups \in SUBSET Field
               /\ \A f \in DOMAIN groups : groups[f] = map[f] /\ groups[f] \in SUBSET Column
<1>1. signature[w] \in Signature
    BY ColumnsAssumption
<1>2. maps[signature[w]].map \in Cols
    BY <1>1 DEF SavedMap
<1>3. PICK map \in Cols : map = maps[signature[w]].map
    BY <1>2
<1>4. officer_column_groups(w, maps, known) = [f \in DOMAIN map \cap known |-> map[f]]
    BY <1>3 DEF officer_column_groups
<1>5. QED
    BY <1>3, <1>4, ColsOf

\* The officer's columns are put over others.
LEMMA OverCols ==
    ASSUME NEW officer, NEW cols, DOMAIN cols \in SUBSET Field,
           \A f \in DOMAIN cols : cols[f] \in SUBSET Column,
           \A f \in DOMAIN officer : officer[f] \in SUBSET Column,
           NEW over, over = Over(officer, cols)
    PROVE  /\ over \in Cols /\ DOMAIN over = DOMAIN cols
           /\ \A f \in DOMAIN cols :
                 /\ f \in DOMAIN officer => over[f] = officer[f]
                 /\ f \notin DOMAIN officer => over[f] = cols[f]
<1>1. over = [f \in DOMAIN cols |-> IF f \in DOMAIN officer THEN officer[f] ELSE cols[f]]
    BY DEF Over
<1>2. over \in [DOMAIN cols -> SUBSET Column]
    BY <1>1
<1>3. QED
    BY <1>1, <1>2, ColsIn

LEMMA ReadAsIs ==
    ASSUME NEW w \in Workbook, NEW layout \in {"standard", "extended"}, NEW cols \in Cols, NEW e
    PROVE  LET r == ReadAs(w, layout, cols, e)
           IN  /\ IsRead(r) /\ r.workbook = w /\ r.layout = layout /\ r.cols = cols
               /\ r.evidence = e /\ r.gone = {} /\ r # Refused
<1>1. PICK r : r = ReadAs(w, layout, cols, e)
    OBVIOUS
<1>2. r = [workbook |-> w, layout |-> layout, cols |-> cols, evidence |-> e, gone |-> {}]
    BY <1>1 DEF ReadAs
<1>3. Refused.layout = "refused"
    BY DEF Refused
<1>4. IsRead(r) /\ r.workbook = w /\ r.layout = layout /\ r.cols = cols
      /\ r.evidence = e /\ r.gone = {} /\ r # Refused
    BY <1>2, <1>3 DEF IsRead
<1>5. QED
    BY <1>1, <1>4

\* A mark that is not the officer's says so.
LEMMA MarkedOfficer ==
    ASSUME NEW evidence, NEW officer, NEW f \in DOMAIN evidence,
           evidence[f] # "officer", Marked(evidence, officer)[f] = "officer"
    PROVE  f \in DOMAIN officer
BY DEF Marked

LEMMA StandardReadIs ==
    ASSUME NEW w \in Workbook, NEW maps \in [Signature -> SavedMap]
    PROVE  ReadBy(StandardRead(w, maps), w, maps) /\ StandardRead(w, maps).layout = "standard"
<1>1. PICK groups : groups = officer_column_groups(w, maps, Field)
    OBVIOUS
<1>2. PICK officer : officer = [f \in {g \in DOMAIN groups : Cardinality(groups[g]) = 1} |-> groups[f]]
    OBVIOUS
<1>3. PICK cols : cols = Over(officer, [f \in Field |-> {default[f]}])
    OBVIOUS
<1>4. PICK e : e = StandardEvidence(w, cols)
    OBVIOUS
<1>5. PICK r : r = StandardRead(w, maps)
    OBVIOUS
<1>6. r = ReadAs(w, "standard", cols, Marked(e, officer))
    BY <1>1, <1>2, <1>3, <1>4, <1>5 DEF StandardRead
<1>7. PICK map : map = maps[signature[w]].map
    OBVIOUS
<1>8. \A f \in DOMAIN officer : /\ f \in DOMAIN map /\ officer[f] = map[f]
                                /\ officer[f] \in SUBSET Column
    BY <1>1, <1>2, <1>7, OfficerCols
<1>9. /\ cols \in Cols /\ DOMAIN cols = Field
      /\ \A f \in Field : f \in DOMAIN officer => cols[f] = officer[f]
  <2>1. PICK d : d = [f \in Field |-> {default[f]}]
      OBVIOUS
  <2>2. DOMAIN d = Field /\ \A f \in Field : d[f] \in SUBSET Column
      BY <2>1, ColumnsAssumption
  <2>3. /\ DOMAIN d \in SUBSET Field /\ \A f \in DOMAIN d : d[f] \in SUBSET Column
        /\ \A f \in DOMAIN officer : officer[f] \in SUBSET Column
        /\ cols = Over(officer, d)
      BY <1>3, <1>8, <2>1, <2>2
  <2>4. QED
      BY <2>2, <2>3, OverCols
<1>10. /\ r.workbook = w /\ r.gone = {} /\ r.layout = "standard" /\ IsRead(r)
       /\ r.cols = cols /\ r.evidence = Marked(e, officer)
    BY <1>6, <1>9, ReadAsIs
<1>11. ASSUME NEW f \in DOMAIN cols, r.evidence[f] = "officer"
       PROVE  f \in DOMAIN map /\ map[f] = cols[f]
  <2>1. f \in DOMAIN e /\ e[f] # "officer"
      BY <1>4, <1>11 DEF StandardEvidence
  <2>2. f \in DOMAIN officer
      BY <1>10, <1>11, <2>1, MarkedOfficer
  <2>3. QED
      BY <1>8, <1>9, <2>2
<1>12. QED
    BY <1>5, <1>7, <1>10, <1>11 DEF ReadBy

\* The balance looks at the columns of each field only.
LEMMA SameBalance ==
    ASSUME NEW w, NEW a, NEW b, Balanced(w, a), DOMAIN a = DOMAIN b,
           \A f \in DOMAIN a : a[f] = b[f]
    PROVE  Balanced(w, b)
<1>1. ASSUME NEW fields PROVE Summed(w, a, fields) = Summed(w, b, fields)
  <2>1. {a[f] : f \in fields \cap DOMAIN a} = {b[f] : f \in fields \cap DOMAIN b}
      OBVIOUS
  <2>2. QED
      BY <2>1 DEF Summed
<1>2. QED
    BY <1>1 DEF Balanced

LEMMA ExtendedReadIs ==
    ASSUME NEW w \in Workbook, NEW maps \in [Signature -> SavedMap], resolve(w),
           ExtendedRead(w, maps) # Refused
    PROVE  ReadBy(ExtendedRead(w, maps), w, maps)
<1>1. PICK S : S = DOMAIN numbering[w]
    OBVIOUS
<1>2. S \in SUBSET Field /\ \A f \in S : numbering[w][f] \in SUBSET Column
    BY <1>1, ColumnsAssumption
<1>3. PICK officer : officer = officer_column_groups(w, maps, S)
    OBVIOUS
<1>4. PICK cols : cols = Over(officer, numbering[w])
    OBVIOUS
<1>5. PICK e : e = [f \in DOMAIN cols |-> "balance"]
    OBVIOUS
<1>6. PICK r : r = ExtendedRead(w, maps)
    OBVIOUS
<1>7. PICK map : map = maps[signature[w]].map
    OBVIOUS
<1>8. \A f \in DOMAIN officer : /\ f \in DOMAIN map /\ officer[f] = map[f]
                                /\ officer[f] \in SUBSET Column
    BY <1>3, <1>7, OfficerCols
<1>9. /\ cols \in Cols /\ DOMAIN cols = S
      /\ \A f \in S : /\ f \in DOMAIN officer => cols[f] = officer[f]
                      /\ f \notin DOMAIN officer => cols[f] = numbering[w][f]
  <2>1. PICK d : d = numbering[w]
      OBVIOUS
  <2>2. /\ DOMAIN d = S /\ DOMAIN d \in SUBSET Field
        /\ \A f \in DOMAIN d : d[f] \in SUBSET Column
        /\ \A f \in DOMAIN officer : officer[f] \in SUBSET Column
        /\ cols = Over(officer, d)
      BY <1>1, <1>2, <1>4, <1>8, <2>1
  <2>3. QED
      BY <2>1, <2>2, OverCols
<1>10. /\ r = ReadAs(w, "extended", cols, Marked(e, officer))
       /\ DOMAIN officer # {} => Balanced(w, cols)
    BY <1>1, <1>3, <1>4, <1>5, <1>6 DEF ExtendedRead
<1>11. Balanced(w, cols)
  <2>1. CASE DOMAIN officer = {}
    <3>1. \A f \in S : cols[f] = numbering[w][f]
        BY <1>9, <2>1
    <3>2. Balanced(w, numbering[w])
        BY DEF resolve
    <3>3. QED
        BY <1>1, <1>9, <3>1, <3>2, SameBalance
  <2>2. QED
      BY <1>10, <2>1
<1>12. /\ r.workbook = w /\ r.gone = {} /\ IsRead(r)
       /\ r.cols = cols /\ r.evidence = Marked(e, officer)
    BY <1>9, <1>10, ReadAsIs
<1>13. ASSUME NEW f \in DOMAIN cols, r.evidence[f] = "officer"
       PROVE  f \in DOMAIN map /\ map[f] = cols[f]
  <2>1. f \in DOMAIN e /\ e[f] # "officer"
      BY <1>5, <1>13
  <2>2. f \in DOMAIN officer
      BY <1>12, <1>13, <2>1, MarkedOfficer
  <2>3. f \in S /\ cols[f] = officer[f]
      BY <1>9, <2>2
  <2>4. f \in DOMAIN map /\ officer[f] = map[f]
      BY <1>8, <2>2
  <2>5. QED
      BY <2>3, <2>4
<1>14. QED
    BY <1>6, <1>7, <1>11, <1>12, <1>13 DEF ReadBy

LEMMA ParseIs ==
    ASSUME NEW w \in Workbook, NEW pin, NEW maps \in [Signature -> SavedMap],
           parse(w, pin, maps) # Refused
    PROVE  ReadBy(parse(w, pin, maps), w, maps)
BY StandardReadIs, ExtendedReadIs DEF parse

LEMMA ReadIsNotRefused ==
    ASSUME NEW r, IsRead(r)
    PROVE  r # Refused
<1>1. Refused.layout = "refused"
    BY DEF Refused
<1>2. QED
    BY <1>1 DEF IsRead

-----------------------------------------------------------------------------
(* Columns: the invariant.  Whatever changes what a load reads, a map, a   *)
(* pin, a file, either has a new load follow or is a confirmation for      *)
(* another year.  So while no load waits and nothing was confirmed there,  *)
(* the job under way and its rows know the maps as they are.               *)

DetailTyped == shown.detail # Refused =>
    shown.detail.signature \in Signature /\ shown.detail.cols \in Cols

JobTyped ==
    \/ job = NoJob
    \/ /\ job = [pc |-> job.pc, phase |-> job.phase, gate |-> job.gate, maps |-> job.maps,
                 read |-> job.read]
       /\ job.pc \in {"diagnose", "maps", "absent", "record", "plan"}
       /\ job.phase \in {"preview", "load"} /\ job.maps \in [Signature -> SavedMap]
       /\ job.read # Refused => IsRead(job.read)
       /\ job.pc \in {"record", "plan"} => job.read # Refused
       /\ job.pc = "plan" => job.phase = "load"
       /\ job.phase = "load" => shown.status = "analyzed" /\ job.pc # "diagnose"

ColumnsTyped ==
    /\ stored \in [FormFile -> Workbook] /\ pinned \in SUBSET FormFile
    /\ column_maps \in [Signature -> SavedMap]
    /\ shown = [status |-> shown.status, detail |-> shown.detail]
    /\ shown.status \in {"pending", "error", "analyzed", "ok"} /\ DetailTyped
    /\ \A f \in FormFile : rows[f] # Refused => IsRead(rows[f])
    /\ ingests \in Seq(BOOLEAN) /\ crossed \in BOOLEAN /\ JobTyped

Clean == ingests = <<>> /\ ~crossed

\* What a load would read of the first file, and keep of it.
Now == ParseFirst(column_maps)
Kept == [Now EXCEPT !.gone = Absent(Now, column_maps)]

JobKnows ==
    Clean /\ job # NoJob =>
        /\ job.maps = column_maps
        /\ job.pc # "diagnose" => Now # Refused
        /\ job.read # Refused => Now # Refused /\ job.read = Kept
        /\ job.phase = "load" /\ job.pc = "record" => rows[First] = job.read

ColumnsInv == ColumnsTyped /\ JobKnows /\ SaysWhatWasRead

LEMMA NowIs ==
    ASSUME ColumnsTyped, NEW maps \in [Signature -> SavedMap], NEW f \in FormFile,
           parse(stored[f], f \in pinned, maps) # Refused
    PROVE  ReadBy(parse(stored[f], f \in pinned, maps), stored[f], maps)
<1>1. stored[f] \in Workbook
    BY DEF ColumnsTyped
<1>2. QED
    BY <1>1, ParseIs

\* What absences take from a read is in `gone` and changes nothing else.
WithGone(r, gone) == [r EXCEPT !.gone = gone]

LEMMA GoneIs ==
    ASSUME NEW r, IsRead(r), NEW gone
    PROVE  /\ IsRead(WithGone(r, gone)) /\ WithGone(r, gone) # Refused
           /\ WithGone(r, gone).gone = gone /\ WithGone(r, gone).workbook = r.workbook
           /\ WithGone(r, gone).layout = r.layout /\ WithGone(r, gone).cols = r.cols
           /\ WithGone(r, gone).evidence = r.evidence
           /\ WithGone(r, r.gone) = r
<1>1. PICK k : k = WithGone(r, gone)
    OBVIOUS
<1>2. k = [workbook |-> r.workbook, layout |-> r.layout, cols |-> r.cols,
           evidence |-> r.evidence, gone |-> gone]
    BY <1>1 DEF IsRead, WithGone
<1>3. /\ k.gone = gone /\ k.workbook = r.workbook /\ k.layout = r.layout
      /\ k.cols = r.cols /\ k.evidence = r.evidence
    BY <1>2
<1>4. IsRead(k)
    BY <1>2, <1>3 DEF IsRead
<1>5. WithGone(r, r.gone) = r
    BY DEF IsRead, WithGone
<1>6. QED
    BY <1>1, <1>3, <1>4, <1>5, ReadIsNotRefused

LEMMA ColumnsInvInit == ColumnsInit => ColumnsInv
<1> SUFFICES ASSUME ColumnsInit PROVE ColumnsInv
    OBVIOUS
<1>1. column_maps \in [Signature -> SavedMap]
  <2>1. Nothing \in SavedMap
    <3>1. <<>> \in [{} -> SUBSET Column]
        OBVIOUS
    <3>2. <<>> \in Cols
        BY <3>1, ColsIn
    <3>3. QED
        BY <3>2 DEF Nothing, SavedMap
  <2>2. QED
      BY <2>1 DEF ColumnsInit
<1>2. ColumnsTyped
  <2>1. PICK one : one = <<TRUE>>
      OBVIOUS
  <2>2. ingests = one /\ one \in Seq(BOOLEAN)
      BY <2>1 DEF ColumnsInit
  <2>3. job = NoJob /\ crossed = FALSE /\ pinned = {} /\ stored \in [FormFile -> Workbook]
        /\ shown = [status |-> "pending", detail |-> Refused] /\ \A f \in FormFile : rows[f] = Refused
      BY DEF ColumnsInit
  <2>4. shown = [status |-> shown.status, detail |-> shown.detail] /\ shown.status = "pending"
        /\ shown.detail = Refused
      BY <2>3
  <2>5. QED
      BY <1>1, <2>2, <2>3, <2>4 DEF ColumnsTyped, DetailTyped, JobTyped
<1>3. JobKnows /\ SaysWhatWasRead
    BY DEF ColumnsInit, JobKnows, SaysWhatWasRead, Quiet
<1>4. QED
    BY <1>2, <1>3 DEF ColumnsInv

-----------------------------------------------------------------------------
(* Columns: the officer                                                    *)

\* A request that has a load follow.
LEMMA RequestKeeps ==
    ASSUME ColumnsInv, NEW gate \in BOOLEAN, LoadSoon(gate), UNCHANGED <<shown, rows, job, crossed>>,
           stored' \in [FormFile -> Workbook], pinned' \in SUBSET FormFile,
           column_maps' \in [Signature -> SavedMap]
    PROVE  ColumnsInv'
<1>1. ingests' = Append(ingests, gate) /\ ingests \in Seq(BOOLEAN)
    BY DEF LoadSoon, ColumnsInv, ColumnsTyped
<1>2. ingests' \in Seq(BOOLEAN) /\ ingests' # <<>>
    BY <1>1, AppendProperties
<1>3. ColumnsTyped'
    BY <1>2 DEF ColumnsInv, ColumnsTyped, DetailTyped, JobTyped
<1>4. ~Clean' /\ ~Quiet'
    BY <1>2 DEF Clean, Quiet
<1>5. QED
    BY <1>3, <1>4 DEF ColumnsInv, JobKnows, SaysWhatWasRead

LEMMA ConfirmKeeps ==
    ASSUME ColumnsInv, NEW f \in Field, NEW columns \in Typed \cup {{}},
           NEW ticks \in SUBSET Absentable, NEW major \in BOOLEAN,
           ConfirmColumns(f, columns, ticks, major)
    PROVE  ColumnsInv'
<1>1. PICK d : d = shown.detail
    OBVIOUS
<1>2. d.signature \in Signature /\ d.cols \in Cols
    BY <1>1 DEF ConfirmColumns, ColumnsInv, ColumnsTyped, DetailTyped
<1>3. PICK groups : groups = Groups(d, f, columns, IF major THEN ticks ELSE {})
    OBVIOUS
<1>4. groups \in Cols
  <2>1. PICK t : t = IF major THEN ticks ELSE {}
      OBVIOUS
  <2>2. PICK known : known = {g \in DOMAIN d.cols \cup (IF columns = {} THEN {} ELSE {f}) : g \notin t}
      OBVIOUS
  <2>3. groups = [g \in known |-> IF g = f /\ columns # {} THEN columns ELSE d.cols[g]]
      BY <1>3, <2>1, <2>2 DEF Groups
  <2>4. \A g \in DOMAIN d.cols : g \in Field /\ d.cols[g] \in SUBSET Column
      BY <1>2, ColsOf
  <2>5. columns \in SUBSET Column
      BY ColumnsAssumption
  <2>6. known \in SUBSET Field
      BY <2>2, <2>4
  <2>7. \A g \in known : (g = f /\ columns # {}) \/ g \in DOMAIN d.cols
      BY <2>2
  <2>8. groups \in [known -> SUBSET Column]
      BY <2>3, <2>4, <2>5, <2>7
  <2>9. QED
      BY <2>6, <2>8, ColsIn
<1>5. column_maps' \in [Signature -> SavedMap]
  <2>1. column_maps' = [column_maps EXCEPT ![d.signature] =
            [map |-> groups, absent |-> IF major THEN ticks ELSE @.absent]]
      BY <1>1, <1>3 DEF ConfirmColumns
  <2>2. column_maps \in [Signature -> SavedMap] /\ column_maps[d.signature].absent \in SUBSET Field
      BY <1>2 DEF ColumnsInv, ColumnsTyped, SavedMap
  <2>3. ticks \in SUBSET Field
      BY ColumnsAssumption
  <2>4. PICK m : m = [map |-> groups,
                      absent |-> IF major THEN ticks ELSE column_maps[d.signature].absent]
      OBVIOUS
  <2>5. m \in SavedMap
      BY <1>4, <2>2, <2>3, <2>4 DEF SavedMap
  <2>6. column_maps' = [column_maps EXCEPT ![d.signature] = m]
      BY <2>1, <2>4
  <2>7. QED
      BY <2>2, <2>5, <2>6
<1>6. LoadSoon(FALSE) /\ UNCHANGED <<stored, pinned, shown, rows, job, crossed>>
    BY DEF ConfirmColumns
<1>7. QED
    BY <1>5, <1>6, RequestKeeps DEF ColumnsInv, ColumnsTyped

LEMMA OtherRequestsKeep ==
    ASSUME ColumnsInv,
           ReadAgain \/ \E f \in FormFile : Pin(f) \/ \E w \in Workbook : Upload(f, w)
    PROVE  ColumnsInv'
<1>1. /\ stored \in [FormFile -> Workbook] /\ pinned \in SUBSET FormFile
      /\ column_maps \in [Signature -> SavedMap]
    BY DEF ColumnsInv, ColumnsTyped
<1>2. CASE ReadAgain
    BY <1>1, <1>2, RequestKeeps DEF ReadAgain
<1>3. CASE \E f \in FormFile : Pin(f)
    BY <1>1, <1>3, RequestKeeps DEF Pin
<1>4. CASE \E f \in FormFile, w \in Workbook : Upload(f, w)
    BY <1>1, <1>4, RequestKeeps DEF Upload
<1>5. QED
    BY <1>2, <1>3, <1>4

LEMMA ElsewhereKeeps ==
    ASSUME ColumnsInv, NEW s \in Signature, NEW f \in Absentable, ConfirmElsewhere(s, f)
    PROVE  ColumnsInv'
<1>1. column_maps[s] \in SavedMap /\ f \in Field /\ column_maps \in [Signature -> SavedMap]
    BY ColumnsAssumption DEF ColumnsInv, ColumnsTyped
<1>2. PICK map : map = column_maps[s].map
    OBVIOUS
<1>3. map \in Cols /\ column_maps[s].absent \in SUBSET Field
    BY <1>1, <1>2 DEF SavedMap
<1>4. PICK less : less = [g \in DOMAIN map \ {f} |-> map[g]]
    OBVIOUS
<1>5. less \in Cols
  <2>1. less \in [DOMAIN map \ {f} -> SUBSET Column] /\ DOMAIN map \ {f} \in SUBSET Field
      BY <1>3, <1>4, ColsOf
  <2>2. QED
      BY <2>1, ColsIn
<1>6. PICK m : m = [map |-> less, absent |-> column_maps[s].absent \cup {f}]
    OBVIOUS
<1>7. m \in SavedMap
    BY <1>1, <1>3, <1>5, <1>6 DEF SavedMap
<1>8. column_maps' = [column_maps EXCEPT ![s] = m]
    BY <1>1, <1>2, <1>4, <1>6 DEF ConfirmElsewhere
<1>9. column_maps' \in [Signature -> SavedMap]
    BY <1>1, <1>7, <1>8
<1>10. crossed' = TRUE /\ UNCHANGED <<stored, pinned, shown, rows, ingests, job>>
    BY DEF ConfirmElsewhere
<1>11. ColumnsTyped'
    BY <1>9, <1>10 DEF ColumnsInv, ColumnsTyped, DetailTyped, JobTyped
<1>12. QED
    BY <1>10, <1>11 DEF ColumnsInv, JobKnows, SaysWhatWasRead, Clean, Quiet

-----------------------------------------------------------------------------
(* Columns: the worker                                                     *)

\* A job that goes on is of the shape it had.
LEMMA JobShape ==
    ASSUME ColumnsTyped, job.pc # "idle"
    PROVE  /\ job # NoJob
           /\ job = [pc |-> job.pc, phase |-> job.phase, gate |-> job.gate, maps |-> job.maps,
                     read |-> job.read]
           /\ job.pc \in {"diagnose", "maps", "absent", "record", "plan"}
           /\ job.phase \in {"preview", "load"} /\ job.maps \in [Signature -> SavedMap]
           /\ job.read # Refused => IsRead(job.read)
           /\ job.pc \in {"record", "plan"} => job.read # Refused
           /\ job.pc = "plan" => job.phase = "load"
           /\ job.phase = "load" => shown.status = "analyzed" /\ job.pc # "diagnose"
BY DEF ColumnsTyped, JobTyped, NoJob

LEMMA BeginKeeps ==
    ASSUME ColumnsInv, Begin
    PROVE  ColumnsInv'
<1>1. PICK gate : gate = Head(ingests)
    OBVIOUS
<1>2. job' = [pc |-> "diagnose", phase |-> "preview", gate |-> gate, maps |-> column_maps,
              read |-> Refused]
    BY <1>1 DEF Begin
<1>3. ingests' \in Seq(BOOLEAN)
    BY HeadTailProperties DEF Begin, ColumnsInv, ColumnsTyped
<1>4. UNCHANGED <<stored, pinned, column_maps, shown, rows>> /\ crossed' = FALSE
    BY DEF Begin
<1>5. /\ job'.pc = "diagnose" /\ job'.phase = "preview" /\ job'.read = Refused
      /\ job'.maps = column_maps /\ job'.gate = gate
    BY <1>2
<1>6. JobTyped'
    BY <1>2, <1>4, <1>5 DEF JobTyped, ColumnsInv, ColumnsTyped
<1>7. ColumnsTyped'
    BY <1>3, <1>4, <1>6 DEF ColumnsInv, ColumnsTyped, DetailTyped
<1>8. JobKnows'
    BY <1>4, <1>5 DEF JobKnows
<1>9. job'.pc # "idle"
    BY <1>5
<1>10. ~Quiet'
    BY <1>9 DEF Quiet, NoJob
<1>11. QED
    BY <1>7, <1>8, <1>10 DEF ColumnsInv, SaysWhatWasRead

\* A job goes on; what it reads from does not change in that step.
LEMMA GoesOnKeeps ==
    ASSUME ColumnsInv, NEW pc \in {"maps", "absent", "record", "plan"}, NEW phase \in {"preview", "load"},
           NEW maps \in [Signature -> SavedMap], NEW read, NEW gate,
           job' = [pc |-> pc, phase |-> phase, gate |-> gate, maps |-> maps, read |-> read],
           UNCHANGED <<stored, pinned, column_maps, ingests, crossed>>,
           read # Refused => IsRead(read), pc \in {"record", "plan"} => read # Refused,
           pc = "plan" => phase = "load", phase = "load" => shown'.status = "analyzed",
           shown' = [status |-> shown'.status, detail |-> shown'.detail],
           shown'.status \in {"pending", "error", "analyzed", "ok"}, DetailTyped',
           \A f \in FormFile : rows'[f] # Refused => IsRead(rows'[f]),
           Clean => /\ maps = column_maps /\ Now # Refused
                    /\ read # Refused => read = Kept
                    /\ phase = "load" /\ pc = "record" => rows'[First] = read
    PROVE  ColumnsInv'
<1>1. /\ job'.pc = pc /\ job'.phase = phase /\ job'.read = read
      /\ job'.maps = maps /\ job'.gate = gate
    OBVIOUS
<1>2. JobTyped'
    BY <1>1 DEF JobTyped
<1>3. ColumnsTyped'
    BY <1>2 DEF ColumnsInv, ColumnsTyped
<1>4. Now' = Now /\ Kept' = Kept /\ Clean' = Clean
    BY DEF Now, Kept, Clean, ParseFirst
<1>5. JobKnows'
    BY <1>1, <1>4 DEF JobKnows
<1>6. job'.pc # "idle"
    BY <1>1
<1>7. ~Quiet'
    BY <1>6 DEF Quiet, NoJob
<1>8. QED
    BY <1>3, <1>5, <1>7 DEF ColumnsInv, SaysWhatWasRead

\* A job ends without a word about the columns that were loaded.
LEMMA EndKeeps ==
    ASSUME ColumnsInv, job' = NoJob, UNCHANGED <<stored, pinned, column_maps, ingests, crossed, rows>>,
           shown' = [status |-> shown'.status, detail |-> shown'.detail],
           shown'.status \in {"pending", "error", "analyzed", "ok"}, DetailTyped',
           Clean => shown'.status # "ok"
    PROVE  ColumnsInv'
<1>1. JobTyped' /\ JobKnows'
    BY DEF JobTyped, JobKnows
<1>2. ColumnsTyped'
    BY <1>1 DEF ColumnsInv, ColumnsTyped
<1>3. Quiet' => Clean
    BY DEF Quiet, Clean
<1>4. QED
    BY <1>1, <1>2, <1>3 DEF ColumnsInv, SaysWhatWasRead

LEMMA DiagnoseKeeps ==
    ASSUME ColumnsInv, Diagnose
    PROVE  ColumnsInv'
<1>1. UNCHANGED <<stored, pinned, column_maps, ingests, crossed, rows>> /\ job.pc = "diagnose"
    BY DEF Diagnose
<1>2. /\ shown = [status |-> shown.status, detail |-> shown.detail] /\ DetailTyped
      /\ shown.status \in {"pending", "error", "analyzed", "ok"} /\ ColumnsTyped
    BY DEF ColumnsInv, ColumnsTyped
<1>3. CASE Now = Refused
  <2>1. job' = NoJob /\ shown' = [shown EXCEPT !.status = "error"]
      BY <1>3 DEF Diagnose, Now
  <2>2. shown' = [status |-> "error", detail |-> shown.detail]
      BY <1>2, <2>1
  <2>3. shown'.status = "error" /\ shown'.detail = shown.detail
      BY <2>2
  <2>4. DetailTyped'
      BY <1>2, <2>3 DEF DetailTyped
  <2>5. QED
      BY <1>1, <2>1, <2>2, <2>3, <2>4, EndKeeps
<1>4. CASE Now # Refused
  <2>1. job' = [job EXCEPT !.pc = "maps"] /\ UNCHANGED shown
      BY <1>4 DEF Diagnose, Now
  <2>2. PICK gate, read : gate = job.gate /\ read = job.read
      OBVIOUS
  <2>3. PICK phase \in {"preview", "load"} : phase = job.phase
      BY <1>1, <1>2, JobShape
  <2>4. PICK maps \in [Signature -> SavedMap] : maps = job.maps
      BY <1>1, <1>2, JobShape
  <2>5. job' = [pc |-> "maps", phase |-> phase, gate |-> gate, maps |-> maps, read |-> read]
      BY <1>1, <1>2, <2>1, <2>2, <2>3, <2>4, JobShape
  <2>6. (read # Refused => IsRead(read)) /\ phase # "load"
      BY <1>1, <1>2, <2>2, <2>3, JobShape
  <2>7. Clean => maps = column_maps /\ (read # Refused => read = Kept)
      BY <1>1, <1>2, <2>2, <2>4, JobShape DEF ColumnsInv, JobKnows
  <2>8. DetailTyped' /\ \A f \in FormFile : rows'[f] # Refused => IsRead(rows'[f])
      BY <1>1, <1>2, <2>1 DEF DetailTyped, ColumnsTyped
  <2>9. /\ shown' = [status |-> shown'.status, detail |-> shown'.detail]
        /\ shown'.status \in {"pending", "error", "analyzed", "ok"}
        /\ Clean => maps = column_maps /\ Now # Refused /\ (read # Refused => read = Kept)
      BY <1>2, <1>4, <2>1, <2>7
  <2>10. QED
      BY <1>1, <2>5, <2>6, <2>8, <2>9, GoesOnKeeps
<1>5. QED
    BY <1>3, <1>4

LEMMA LookAtMapsKeeps ==
    ASSUME ColumnsInv, LookAtMaps
    PROVE  ColumnsInv'
<1>1. UNCHANGED <<stored, pinned, column_maps, ingests, crossed, rows, shown>> /\ job.pc = "maps"
    BY DEF LookAtMaps
<1>2. /\ shown = [status |-> shown.status, detail |-> shown.detail] /\ DetailTyped
      /\ shown.status \in {"pending", "error", "analyzed", "ok"} /\ ColumnsTyped
      /\ column_maps \in [Signature -> SavedMap]
    BY DEF ColumnsInv, ColumnsTyped
<1>3. PICK gate, read : gate = job.gate /\ read = job.read
    OBVIOUS
<1>4. PICK phase \in {"preview", "load"} : phase = job.phase
    BY <1>1, <1>2, JobShape
<1>5. job' = [job EXCEPT !.pc = "absent", !.maps = column_maps]
    BY DEF LookAtMaps
<1>6. job' = [pc |-> "absent", phase |-> phase, gate |-> gate, maps |-> column_maps, read |-> read]
    BY <1>1, <1>2, <1>3, <1>4, <1>5, JobShape
<1>7. (read # Refused => IsRead(read)) /\ (phase = "load" => shown'.status = "analyzed")
    BY <1>1, <1>2, <1>3, <1>4, JobShape
<1>8. Clean => Now # Refused /\ (read # Refused => read = Kept)
    BY <1>1, <1>2, <1>3, JobShape DEF ColumnsInv, JobKnows
<1>9. DetailTyped' /\ \A f \in FormFile : rows'[f] # Refused => IsRead(rows'[f])
    BY <1>1, <1>2 DEF DetailTyped, ColumnsTyped
<1>10. QED
    BY <1>1, <1>2, <1>6, <1>7, <1>8, <1>9, GoesOnKeeps

\* The form that was read before is there, and a file is read as it is now.
LEMMA FirstIs ==
    ASSUME ColumnsTyped, NEW maps \in [Signature -> SavedMap], ParseFirst(maps) # Refused
    PROVE  ReadBy(ParseFirst(maps), stored[First], maps)
BY NowIs, ColumnsAssumption DEF ParseFirst

LEMMA CachedIs ==
    ASSUME ColumnsTyped, job.pc # "idle", NEW maps \in [Signature -> SavedMap],
           NEW r, r = ParsedOrCached(maps), r # Refused
    PROVE  IsRead(r)
<1>1. CASE r = job.read
    BY <1>1, JobShape
<1>2. CASE r = ParseFirst(maps)
    BY <1>2, FirstIs DEF ReadBy
<1>3. QED
    BY <1>1, <1>2 DEF ParsedOrCached

\* While nothing changes it is the object that was kept, or the same.
LEMMA CachedNow ==
    ASSUME ColumnsTyped, JobKnows, Clean, job.pc \notin {"idle", "diagnose"},
           NEW r, r = ParsedOrCached(column_maps)
    PROVE  /\ IsRead(r) /\ WithGone(r, r.gone \cup Absent(r, column_maps)) = Kept
           /\ job.read # Refused => r = job.read
<1>1. /\ Now # Refused /\ job # NoJob
      /\ job.read # Refused => job.read = Kept
    BY JobShape DEF JobKnows
<1>2. column_maps \in [Signature -> SavedMap]
    BY DEF ColumnsTyped
<1>3. PICK now : now = Now
    OBVIOUS
<1>4. IsRead(now) /\ now.gone = {} /\ now # Refused
    BY <1>1, <1>2, <1>3, FirstIs DEF Now, ReadBy
<1>5. PICK gone : gone = Absent(now, column_maps)
    OBVIOUS
<1>6. PICK kept : kept = WithGone(now, gone)
    OBVIOUS
<1>7. Kept = kept
    BY <1>3, <1>5, <1>6 DEF Kept, WithGone
<1>8. /\ kept.gone = gone /\ kept.workbook = now.workbook /\ kept.cols = now.cols
      /\ IsRead(kept) /\ kept # Refused
    BY <1>4, <1>6, GoneIs
<1>9. Absent(kept, column_maps) = gone
    BY <1>5, <1>8 DEF Absent
<1>10. gone \cup gone = gone /\ {} \cup gone = gone
    OBVIOUS
<1>11. CASE job.read = Refused
  <2>1. r = now
      BY <1>3, <1>11 DEF ParsedOrCached, Now
  <2>2. WithGone(r, r.gone \cup Absent(r, column_maps)) = kept
      BY <1>4, <1>5, <1>6, <1>10, <2>1
  <2>3. QED
      BY <1>4, <1>7, <1>11, <2>1, <2>2
<1>12. CASE job.read # Refused
  <2>1. job.read = kept
      BY <1>1, <1>7, <1>12
  <2>2. [now EXCEPT !.gone = job.read.gone] = job.read
      BY <1>6, <1>8, <2>1 DEF WithGone
  <2>3. r = kept
      BY <1>3, <1>4, <1>12, <2>1, <2>2 DEF ParsedOrCached, Now
  <2>4. WithGone(kept, kept.gone) = kept
      BY <1>8, GoneIs
  <2>5. WithGone(r, r.gone \cup Absent(r, column_maps)) = kept
      BY <1>8, <1>9, <1>10, <2>3, <2>4
  <2>6. QED
      BY <1>7, <1>8, <2>1, <2>3, <2>5
<1>13. QED
    BY <1>11, <1>12

LEMMA DetailIs ==
    ASSUME NEW r, IsRead(r), NEW d, d = Detail(r)
    PROVE  /\ d.signature = signature[r.workbook] /\ d.signature \in Signature
           /\ d.layout = r.layout /\ d.cols \in Cols
           /\ d.cols = [f \in ValuesOf(r) |-> r.cols[f]]
           /\ d.evidence = [f \in ValuesOf(r) |->
                                IF f \in resolve_officer_confirmed(r) THEN "officer" ELSE r.evidence[f]]
           /\ d.absent = column_maps[signature[r.workbook]].absent
<1>1. r.workbook \in Workbook /\ r.cols \in Cols
    BY DEF IsRead
<1>2. signature[r.workbook] \in Signature
    BY <1>1, ColumnsAssumption
<1>3. PICK cols : cols = [f \in ValuesOf(r) |-> r.cols[f]]
    OBVIOUS
<1>4. cols \in Cols
  <2>1. ValuesOf(r) \in SUBSET Field /\ \A f \in ValuesOf(r) : r.cols[f] \in SUBSET Column
      BY <1>1, ColsOf DEF ValuesOf
  <2>2. cols \in [ValuesOf(r) -> SUBSET Column]
      BY <1>3, <2>1
  <2>3. QED
      BY <2>1, <2>2, ColsIn
<1>5. PICK e : e = [f \in ValuesOf(r) |->
                        IF f \in resolve_officer_confirmed(r) THEN "officer" ELSE r.evidence[f]]
    OBVIOUS
<1>6. d = [signature |-> signature[r.workbook], layout |-> r.layout, cols |-> cols, evidence |-> e,
           absent |-> column_maps[signature[r.workbook]].absent]
    BY <1>3, <1>5 DEF Detail, ValuesOf
<1>7. QED
    BY <1>2, <1>3, <1>4, <1>5, <1>6

LEMMA LookAtAbsencesKeeps ==
    ASSUME ColumnsInv, LookAtAbsences
    PROVE  ColumnsInv'
<1>1. UNCHANGED <<stored, pinned, column_maps, ingests, crossed, rows, shown>> /\ job.pc = "absent"
    BY DEF LookAtAbsences
<1>2. /\ shown = [status |-> shown.status, detail |-> shown.detail] /\ DetailTyped
      /\ shown.status \in {"pending", "error", "analyzed", "ok"} /\ ColumnsTyped /\ JobKnows
    BY DEF ColumnsInv, ColumnsTyped
<1>3. PICK gate : gate = job.gate
    OBVIOUS
<1>4. PICK phase \in {"preview", "load"} : phase = job.phase
    BY <1>1, <1>2, JobShape
<1>5. PICK maps \in [Signature -> SavedMap] : maps = job.maps
    BY <1>1, <1>2, JobShape
<1>6. Clean => maps = column_maps /\ Now # Refused
    BY <1>1, <1>2, <1>5, JobShape DEF JobKnows
<1>7. PICK r : r = ParsedOrCached(maps)
    OBVIOUS
<1>8. DetailTyped' /\ \A f \in FormFile : rows'[f] # Refused => IsRead(rows'[f])
    BY <1>1, <1>2 DEF DetailTyped, ColumnsTyped
<1>9. /\ shown' = [status |-> shown'.status, detail |-> shown'.detail]
      /\ shown'.status \in {"pending", "error", "analyzed", "ok"}
    BY <1>1, <1>2
<1>10. CASE r = Refused
  <2>1. job' = NoJob
      BY <1>5, <1>7, <1>10 DEF LookAtAbsences
  <2>2. ~Clean
    <3>1. ASSUME Clean PROVE FALSE
      <4>1. r = ParsedOrCached(column_maps)
          BY <1>6, <1>7, <3>1
      <4>2. IsRead(r)
          BY <1>1, <1>2, <3>1, <4>1, CachedNow
      <4>3. QED
          BY <1>10, <4>2, ReadIsNotRefused
    <3>2. QED
        BY <3>1
  <2>3. QED
      BY <1>1, <1>8, <1>9, <2>1, <2>2, EndKeeps
<1>11. CASE r # Refused
  <2>1. PICK pc : pc = IF phase = "preview" THEN "record" ELSE "plan"
      OBVIOUS
  <2>2. PICK k : k = WithGone(r, r.gone \cup Absent(r, column_maps))
      OBVIOUS
  <2>3. job' = [job EXCEPT !.pc = pc, !.read = k]
      BY <1>4, <1>5, <1>7, <1>11, <2>1, <2>2 DEF LookAtAbsences, WithGone
  <2>4. job' = [pc |-> pc, phase |-> phase, gate |-> gate, maps |-> maps, read |-> k]
      BY <1>1, <1>2, <1>3, <1>4, <1>5, <2>3, JobShape
  <2>5. IsRead(k) /\ k # Refused
      BY <1>1, <1>2, <1>7, <1>11, <2>2, CachedIs, GoneIs
  <2>6. Clean => k = Kept
      BY <1>1, <1>2, <1>6, <1>7, <2>2, CachedNow
  <2>7. pc \in {"record", "plan"} /\ (pc = "plan" => phase = "load") /\ (phase = "load" => pc # "record")
      BY <2>1
  <2>8. phase = "load" => shown'.status = "analyzed"
      BY <1>1, <1>2, <1>4, JobShape
  <2>9. pc \in {"maps", "absent", "record", "plan"}
      BY <2>7
  <2>10. QED
      BY <1>1, <1>6, <1>8, <1>9, <2>4, <2>5, <2>6, <2>7, <2>8, <2>9, GoesOnKeeps
<1>12. QED
    BY <1>10, <1>11

LEMMA RecordAnalysisKeeps ==
    ASSUME ColumnsInv, RecordAnalysis
    PROVE  ColumnsInv'
<1>1. /\ UNCHANGED <<stored, pinned, column_maps, ingests, crossed, rows>>
      /\ job.pc = "record" /\ job.phase = "preview"
    BY DEF RecordAnalysis
<1>2. ColumnsTyped /\ JobKnows
    BY DEF ColumnsInv
<1>3. PICK gate, read : gate = job.gate /\ read = job.read
    OBVIOUS
<1>4. PICK maps \in [Signature -> SavedMap] : maps = job.maps
    BY <1>1, <1>2, JobShape
<1>5. IsRead(read) /\ read # Refused
    BY <1>1, <1>2, <1>3, JobShape
<1>6. PICK d : d = Detail(read)
    OBVIOUS
<1>7. shown' = [status |-> "analyzed", detail |-> d]
    BY <1>3, <1>6 DEF RecordAnalysis
<1>8. shown'.status = "analyzed" /\ shown'.detail = d
    BY <1>7
<1>9. DetailTyped' /\ \A f \in FormFile : rows'[f] # Refused => IsRead(rows'[f])
  <2>1. d.signature \in Signature /\ d.cols \in Cols
      BY <1>5, <1>6, DetailIs
  <2>2. DetailTyped'
      BY <1>8, <2>1 DEF DetailTyped
  <2>3. QED
      BY <1>1, <1>2, <2>2 DEF ColumnsTyped
<1>10. CASE job' = NoJob
    BY <1>1, <1>7, <1>8, <1>9, <1>10, EndKeeps
<1>11. CASE job' = [job EXCEPT !.pc = "maps", !.phase = "load"]
  <2>1. job' = [pc |-> "maps", phase |-> "load", gate |-> gate, maps |-> maps, read |-> read]
      BY <1>1, <1>2, <1>3, <1>4, <1>11, JobShape
  <2>2. Clean => maps = column_maps /\ Now # Refused /\ read = Kept
      BY <1>1, <1>2, <1>3, <1>4, <1>5, JobShape DEF JobKnows
  <2>3. QED
      BY <1>1, <1>5, <1>7, <1>8, <1>9, <2>1, <2>2, GoesOnKeeps
<1>12. QED
    BY <1>10, <1>11 DEF RecordAnalysis

LEMMA LoadKeeps ==
    ASSUME ColumnsInv, Load
    PROVE  ColumnsInv'
<1>1. UNCHANGED <<stored, pinned, column_maps, ingests, crossed, shown>> /\ job.pc = "plan"
    BY DEF Load
<1>2. /\ shown = [status |-> shown.status, detail |-> shown.detail] /\ DetailTyped
      /\ shown.status \in {"pending", "error", "analyzed", "ok"} /\ ColumnsTyped /\ JobKnows
      /\ column_maps \in [Signature -> SavedMap]
    BY DEF ColumnsInv, ColumnsTyped
<1>3. PICK gate, read : gate = job.gate /\ read = job.read
    OBVIOUS
<1>4. PICK maps \in [Signature -> SavedMap] : maps = job.maps
    BY <1>1, <1>2, JobShape
<1>5. IsRead(read) /\ read # Refused /\ job.phase = "load" /\ shown.status = "analyzed"
    BY <1>1, <1>2, <1>3, JobShape
<1>6. DetailTyped'
    BY <1>1, <1>2 DEF DetailTyped
<1>7. CASE \E f \in FormFile : ToLoad(f) = Refused
  <2>1. job' = NoJob /\ UNCHANGED rows
      BY <1>7 DEF Load
  <2>2. QED
      BY <1>1, <1>2, <1>5, <1>6, <2>1, EndKeeps
<1>8. CASE \A f \in FormFile : ToLoad(f) # Refused
  <2>1. job' = [job EXCEPT !.pc = "record"] /\ rows' = [f \in FormFile |-> ToLoad(f)]
      BY <1>8 DEF Load
  <2>2. job' = [pc |-> "record", phase |-> "load", gate |-> gate, maps |-> maps, read |-> read]
      BY <1>1, <1>2, <1>3, <1>4, <1>5, <2>1, JobShape
  <2>3. ASSUME NEW f \in FormFile PROVE IsRead(rows'[f])
    <3>1. PICK r : r = ToLoad(f)
        OBVIOUS
    <3>2. r # Refused /\ rows'[f] = r
        BY <1>8, <2>1, <3>1
    <3>3. CASE FormFile = {First}
        BY <1>3, <1>5, <3>1, <3>2, <3>3 DEF ToLoad
    <3>4. CASE FormFile # {First} /\ f = First
        BY <1>1, <1>2, <3>1, <3>2, <3>4, CachedIs DEF ToLoad
    <3>5. CASE FormFile # {First} /\ f # First
        BY <1>2, <3>1, <3>2, <3>5, NowIs DEF ToLoad, ReadBy
    <3>6. QED
        BY <3>2, <3>3, <3>4, <3>5
  <2>4. ASSUME Clean
        PROVE  maps = column_maps /\ Now # Refused /\ read = Kept /\ rows'[First] = read
    <3>1. maps = column_maps /\ Now # Refused /\ read = Kept
        BY <1>1, <1>2, <1>3, <1>4, <1>5, <2>4, JobShape DEF JobKnows
    <3>2. rows'[First] = ToLoad(First)
        BY <2>1, ColumnsAssumption
    <3>3. PICK r : r = ParsedOrCached(column_maps)
        OBVIOUS
    <3>4. r = read
        BY <1>1, <1>2, <1>3, <1>5, <2>4, <3>3, CachedNow
    <3>5. QED
        BY <1>3, <3>1, <3>2, <3>3, <3>4 DEF ToLoad
  <2>5. /\ shown' = [status |-> shown'.status, detail |-> shown'.detail]
        /\ shown'.status \in {"pending", "error", "analyzed", "ok"} /\ shown'.status = "analyzed"
      BY <1>1, <1>2, <1>5
  <2>6. QED
      BY <1>1, <1>5, <1>6, <2>2, <2>3, <2>4, <2>5, GoesOnKeeps
<1>9. QED
    BY <1>7, <1>8

\* The word after a load is about what was kept, which is what was loaded.
LEMMA RecordLoadKeeps ==
    ASSUME ColumnsInv, RecordLoad
    PROVE  ColumnsInv'
<1>1. /\ UNCHANGED <<stored, pinned, column_maps, ingests, crossed, rows>>
      /\ job.pc = "record" /\ job.phase = "load" /\ job' = NoJob
    BY DEF RecordLoad
<1>2. ColumnsTyped /\ JobKnows /\ column_maps \in [Signature -> SavedMap]
    BY DEF ColumnsInv, ColumnsTyped
<1>3. PICK read : read = job.read
    OBVIOUS
<1>4. IsRead(read) /\ read # Refused
    BY <1>1, <1>2, <1>3, JobShape
<1>5. PICK d : d = Detail(read)
    OBVIOUS
<1>6. shown' = [status |-> "ok", detail |-> d]
    BY <1>3, <1>5 DEF RecordLoad
<1>7. shown'.status = "ok" /\ shown'.detail = d
    BY <1>6
<1>8. DetailTyped'
  <2>1. d.signature \in Signature /\ d.cols \in Cols
      BY <1>4, <1>5, DetailIs
  <2>2. QED
      BY <1>7, <2>1 DEF DetailTyped
<1>9. JobTyped' /\ JobKnows'
    BY <1>1 DEF JobTyped, JobKnows
<1>10. ColumnsTyped'
    BY <1>1, <1>2, <1>6, <1>7, <1>8, <1>9 DEF ColumnsTyped
<1>11. ASSUME Clean PROVE SaysWhatWasRead'
  <2>1. Now # Refused /\ read = Kept /\ rows[First] = read
      BY <1>1, <1>2, <1>3, <1>4, <1>11, JobShape DEF JobKnows
  <2>2. PICK now : now = Now
      OBVIOUS
  <2>3. ReadBy(now, stored[First], column_maps)
      BY <1>2, <2>1, <2>2, FirstIs DEF Now
  <2>4. PICK w : w = stored[First]
      OBVIOUS
  <2>5. PICK map : map = column_maps[signature[w]].map
      OBVIOUS
  <2>6. PICK absent : absent = column_maps[signature[w]].absent
      OBVIOUS
  <2>7. PICK gone : gone = Absent(now, column_maps)
      OBVIOUS
  <2>8. read = WithGone(now, gone)
      BY <2>1, <2>2, <2>7 DEF Kept, WithGone
  <2>9. /\ read.gone = gone /\ read.workbook = w /\ read.layout = now.layout
        /\ read.cols = now.cols /\ read.evidence = now.evidence /\ now.workbook = w
      BY <2>3, <2>4, <2>8, GoneIs DEF ReadBy
  <2>10. \A f \in DOMAIN read.cols : read.evidence[f] = "officer" =>
            f \in DOMAIN map /\ map[f] = read.cols[f]
      BY <2>3, <2>4, <2>5, <2>9 DEF ReadBy
  <2>11. read.layout = "extended" => Balanced(read.workbook, read.cols)
      BY <2>3, <2>4, <2>9 DEF ReadBy
  <2>12. gone = (absent \ {RowKey}) \cap DOMAIN read.cols
      BY <2>6, <2>7, <2>9 DEF Absent
  <2>13. absent \cap ValuesOf(read) \subseteq {RowKey}
      BY <2>9, <2>12 DEF ValuesOf
  <2>14. /\ d.signature = signature[w] /\ d.layout = read.layout
         /\ d.cols = [f \in ValuesOf(read) |-> read.cols[f]]
         /\ d.evidence = [f \in ValuesOf(read) |->
                IF f \in resolve_officer_confirmed(read) THEN "officer" ELSE read.evidence[f]]
         /\ d.absent = absent
      BY <1>4, <1>5, <2>6, <2>9, DetailIs
  <2>15. ASSUME NEW f \in DOMAIN d.cols, d.evidence[f] = "officer"
         PROVE  f \in DOMAIN map /\ map[f] = d.cols[f]
    <3>1. f \in ValuesOf(read) /\ d.cols[f] = read.cols[f] /\ f \in DOMAIN read.cols
        BY <2>14, <2>15 DEF ValuesOf
    <3>2. CASE f \in resolve_officer_confirmed(read)
        BY <2>5, <2>9, <3>1, <3>2 DEF resolve_officer_confirmed
    <3>3. CASE f \notin resolve_officer_confirmed(read)
      <4>1. read.evidence[f] = "officer"
          BY <2>14, <2>15, <3>1, <3>3
      <4>2. QED
          BY <2>10, <3>1, <4>1
    <3>4. QED
        BY <3>2, <3>3
  <2>16. PICK r : r = rows'[First]
      OBVIOUS
  <2>17. r = read /\ shown'.detail = d /\ column_maps' = column_maps
      BY <1>1, <1>7, <2>1, <2>16
  <2>18. /\ d.signature = signature[r.workbook] /\ d.layout = r.layout
         /\ d.cols = [f \in ValuesOf(r) |-> r.cols[f]]
         /\ d.absent \cap ValuesOf(r) \subseteq {RowKey}
         /\ r.layout = "extended" => Balanced(r.workbook, r.cols)
      BY <2>9, <2>11, <2>13, <2>14, <2>17
  <2>19. \A f \in DOMAIN d.cols : d.evidence[f] = "officer" =>
            /\ f \in DOMAIN column_maps[d.signature].map
            /\ column_maps[d.signature].map[f] = d.cols[f]
      BY <2>5, <2>14, <2>15
  <2>20. QED
      BY <2>16, <2>17, <2>18, <2>19 DEF SaysWhatWasRead, ValuesOf, Balanced, Summed
<1>12. ~Clean => SaysWhatWasRead'
    BY <1>1 DEF SaysWhatWasRead, Quiet, Clean
<1>13. QED
    BY <1>9, <1>10, <1>11, <1>12 DEF ColumnsInv

LEMMA ColumnsInvNext ==
    ASSUME ColumnsInv, [ColumnsNext]_columnVars
    PROVE  ColumnsInv'
<1>1. CASE Begin
    BY <1>1, BeginKeeps
<1>2. CASE Diagnose
    BY <1>2, DiagnoseKeeps
<1>3. CASE LookAtMaps
    BY <1>3, LookAtMapsKeeps
<1>4. CASE LookAtAbsences
    BY <1>4, LookAtAbsencesKeeps
<1>5. CASE RecordAnalysis
    BY <1>5, RecordAnalysisKeeps
<1>6. CASE Load
    BY <1>6, LoadKeeps
<1>7. CASE RecordLoad
    BY <1>7, RecordLoadKeeps
<1>8. CASE \E f \in Field, columns \in Typed \cup {{}}, ticks \in SUBSET Absentable, major \in BOOLEAN :
               ConfirmColumns(f, columns, ticks, major)
    BY <1>8, ConfirmKeeps
<1>9. CASE ReadAgain \/ \E f \in FormFile : Pin(f) \/ \E w \in Workbook : Upload(f, w)
    BY <1>9, OtherRequestsKeep
<1>10. CASE \E s \in Signature, f \in Absentable : ConfirmElsewhere(s, f)
    BY <1>10, ElsewhereKeeps
<1>11. CASE UNCHANGED columnVars
    BY <1>11 DEF columnVars, ColumnsInv, ColumnsTyped, DetailTyped, JobTyped, JobKnows, Clean, Now,
          Kept, ParseFirst, Absent, SaysWhatWasRead, Quiet, ValuesOf, Balanced, Summed
<1>12. QED
    BY <1>1, <1>2, <1>3, <1>4, <1>5, <1>6, <1>7, <1>8, <1>9, <1>10, <1>11 DEF ColumnsNext

-----------------------------------------------------------------------------
(* Columns: the theorems                                                   *)

\* When no load waits, the page of a file says what its rows were read from,
\* by whose word, and what was left out
\* (record_parse_result and resolve_officer_confirmed, app/pipeline).
THEOREM PageSaysWhatWasRead == ColumnsSpec => []SaysWhatWasRead
<1>1. ColumnsInit => ColumnsInv
    BY ColumnsInvInit
<1>2. ColumnsInv /\ [ColumnsNext]_columnVars => ColumnsInv'
    BY ColumnsInvNext
<1>3. ColumnsInv => SaysWhatWasRead
    BY DEF ColumnsInv
<1>4. QED
    BY <1>1, <1>2, <1>3, PTL DEF ColumnsSpec

\* Whatever is confirmed, saved, shown or loaded are columns of fields
\* (app/pipeline/saved_map.py, app/models/data_file.py).
THEOREM ColumnsTypeCorrect == ColumnsSpec => []ColumnsTypeOK
<1>1. ColumnsInit => ColumnsInv
    BY ColumnsInvInit
<1>2. ColumnsInv /\ [ColumnsNext]_columnVars => ColumnsInv'
    BY ColumnsInvNext
<1>3. ColumnsInv => ColumnsTypeOK
  <2>1. SUFFICES ASSUME ColumnsTyped PROVE ColumnsTypeOK
      BY DEF ColumnsInv
  <2>2. ASSUME NEW c \in Cols PROVE IsColumns(c)
      BY ColsOf DEF IsColumns
  <2>3. \A s \in Signature : IsColumns(column_maps[s].map) /\ column_maps[s].absent \subseteq Field
    <3>1. \A s \in Signature : column_maps[s] \in SavedMap
        BY <2>1 DEF ColumnsTyped
    <3>2. QED
        BY <2>2, <3>1 DEF SavedMap
  <2>4. shown.detail # Refused => IsColumns(shown.detail.cols)
      BY <2>1, <2>2 DEF ColumnsTyped, DetailTyped
  <2>5. \A f \in FormFile : rows[f] # Refused => IsColumns(rows[f].cols)
      BY <2>1, <2>2 DEF ColumnsTyped, IsRead
  <2>6. job.pc \in {"idle", "diagnose", "maps", "absent", "record", "plan"}
      BY <2>1 DEF ColumnsTyped, JobTyped, NoJob
  <2>7. QED
      BY <2>1, <2>3, <2>4, <2>5, <2>6 DEF ColumnsTyped, ColumnsTypeOK
<1>4. QED
    BY <1>1, <1>2, <1>3, PTL DEF ColumnsSpec

-----------------------------------------------------------------------------
(* The three beside each other                                             *)

servicesVars == <<topic, vars, documentVars, columnVars>>

\* A step of one part leaves the others where they are.
LEMMA ServicesMove ==
    [MCNext]_servicesVars =>
        [Next]_vars /\ [DocumentsNext]_documentVars /\ [ColumnsNext]_columnVars
<1> SUFFICES ASSUME [MCNext]_servicesVars
             PROVE  [Next]_vars /\ [DocumentsNext]_documentVars /\ [ColumnsNext]_columnVars
    OBVIOUS
<1>1. CASE MCNext
    BY <1>1 DEF MCNext
<1>2. CASE UNCHANGED servicesVars
    BY <1>2 DEF servicesVars
<1>3. QED
    BY <1>1, <1>2

\* The workbook of MCServices that was uploaded and loaded before behaviours
\* begin: a balance form with a sheet of the norms too.
FirstWorkbook ==
    /\ {"m15", "m16"} \subseteq Settlement /\ "m15" \in Bcqt
    /\ "plain" \in Content /\ {"m15", "m16"} \subseteq reads["plain"]

LEMMA SettledTyped ==
    ASSUME FirstWorkbook, NEW b \in Book \cup {None}, Settled(b)
    PROVE  FilesTyped
<1>1. FirstPath = <<"m15", "m15">> /\ FirstPath \in Path
    BY DEF FirstPath, Path, FirstWorkbook
<1>2. ASSUME NEW k \in FirstKeys
      PROVE  /\ Key(k) /\ k[1] = FirstPath /\ k[2] \in {"m15", "m16"}
             /\ k = <<FirstPath, k[2]>>
    BY <1>1 DEF FirstKeys, Key, Slot, FirstWorkbook
<1>3. PICK entry : entry = [NewRow EXCEPT !.status = "ok", !.book = b, !.form = "plain"]
    OBVIOUS
<1>4. entry \in Row
    BY <1>3 DEF NewRow, Row, FirstWorkbook
<1>5. registry = [k \in FirstKeys |-> entry]
    BY <1>3 DEF Settled
<1>6. Shape(registry)
  <2>1. \A k \in DOMAIN registry : Key(k) /\ registry[k] \in Row
      BY <1>2, <1>4, <1>5
  <2>2. ASSUME NEW k \in DOMAIN registry, NEW j \in DOMAIN registry, k[2] = j[2]
        PROVE  j = k
    <3>1. k \in FirstKeys /\ j \in FirstKeys
        BY <1>5
    <3>2. k = <<FirstPath, k[2]>> /\ j = <<FirstPath, j[2]>>
        BY <1>2, <3>1
    <3>3. QED
        BY <2>2, <3>2
  <2>3. QED
      BY <2>1, <2>2 DEF Shape
<1>7. Readable(loaded)
  <2>1. ASSUME NEW l \in loaded
        PROVE  l \in Sources /\ Holds(l.content, l.slot)
    <3>1. PICK k \in FirstKeys : l = Source(k, "plain", b, "auto")
        BY DEF Settled
    <3>2. l = [slot |-> k[2], path |-> FirstPath, content |-> "plain", book |-> b, sheet |-> "auto"]
        BY <1>2, <3>1 DEF Source
    <3>3. k[2] \in {"m15", "m16"} /\ k[2] \in Slot
        BY <1>2 DEF Slot, FirstWorkbook
    <3>4. QED
        BY <1>1, <3>2, <3>3 DEF Sources, Holds, FirstWorkbook
  <2>2. QED
      BY <2>1 DEF Readable
<1>8. disk \in [Path -> Content \cup {Gone, Partial}]
    BY DEF Settled, FirstWorkbook
<1>9. queue \in Seq(BOOLEAN) /\ Len(queue) <= MaxQueue
    BY DocumentsAssumption, EmptySeq DEF Settled
<1>10. made \in Made
    BY DocumentsAssumption DEF Settled, Made
<1>11. QED
    BY <1>6, <1>7, <1>8, <1>9, <1>10 DEF Settled, FilesTyped, IngestOutcome, IsRequest, IsIngest

\* Rows, verdicts, registry entries and positions are of the shapes the program
\* gives them, whether or not a workbook was loaded before.
THEOREM ServicesTypes ==
    ASSUME FirstWorkbook
    PROVE  MCSpec => []ServicesTypeOK
<1>1. MCInit => Init /\ ColumnsInit /\ FilesTyped
    BY InitTyped, SettledTyped DEF MCInit
<1>2. FilesTyped /\ [DocumentsNext]_documentVars => FilesTyped'
  <2>1. FilesTyped /\ UNCHANGED documentVars => FilesTyped'
      BY DEF FilesTyped, documentVars, Shape, Readable
  <2>2. QED
      BY <2>1, FilesTypedNext
<1>3. FilesTyped => DocumentsTypeOK
  <2>1. SUFFICES ASSUME FilesTyped PROVE DocumentsTypeOK
      OBVIOUS
  <2>2. /\ DOMAIN registry \subseteq Path \X Slot
        /\ \A k \in DOMAIN registry : registry[k] \in Row
      BY <2>1 DEF FilesTyped, Shape, Key
  <2>3. \A l \in loaded : Holds(l.content, l.slot)
      BY <2>1 DEF FilesTyped, Readable
  <2>4. QED
      BY <2>1, <2>2, <2>3 DEF FilesTyped, DocumentsTypeOK, IngestOutcome, Made
<1>4. TypeOK /\ DocumentsTypeOK /\ ColumnsTypeOK => ServicesTypeOK
    BY DEF ServicesTypeOK
<1>5. QED
    BY <1>1, <1>2, <1>3, <1>4, ServicesMove, RunsTypeCorrect, ColumnsTypeCorrect, PTL
       DEF MCSpec, servicesVars, Spec, ColumnsSpec
=============================================================================
