------------------------------- MODULE Preview -------------------------------
(***************************************************************************)
(* The preview of an uploaded workbook: a page asks for a window of cells  *)
(* (documents_file_cells in app/routes/companies.py, load in               *)
(* app/static/cell-grid.js), and the first to ask has the sheet extracted  *)
(* by a thread of its own into a store on disk                             *)
(* (app/adapters/cell_window.py).                                          *)
(*                                                                         *)
(* A file stands for one sheet of one workbook.  An upload writes it in    *)
(* place, so whoever is reading it meanwhile may read a mixture.  The      *)
(* name of a store tells file, modification time and size: here file and   *)
(* version.  What is in a window is left out; a content is the version of  *)
(* which it is the cells, or Torn.                                         *)
(***************************************************************************)
EXTENDS Integers, SequencesExt

CONSTANTS
    File,
    Page,               \* open pages
    preview_cache_max,  \* stores the limit has room for
    MaxVersion,         \* bound on uploads of a file
    MaxOpen,            \* bound on the windows asked for
    MaxRestart          \* bound on restarts of the server

ASSUME PreviewAssumption ==
    /\ preview_cache_max \in Nat \ {0} /\ MaxVersion \in Nat \ {0}
    /\ MaxOpen \in Nat /\ MaxRestart \in Nat

Torn == 0               \* cells of more than one version
NoKey == <<>>

VARIABLES
    version,            \* [File -> its version; 0 is not there]
    stores,             \* the complete stores, least recently used first
    _JOBS,              \* the registry: [name of a store -> what its thread does]
    page,               \* [Page -> what it asks for, and the thread it waits for]
    opened,             \* how many windows were asked for
    restarts

previewVars == <<version, stores, _JOBS, page, opened, restarts>>

Key == File \X (1 .. MaxVersion)

BuildJob(pc, at, cells) == [pc |-> pc, at |-> at, cells |-> cells]
Closed == [pc |-> "closed", key |-> NoKey, thread |-> "none", mine |-> FALSE, cells |-> Torn]

\* The name is made from what the disk tells now.
\* Mutant: it is made from the path alone.
NameOfPath(f, v) == <<f, 1>>

cache_file_for(f, v) == <<f, v>>

Stored(key) == \E i \in DOMAIN stores : stores[i].key = key
PlaceOf(key) == CHOOSE i \in DOMAIN stores : stores[i].key = key
CellsOf(key) == stores[PlaceOf(key)].cells

\* The name of a store is that of a file on disk: no other has it.
Without(key) == IF Stored(key) THEN RemoveAt(stores, PlaceOf(key)) ELSE stores

\* _touch: the store becomes the last one used.
_touch(key) == Append(Without(key), stores[PlaceOf(key)])

\* The least recently used stores are deleted; the new one is the last.
\* Mutant: the new one is not counted.
PruneBefore(ss) ==
    IF Len(ss) > preview_cache_max + 1
    THEN SubSeq(ss, Len(ss) - preview_cache_max, Len(ss)) ELSE ss

_prune_cache(ss) ==
    IF Len(ss) > preview_cache_max
    THEN SubSeq(ss, Len(ss) - preview_cache_max + 1, Len(ss)) ELSE ss

-----------------------------------------------------------------------------
(* A page                                                                  *)

Become(p, pc, cells) ==
    page' = [page EXCEPT ![p] = [Closed EXCEPT !.pc = pc, !.key = page[p].key, !.cells = cells]]

\* A page of a file is opened, or scrolled to other cells.
Open(p, f) ==
    /\ page[p].pc \in {"closed", "shown", "failed"} /\ version[f] # 0
    /\ opened < MaxOpen /\ opened' = opened + 1
    /\ page' = [page EXCEPT ![p] = [Closed EXCEPT !.pc = "asking", !.key = <<f, version[f]>>]]
    /\ UNCHANGED <<version, stores, _JOBS, restarts>>

Leave(p) ==
    /\ page[p].pc # "closed"
    /\ page' = [page EXCEPT ![p] = Closed]
    /\ UNCHANGED <<version, stores, _JOBS, opened, restarts>>

\* request_extract: a file that is gone is an error, a store that is there is
\* used, and else the page waits for the thread in the registry.
AskGone(p) ==
    /\ page[p].pc = "asking" /\ version[page[p].key[1]] = 0
    /\ Become(p, "failed", Torn)
    /\ UNCHANGED <<version, stores, _JOBS, opened, restarts>>

AskStored(p) ==
    LET f == page[p].key[1]
        key == cache_file_for(f, version[f])
    IN  /\ page[p].pc = "asking" /\ version[f] # 0 /\ Stored(key)
        /\ page' = [page EXCEPT ![p].pc = "reading"]
        /\ stores' = _touch(key)
        /\ UNCHANGED <<version, _JOBS, opened, restarts>>

AskThread(p) ==
    LET f == page[p].key[1]
        key == cache_file_for(f, version[f])
        old == key \in DOMAIN _JOBS
        job == IF old THEN _JOBS[key] ELSE BuildJob("started", NoKey, Torn)
    IN  /\ page[p].pc = "asking" /\ version[f] # 0 /\ ~Stored(key)
        /\ _JOBS' = [k \in DOMAIN _JOBS \cup {key} |-> IF k = key THEN job ELSE _JOBS[k]]
        /\ page' = [page EXCEPT ![p] = [@ EXCEPT !.pc = "waiting", !.key = key, !.mine = TRUE,
              !.thread = IF job.pc \in {"done", "error"} THEN job.pc ELSE "running"]]
        /\ UNCHANGED <<version, stores, opened, restarts>>

\* The wait is over and the thread is not: the page asks again.
WaitOver(p) ==
    /\ page[p].pc = "waiting" /\ page[p].thread = "running"
    /\ Become(p, "asking", Torn)
    /\ UNCHANGED <<version, stores, _JOBS, opened, restarts>>

\* _drop_job: unless the registry holds another thread by now.
\* Mutant: a finished thread stays.
NoDrop(p) == UNCHANGED _JOBS

_drop_job(p) ==
    _JOBS' = IF page[p].mine
             THEN [k \in DOMAIN _JOBS \ {page[p].key} |-> _JOBS[k]] ELSE _JOBS

\* The thread is over: its error is everyone's who waits for it; but a store
\* must be there, which a later one may have pushed out.
WaitDone(p) ==
    LET key == page[p].key
        pc == IF page[p].thread = "error" THEN "failed"
              ELSE IF Stored(key) THEN "reading" ELSE "asking"
    IN  /\ page[p].pc = "waiting" /\ page[p].thread \in {"done", "error"}
        /\ _drop_job(p)
        /\ stores' = IF pc = "reading" THEN _touch(key) ELSE stores
        /\ page' = [q \in Page |->
              IF q = p THEN [Closed EXCEPT !.pc = pc, !.key = key]
              ELSE [page[q] EXCEPT !.mine = @ /\ ~(page[p].mine /\ page[q].key = key)]]
        /\ UNCHANGED <<version, opened, restarts>>

\* read_window, with the name made once more: a file or a store that is gone
\* is an error.
Read(p) ==
    LET f == page[p].key[1]
        key == cache_file_for(f, version[f])
    IN  /\ page[p].pc = "reading"
        /\ IF version[f] # 0 /\ Stored(key)
           THEN page' = [page EXCEPT ![p] = [Closed EXCEPT !.pc = "shown",
                            !.key = <<f, version[f]>>, !.cells = CellsOf(key)]]
           ELSE Become(p, "failed", Torn)
        /\ UNCHANGED <<version, stores, _JOBS, opened, restarts>>

-----------------------------------------------------------------------------
(* A thread (_BuildJob._run, extract_sheet)                                *)

SetJob(key, job) == _JOBS' = [_JOBS EXCEPT ![key] = job]

\* The thread is over, which whoever waits for it sees.
FinishBuild(key, how) ==
    /\ SetJob(key, BuildJob(how, NoKey, Torn))
    /\ page' = [q \in Page |->
          IF page[q].pc = "waiting" /\ page[q].key = key /\ page[q].mine
          THEN [page[q] EXCEPT !.thread = how] ELSE page[q]]

\* It makes the name for itself, and uses a store of that name; else, under
\* the lock of that name, it opens the workbook.
BuildStart(key) ==
    LET at == cache_file_for(key[1], version[key[1]])
    IN  /\ _JOBS[key].pc = "started"
        /\ version[key[1]] # 0 /\ ~Stored(at)
        /\ \A k \in DOMAIN _JOBS : _JOBS[k].at # at
        /\ SetJob(key, BuildJob("opening", at, Torn))
        /\ UNCHANGED <<version, stores, page, opened, restarts>>

BuildHit(key) ==
    LET at == cache_file_for(key[1], version[key[1]])
    IN  /\ _JOBS[key].pc = "started" /\ version[key[1]] # 0 /\ Stored(at)
        /\ stores' = _touch(at)
        /\ FinishBuild(key, "done")
        /\ UNCHANGED <<version, opened, restarts>>

BuildRead(key) ==
    /\ _JOBS[key].pc = "opening" /\ version[key[1]] # 0
    /\ SetJob(key, [_JOBS[key] EXCEPT !.pc = "copying", !.cells = version[key[1]]])
    /\ UNCHANGED <<version, stores, page, opened, restarts>>

\* Rename the temporary store, and prune.
BuildEnd(key) ==
    LET job == _JOBS[key] IN
    /\ job.pc = "copying"
    /\ stores' = _prune_cache(Append(Without(job.at), [key |-> job.at, cells |-> job.cells]))
    /\ FinishBuild(key, "done")
    /\ UNCHANGED <<version, opened, restarts>>

\* The workbook is gone, cannot be read, or has no such sheet.
BuildFail(key) ==
    /\ _JOBS[key].pc \in {"started", "opening", "copying"}
    /\ FinishBuild(key, "error")
    /\ UNCHANGED <<version, stores, opened, restarts>>

-----------------------------------------------------------------------------
(* Beside them                                                             *)

\* An upload over a file, in place.
Replace(f) ==
    /\ version[f] \in 1 .. MaxVersion - 1
    /\ version' = [version EXCEPT ![f] = @ + 1]
    /\ _JOBS' = [k \in DOMAIN _JOBS |-> IF k[1] = f /\ _JOBS[k].pc = "copying"
                                        THEN [_JOBS[k] EXCEPT !.cells = Torn] ELSE _JOBS[k]]
    /\ UNCHANGED <<stores, page, opened, restarts>>

\* documents_delete.
RemoveFile(f) ==
    /\ version[f] # 0
    /\ version' = [version EXCEPT ![f] = 0]
    /\ UNCHANGED <<stores, _JOBS, page, opened, restarts>>

\* The threads and their temporary stores are lost, and a page that is
\* waiting for an answer asks again.
Restart ==
    /\ restarts < MaxRestart /\ restarts' = restarts + 1
    /\ _JOBS' = [k \in {} |-> BuildJob("started", NoKey, Torn)]
    /\ page' = [p \in Page |-> IF page[p].pc \in {"waiting", "reading"}
                               THEN [Closed EXCEPT !.pc = "asking", !.key = page[p].key]
                               ELSE page[p]]
    /\ UNCHANGED <<version, stores, opened>>

PreviewInit ==
    /\ version = [f \in File |-> 1] /\ stores = <<>>
    /\ _JOBS = [k \in {} |-> BuildJob("started", NoKey, Torn)]
    /\ page = [p \in Page |-> Closed]
    /\ opened = 0 /\ restarts = 0

Ask(p) == AskGone(p) \/ AskStored(p) \/ AskThread(p) \/ WaitDone(p) \/ Read(p)
Build(key) == key \in DOMAIN _JOBS /\ (BuildStart(key) \/ BuildHit(key) \/ BuildRead(key)
                                        \/ BuildEnd(key) \/ BuildFail(key))

PreviewNext ==
    \/ \E p \in Page : Ask(p) \/ WaitOver(p) \/ Leave(p) \/ \E f \in File : Open(p, f)
    \/ \E key \in Key : Build(key)
    \/ \E f \in File : Replace(f) \/ RemoveFile(f)
    \/ Restart

\* An open page asks and reads, and threads run.
PreviewFairness ==
    /\ \A p \in Page : WF_previewVars(Ask(p))
    /\ \A key \in Key : WF_previewVars(Build(key))

-----------------------------------------------------------------------------
(* Properties                                                              *)

PreviewTypeOK ==
    /\ version \in [File -> 0 .. MaxVersion]
    /\ \A i \in DOMAIN stores : stores[i].key \in Key /\ stores[i].cells \in Torn .. MaxVersion
    /\ Len(stores) <= preview_cache_max
    /\ DOMAIN _JOBS \subseteq Key
    /\ \A p \in Page : page[p].thread # "none" <=> page[p].pc = "waiting"

\* What a page shows is the file as it was when the window was read, whole,
\* whatever uploads went on while it was extracted: the name of the store is
\* made before the workbook is opened (extract_sheet) and again when it is
\* read (documents_file_cells).
ShownIsTheFile ==
    \A p \in Page : page[p].pc = "shown" => page[p].cells = page[p].key[2]

\* A page that asks is answered with cells or with an error, also when the
\* thread it waits for was over before it asked, failed, made its store under
\* another name, or lost it to a later one (request_extract: "màn chờ quay
\* vòng mãi"), once the files are no longer replaced.
PageIsAnswered ==
    \A p \in Page : page[p].pc = "asking" ~> page[p].pc \in {"shown", "failed", "closed"}

=============================================================================
