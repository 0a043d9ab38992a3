-------------------------- MODULE DataVersion_proofs --------------------------
(***************************************************************************)
(* Proofs about DataVersion.  The invariants say what a version is good    *)
(* for, in a period where no stored version overwrote one its writer had   *)
(* not read (~torn): the version only grows, so                            *)
(*   - a handler whose version is still the period's has read the window   *)
(*     and the mark the period still has (ReadsFresh),                     *)
(*   - a run never records a version ahead of the period's, and one that   *)
(*     records the period's was computed from the rows it has (RunsFresh). *)
(***************************************************************************)
EXTENDS DataVersion, TLAPS

PeriodOp == {"ingest", "set_period", "reset", "files"}

ReadsFresh ==
    \A p \in Proc :
        tx[p].op \in PeriodOp /\ ~torn[tx[p].year] =>
            /\ tx[p].ver <= ver[tx[p].year]
            /\ tx[p].ver = ver[tx[p].year] =>
                  /\ tx[p].win = window[tx[p].year]
                  /\ tx[p].man = manual[tx[p].year]

\* Dates a handler has read are still there, if not the same.
DatesKept ==
    \A p \in Proc :
        tx[p].op \in PeriodOp /\ tx[p].win # NoWindow
            => window[tx[p].year] # NoWindow

RunReadsFresh ==
    \A p \in Proc :
        tx[p].op = "run" =>
            /\ ~torn[tx[p].year] => tx[p].ver <= current_data_version(tx[p].year)
            /\ tx[p].full => BuiltIn \subseteq tx[p].codes

RunsFresh ==
    \A y \in Year, c \in Code :
        ~torn[y] /\ runs[y][c] # NoRun =>
            /\ runs[y][c] <= current_data_version(y)
            /\ runs[y][c] = current_data_version(y) /\ basis[y][c] # Wiped
                  => Own(y, basis[y][c]) = Own(y, InScope(y))

IInv ==
    /\ TypeOK
    /\ ReadsFresh
    /\ DatesKept
    /\ RunReadsFresh
    /\ OfficerWindowKept
    /\ RunsFresh

-----------------------------------------------------------------------------

\* What a handler holds tells which handler it is.
LEMMA TxKinds ==
    ASSUME TypeOK, NEW p \in Proc
    PROVE  /\ tx[p].op \in PeriodOp => tx[p] \in PeriodTx
           /\ tx[p].op = "run" => tx[p] \in RunTx
           /\ tx[p] \in PeriodTx => tx[p].op \in PeriodOp
BY DEF TypeOK, PeriodOp, PeriodTx, RunTx, Idle

\* The rows of a period's own label in its scope depend on that label's rows
\* and on the period's window only.
LEMMA OwnScope ==
    ASSUME NEW y \in Year, rows'[y] = rows[y], window'[y] = window[y]
    PROVE  Own(y, InScope(y))' = Own(y, InScope(y))
BY DEF Own, InScope, Belongs, effective_window

LEMMA ScopeType ==
    ASSUME NEW y \in Year
    PROVE  InScope(y) \in Selection
BY DEF InScope, Selection

LEMMA InitIInv == Init => IInv
<1> SUFFICES ASSUME Init PROVE IInv
    OBVIOUS
<1> USE DEF Init, Idle
<1>1. TypeOK
    BY DataVersionAssumption DEF TypeOK, DataVersionAssumption, Selection
<1>2. ReadsFresh /\ DatesKept /\ RunReadsFresh
    BY DEF ReadsFresh, DatesKept, RunReadsFresh, PeriodOp
<1>3. OfficerWindowKept /\ RunsFresh
    BY DEF OfficerWindowKept, RunsFresh, NoRun
<1>4. QED
    BY <1>1, <1>2, <1>3 DEF IInv

-----------------------------------------------------------------------------
(* The first step of a handler.                                            *)

LEMMA ReadStep ==
    ASSUME IInv, NEW p \in Proc, NEW op \in PeriodOp, NEW y \in Year,
           NEW to \in Window \cup {NoWindow}, NEW load \in SUBSET (Date \cup {Undated}),
           op \in {"ingest", "set_period"} => to \in Window,
           ReadPeriod(p, op, y, to, load)
    PROVE  IInv'
<1> DEFINE t == [op |-> op, year |-> y, ver |-> ver[y], win |-> window[y],
                 man |-> manual[y], to |-> to, load |-> load]
<1>1. t \in PeriodTx
    BY DEF IInv, TypeOK, PeriodTx, PeriodOp
<1>2. tx' = [tx EXCEPT ![p] = t]
    BY DEF ReadPeriod
<1>3. /\ rows' = rows /\ window' = window /\ manual' = manual /\ ver' = ver
      /\ saved' = saved /\ torn' = torn /\ runs' = runs /\ basis' = basis
      /\ published' = published
    BY DEF ReadPeriod, periods, results
<1>4. tx \in [Proc -> {Idle} \cup PeriodTx \cup RunTx]
    BY DEF IInv, TypeOK
<1> HIDE DEF t
<1>5. TypeOK'
    BY <1>1, <1>2, <1>3 DEF IInv, TypeOK
<1>6. /\ t.op \in PeriodOp /\ t.year = y /\ t.ver = ver[y]
      /\ t.win = window[y] /\ t.man = manual[y]
    BY DEF t
<1>7. ver[y] <= ver[y]
    BY DEF IInv, TypeOK, NoRow
<1>8. ReadsFresh'
  <2> SUFFICES ASSUME NEW q \in Proc, tx'[q].op \in PeriodOp, ~torn[tx'[q].year]
               PROVE  /\ tx'[q].ver <= ver[tx'[q].year]
                      /\ tx'[q].ver = ver[tx'[q].year] =>
                            /\ tx'[q].win = window[tx'[q].year]
                            /\ tx'[q].man = manual[tx'[q].year]
      BY <1>3 DEF ReadsFresh
  <2>1. CASE q = p
      BY <1>2, <1>4, <1>6, <1>7, <2>1
  <2>2. CASE q # p
      BY <1>2, <1>4, <2>2 DEF IInv, ReadsFresh
  <2>3. QED
      BY <2>1, <2>2
<1>9. RunReadsFresh'
  <2>1. t.op # "run"
      BY <1>6 DEF PeriodOp
  <2>2. QED
      BY <1>2, <1>3, <1>4, <2>1 DEF IInv, RunReadsFresh, current_data_version
<1>10. OfficerWindowKept' /\ DatesKept'
  <2>1. OfficerWindowKept'
      BY <1>3 DEF IInv, OfficerWindowKept
  <2>2. DatesKept'
      BY <1>2, <1>3, <1>4, <1>6 DEF IInv, DatesKept
  <2>3. QED
      BY <2>1, <2>2
<1>11. RunsFresh'
    BY <1>3 DEF IInv, RunsFresh, current_data_version, Own, InScope, Belongs,
                effective_window
<1>12. QED
    BY <1>5, <1>8, <1>9, <1>10, <1>11 DEF IInv

-----------------------------------------------------------------------------
(* The transaction of a handler that changes one period and stores its     *)
(* version: CommitStep holds for all four of them.                         *)

LEMMA VersionGrows ==
    ASSUME IInv, NEW p \in Proc, NEW y \in Year, tx[p] \in PeriodTx,
           tx[p].year = y, StoreVersion(tx[p])
    PROVE  /\ ver' \in [Year -> Nat \cup {NoRow}]
           /\ torn' \in [Year -> BOOLEAN]
           /\ \A z \in Year \ {y} : ver'[z] = ver[z] /\ torn'[z] = torn[z]
           /\ ~torn'[y] => /\ ~torn[y]
                           /\ tx[p].ver = ver[y]
                           /\ ver[y] < ver'[y]
                           /\ current_data_version(y) < current_data_version(y)'
<1>1. /\ tx[p].ver \in Nat \cup {NoRow}
      /\ ver \in [Year -> Nat \cup {NoRow}] /\ torn \in [Year -> BOOLEAN]
    BY DEF IInv, TypeOK, PeriodTx
<1>2. Bumped(tx[p].ver) \in Nat
    BY <1>1 DEF Bumped
<1>3. /\ ver' = [ver EXCEPT ![y] = Bumped(tx[p].ver)]
      /\ torn' = [torn EXCEPT ![y] = torn[y] \/ ver[y] # tx[p].ver]
    BY DEF StoreVersion
<1>4. /\ ver' \in [Year -> Nat \cup {NoRow}]
      /\ \A z \in Year \ {y} : ver'[z] = ver[z] /\ torn'[z] = torn[z]
    BY <1>1, <1>2, <1>3
<1>5. torn' \in [Year -> BOOLEAN]
    BY <1>1, <1>3, Zenon
<1>6. ASSUME ~torn'[y] PROVE ~torn[y] /\ tx[p].ver = ver[y]
    BY <1>1, <1>3, <1>6
<1>7. ASSUME ~torn'[y]
      PROVE  ver[y] < ver'[y] /\ current_data_version(y) < current_data_version(y)'
  <2>1. ver'[y] = Bumped(ver[y])
      BY <1>1, <1>3, <1>6, <1>7
  <2>2. QED
      BY <1>1, <2>1 DEF Bumped, current_data_version, NoRow
<1>8. QED
    BY <1>4, <1>5, <1>6, <1>7

LEMMA CommitStep ==
    ASSUME IInv, TypeOK', NEW p \in Proc, NEW y \in Year, tx[p] \in PeriodTx,
           tx[p].year = y, StoreVersion(tx[p]), Done(p), UNCHANGED results,
           \A z \in Year \ {y} :
               /\ rows'[z] = rows[z] /\ window'[z] = window[z]
               /\ manual'[z] = manual[z] /\ saved'[z] = saved[z],
           window'[y] = NoWindow => window[y] = NoWindow,
           ~torn'[y] /\ manual'[y] => window'[y] = saved'[y]
    PROVE  IInv'
<1>1. /\ \A z \in Year \ {y} : ver'[z] = ver[z] /\ torn'[z] = torn[z]
      /\ ~torn'[y] => /\ ~torn[y]
                      /\ ver[y] < ver'[y]
                      /\ current_data_version(y) < current_data_version(y)'
    BY VersionGrows
<1>2. /\ tx' = [tx EXCEPT ![p] = Idle]
      /\ tx \in [Proc -> {Idle} \cup PeriodTx \cup RunTx]
    BY DEF Done, IInv, TypeOK
<1>3. /\ ver \in [Year -> Nat \cup {NoRow}] /\ ver' \in [Year -> Nat \cup {NoRow}]
      /\ runs \in [Year -> [Code -> Nat \cup {NoRun}]]
    BY DEF IInv, TypeOK
<1>4. /\ runs' = runs /\ basis' = basis
    BY DEF results
<1>11. ASSUME NEW z \in Year
       PROVE  current_data_version(z) \in Nat /\ current_data_version(z)' \in Nat
    BY <1>3, <1>11 DEF current_data_version
<1>5. ASSUME NEW q \in Proc, tx'[q].op # "idle"
      PROVE  q # p /\ tx'[q] = tx[q]
    BY <1>2, <1>5 DEF Idle
<1>6. ReadsFresh'
  <2> SUFFICES ASSUME NEW q \in Proc, tx'[q].op \in PeriodOp, ~torn'[tx'[q].year]
               PROVE  /\ tx'[q].ver <= ver'[tx'[q].year]
                      /\ tx'[q].ver = ver'[tx'[q].year] =>
                            /\ tx'[q].win = window'[tx'[q].year]
                            /\ tx'[q].man = manual'[tx'[q].year]
      BY DEF ReadsFresh
  <2>1. tx'[q] = tx[q]
      BY <1>5 DEF PeriodOp
  <2>2. tx[q] \in PeriodTx
      BY <2>1, TxKinds DEF IInv
  <2>3. tx[q].year \in Year /\ tx[q].ver \in Nat \cup {NoRow}
      BY <2>2 DEF PeriodTx
  <2>4. CASE tx[q].year = y
    <3>1. tx[q].ver <= ver[y] /\ ver[y] < ver'[y]
        BY <1>1, <2>1, <2>4 DEF IInv, ReadsFresh
    <3>2. tx[q].ver < ver'[y]
        BY <1>1, <1>3, <2>3, <3>1 DEF NoRow
    <3>3. QED
        BY <1>1, <1>3, <2>1, <2>3, <2>4, <3>2 DEF NoRow
  <2>5. CASE tx[q].year # y
      BY <1>1, <2>1, <2>3, <2>5 DEF IInv, ReadsFresh
  <2>6. QED
      BY <2>4, <2>5
<1>7. RunReadsFresh'
  <2> SUFFICES ASSUME NEW q \in Proc, tx'[q].op = "run"
               PROVE  (/\ ~torn[tx[q].year] =>
                             tx[q].ver <= current_data_version(tx[q].year)
                       /\ tx[q].full => BuiltIn \subseteq tx[q].codes)'
      BY DEF RunReadsFresh
  <2>1. tx'[q] = tx[q]
      BY <1>5
  <2>2. tx[q] \in RunTx
      BY <2>1, TxKinds DEF IInv
  <2>3. tx[q].year \in Year /\ tx[q].ver \in Nat
      BY <2>2 DEF RunTx
  <2>4. /\ ~torn[tx[q].year] => tx[q].ver <= current_data_version(tx[q].year)
        /\ tx[q].full => BuiltIn \subseteq tx[q].codes
      BY <2>1 DEF IInv, RunReadsFresh
  <2>5. CASE tx[q].year = y
    <3>1. tx[q].ver < current_data_version(y)' \/ torn'[y]
        BY <1>1, <1>11, <2>3, <2>4, <2>5
    <3>2. QED
        BY <1>1, <1>11, <2>1, <2>3, <2>4, <2>5, <3>1 DEF current_data_version
  <2>6. CASE tx[q].year # y
      BY <1>1, <2>1, <2>3, <2>4, <2>6 DEF current_data_version
  <2>7. QED
      BY <2>5, <2>6
<1>8. OfficerWindowKept'
    BY <1>1 DEF IInv, OfficerWindowKept
<1>9. RunsFresh'
  <2> SUFFICES ASSUME NEW z \in Year, NEW c \in Code, ~torn'[z], runs[z][c] # NoRun
               PROVE  /\ runs[z][c] <= current_data_version(z)'
                      /\ runs[z][c] = current_data_version(z)' /\ basis[z][c] # Wiped
                            => Own(z, basis[z][c]) = Own(z, InScope(z))'
      BY <1>4 DEF RunsFresh, Own
  <2>1. runs[z][c] \in Nat
      BY <1>3
  <2>2. CASE z = y
    <3>1. runs[z][c] <= current_data_version(z)
        BY <1>1, <2>2 DEF IInv, RunsFresh
    <3>2. runs[z][c] < current_data_version(z)'
        BY <1>1, <1>11, <2>1, <2>2, <3>1
    <3>3. QED
        BY <1>11, <2>1, <3>2
  <2>3. CASE z # y
    <3>1. rows'[z] = rows[z] /\ window'[z] = window[z]
        BY <2>3
    <3>2. Own(z, InScope(z))' = Own(z, InScope(z))
        BY <3>1, OwnScope
    <3>3. QED
        BY <1>1, <2>3, <3>2 DEF IInv, RunsFresh, current_data_version
  <2>4. QED
      BY <2>2, <2>3
<1>10. DatesKept'
  <2> SUFFICES ASSUME NEW q \in Proc, tx'[q].op \in PeriodOp,
                      tx'[q].win # NoWindow
               PROVE  (window[tx[q].year] # NoWindow)'
      BY DEF DatesKept
  <2>1. tx'[q] = tx[q]
      BY <1>5 DEF PeriodOp
  <2>2. tx[q] \in PeriodTx
      BY <2>1, TxKinds DEF IInv
  <2>3. tx[q].year \in Year /\ window[tx[q].year] # NoWindow
      BY <2>1, <2>2 DEF PeriodTx, IInv, DatesKept
  <2>4. QED
      BY <2>1, <2>3
<1>12. QED
    BY <1>6, <1>7, <1>8, <1>9, <1>10 DEF IInv

\* What the four handlers' transactions have in common.
LEMMA PeriodTxOf ==
    ASSUME IInv, NEW p \in Proc, tx[p].op \in PeriodOp
    PROVE  /\ tx[p] \in PeriodTx
           /\ tx[p].year \in Year
           /\ tx[p].man \in BOOLEAN
           /\ tx[p].op \in {"ingest", "set_period"} => tx[p].to \in Window
           /\ tx[p].win \in Window \cup {NoWindow}
           /\ tx[p].load \in SUBSET (Date \cup {Undated})
           /\ tx[p].win # NoWindow => window[tx[p].year] # NoWindow
           /\ ~torn[tx[p].year] /\ tx[p].ver = ver[tx[p].year] =>
                /\ tx[p].win = window[tx[p].year]
                /\ tx[p].man = manual[tx[p].year]
<1>1. tx[p] \in PeriodTx
    BY TxKinds DEF IInv
<1>2. QED
    BY <1>1 DEF PeriodTx, IInv, ReadsFresh, DatesKept

LEMMA NoWindowIsNone == NoWindow \notin Window
BY DataVersionAssumption DEF DataVersionAssumption, NoWindow

LEMMA IdleTx ==
    ASSUME TypeOK, NEW p \in Proc, Done(p)
    PROVE  tx' \in [Proc -> {Idle} \cup PeriodTx \cup RunTx]
BY DEF TypeOK, Done

LEMMA IngestStep ==
    ASSUME IInv, NEW p \in Proc, IngestCommit(p)
    PROVE  IInv'
<1> PICK y \in Year : tx[p].year = y
    BY PeriodTxOf DEF IngestCommit, PeriodOp
<1> DEFINE t == tx[p]
<1>1. tx[p].op \in PeriodOp
    BY DEF IngestCommit, PeriodOp
<1>2. /\ t \in PeriodTx
      /\ t.op \in {"ingest", "set_period"} => t.to \in Window
      /\ t.man \in BOOLEAN /\ t.load \in SUBSET (Date \cup {Undated})
      /\ ~torn[y] /\ t.ver = ver[y] => t.win = window[y] /\ t.man = manual[y]
    BY <1>1, PeriodTxOf
<1>3. /\ rows' = [rows EXCEPT ![y] = t.load]
      /\ StoreVersion(t)
      /\ Done(p)
      /\ manual' = manual /\ published' = published /\ saved' = saved
      /\ UNCHANGED results
      /\ window' = IF t.man \/ t.to = t.win THEN window
                   ELSE [window EXCEPT ![y] = t.to]
    BY DEF IngestCommit, StoreWindow
<1>4. /\ ver' \in [Year -> Nat \cup {NoRow}] /\ torn' \in [Year -> BOOLEAN]
      /\ ~torn'[y] => ~torn[y] /\ t.ver = ver[y]
    BY <1>2, <1>3, VersionGrows
<1>5. TypeOK'
  <2>1. t.to \in Window /\ NoWindow \notin Window
      BY <1>2, NoWindowIsNone DEF IngestCommit
  <2>2. rows' \in [Year -> SUBSET (Date \cup {Undated})]
      BY <1>2, <1>3 DEF IInv, TypeOK
  <2>3. window' \in [Year -> Window \cup {NoWindow}]
      BY <1>3, <2>1 DEF IInv, TypeOK
  <2>4. \A z \in Year : manual'[z] => window'[z] # NoWindow
      BY <1>3, <2>1 DEF IInv, TypeOK
  <2>5. tx' \in [Proc -> {Idle} \cup PeriodTx \cup RunTx]
      BY <1>3, IdleTx DEF IInv
  <2>6. QED
      BY <1>3, <1>4, <2>2, <2>3, <2>4, <2>5 DEF IInv, TypeOK, results
<1>6. ~torn'[y] /\ manual'[y] => window'[y] = saved'[y]
    BY <1>2, <1>3, <1>4 DEF IInv, OfficerWindowKept
<1>7. \A z \in Year \ {y} : /\ rows'[z] = rows[z] /\ window'[z] = window[z]
                            /\ manual'[z] = manual[z] /\ saved'[z] = saved[z]
    BY <1>3 DEF IInv, TypeOK
<1>8. window'[y] = NoWindow => window[y] = NoWindow
    BY <1>2, <1>3, NoWindowIsNone DEF IInv, TypeOK, IngestCommit
<1>9. QED
    BY <1>2, <1>3, <1>5, <1>6, <1>7, <1>8, CommitStep

LEMMA SetPeriodStep ==
    ASSUME IInv, NEW p \in Proc, SetPeriodCommit(p)
    PROVE  IInv'
<1> PICK y \in Year : tx[p].year = y
    BY PeriodTxOf DEF SetPeriodCommit, PeriodOp
<1> DEFINE t == tx[p]
<1>1. /\ t \in PeriodTx /\ t.man \in BOOLEAN /\ t.to \in Window
      /\ t.win # NoWindow => window[y] # NoWindow
      /\ ~torn[y] /\ t.ver = ver[y] => t.win = window[y] /\ t.man = manual[y]
    BY PeriodTxOf DEF SetPeriodCommit, PeriodOp
<1>2. /\ StoreVersion(t)
      /\ Done(p)
      /\ manual' = IF t.man THEN manual ELSE [manual EXCEPT ![y] = TRUE]
      /\ saved' = [saved EXCEPT ![y] = t.to]
      /\ window' = IF t.to # t.win THEN [window EXCEPT ![y] = t.to] ELSE window
      /\ rows' = rows /\ published' = published
      /\ UNCHANGED results
    BY DEF SetPeriodCommit, StoreWindow
<1>3. /\ ver' \in [Year -> Nat \cup {NoRow}] /\ torn' \in [Year -> BOOLEAN]
      /\ ~torn'[y] => ~torn[y] /\ t.ver = ver[y]
    BY <1>1, <1>2, VersionGrows
<1>4. /\ window \in [Year -> Window \cup {NoWindow}]
      /\ manual \in [Year -> BOOLEAN] /\ saved \in [Year -> Window]
      /\ \A z \in Year : manual[z] => window[z] # NoWindow
    BY DEF IInv, TypeOK
<1>5. window'[y] # NoWindow /\ t.to # NoWindow
    BY <1>1, <1>2, <1>4, NoWindowIsNone
<1>6. TypeOK'
  <2>1. window' \in [Year -> Window \cup {NoWindow}] /\ saved' \in [Year -> Window]
      BY <1>1, <1>2, <1>4
  <2>2. manual' \in [Year -> BOOLEAN]
      BY <1>1, <1>2, <1>4, Zenon
  <2>3. \A z \in Year : manual'[z] => window'[z] # NoWindow
      BY <1>2, <1>4, <1>5
  <2>4. tx' \in [Proc -> {Idle} \cup PeriodTx \cup RunTx]
      BY <1>2, IdleTx DEF IInv
  <2>5. QED
      BY <1>2, <1>3, <2>1, <2>2, <2>3, <2>4 DEF IInv, TypeOK, results
<1>7. ~torn'[y] /\ manual'[y] => window'[y] = saved'[y]
    BY <1>1, <1>2, <1>3, <1>4
<1>8. \A z \in Year \ {y} : /\ rows'[z] = rows[z] /\ window'[z] = window[z]
                            /\ manual'[z] = manual[z] /\ saved'[z] = saved[z]
    BY <1>2, <1>4
<1>9. QED
    BY <1>1, <1>2, <1>5, <1>6, <1>7, <1>8, CommitStep

LEMMA ResetStep ==
    ASSUME IInv, NEW p \in Proc, ResetCommit(p)
    PROVE  IInv'
<1> PICK y \in Year : tx[p].year = y
    BY PeriodTxOf DEF ResetCommit, PeriodOp
<1> DEFINE t == tx[p]
<1>1. t \in PeriodTx /\ t.man \in BOOLEAN
    BY PeriodTxOf DEF ResetCommit, PeriodOp
<1>2. /\ StoreVersion(t)
      /\ Done(p)
      /\ manual' = IF t.man THEN [manual EXCEPT ![y] = FALSE] ELSE manual
      /\ rows' = rows /\ window' = window /\ saved' = saved
      /\ published' = published
      /\ UNCHANGED results
    BY DEF ResetCommit
<1>3. /\ ver' \in [Year -> Nat \cup {NoRow}] /\ torn' \in [Year -> BOOLEAN]
      /\ ~torn'[y] => ~torn[y]
    BY <1>1, <1>2, VersionGrows
<1>4. /\ manual' \in [Year -> BOOLEAN]
      /\ \A z \in Year : manual'[z] => manual[z]
      /\ \A z \in Year \ {y} : manual'[z] = manual[z]
  <2>1. manual \in [Year -> BOOLEAN]
      BY DEF IInv, TypeOK
  <2>2. QED
      BY <1>2, <2>1
<1>5. TypeOK'
  <2>1. tx' \in [Proc -> {Idle} \cup PeriodTx \cup RunTx]
      BY <1>2, IdleTx DEF IInv
  <2>2. QED
      BY <1>2, <1>3, <1>4, <2>1 DEF IInv, TypeOK, results
<1>6. ~torn'[y] /\ manual'[y] => window'[y] = saved'[y]
    BY <1>2, <1>3, <1>4 DEF IInv, OfficerWindowKept
<1>7. QED
    BY <1>1, <1>2, <1>4, <1>5, <1>6, CommitStep

LEMMA FilesStep ==
    ASSUME IInv, NEW p \in Proc, FilesCommit(p)
    PROVE  IInv'
<1> PICK y \in Year : tx[p].year = y
    BY PeriodTxOf DEF FilesCommit, PeriodOp
<1> DEFINE t == tx[p]
<1>1. t \in PeriodTx
    BY PeriodTxOf DEF FilesCommit, PeriodOp
<1>2. /\ StoreVersion(t)
      /\ Done(p)
      /\ rows' = rows /\ window' = window /\ manual' = manual /\ saved' = saved
      /\ published' = published
      /\ UNCHANGED results
    BY DEF FilesCommit
<1>3. /\ ver' \in [Year -> Nat \cup {NoRow}] /\ torn' \in [Year -> BOOLEAN]
      /\ ~torn'[y] => ~torn[y]
    BY <1>1, <1>2, VersionGrows
<1>4. TypeOK'
  <2>1. tx' \in [Proc -> {Idle} \cup PeriodTx \cup RunTx]
      BY <1>2, IdleTx DEF IInv
  <2>2. QED
      BY <1>2, <1>3, <2>1 DEF IInv, TypeOK, results
<1>5. ~torn'[y] /\ manual'[y] => window'[y] = saved'[y]
    BY <1>2, <1>3 DEF IInv, OfficerWindowKept
<1>6. QED
    BY <1>1, <1>2, <1>4, <1>5, CommitStep

-----------------------------------------------------------------------------
(* Steps that leave the periods alone.                                     *)

LEMMA PeriodsKept ==
    ASSUME IInv, UNCHANGED periods,
           \A q \in Proc : tx'[q] = tx[q] \/ tx'[q] = Idle
    PROVE  ReadsFresh' /\ DatesKept' /\ RunReadsFresh' /\ OfficerWindowKept'
<1>1. /\ rows' = rows /\ window' = window /\ manual' = manual /\ ver' = ver
      /\ saved' = saved /\ torn' = torn
    BY DEF periods
<1>2. \A q \in Proc : tx'[q].op # "idle" => tx'[q] = tx[q]
    BY DEF Idle
<1>3. ReadsFresh'
    BY <1>1, <1>2 DEF IInv, ReadsFresh, PeriodOp
<1>4. DatesKept'
    BY <1>1, <1>2 DEF IInv, DatesKept, PeriodOp
<1>5. RunReadsFresh'
    BY <1>1, <1>2 DEF IInv, RunReadsFresh, current_data_version
<1>6. QED
    BY <1>1, <1>3, <1>4, <1>5 DEF IInv, OfficerWindowKept

LEMMA ResultsKept ==
    ASSUME IInv, UNCHANGED periods, UNCHANGED results
    PROVE  RunsFresh'
BY DEF IInv, RunsFresh, periods, results, current_data_version, Own, InScope,
       Belongs, effective_window

LEMMA AbortStep ==
    ASSUME IInv, NEW p \in Proc, Abort(p)
    PROVE  IInv'
<1>1. /\ UNCHANGED periods /\ UNCHANGED results /\ published' = published
      /\ tx' = [tx EXCEPT ![p] = Idle]
    BY DEF Abort, Done
<1>2. tx \in [Proc -> {Idle} \cup PeriodTx \cup RunTx]
    BY DEF IInv, TypeOK
<1>3. TypeOK'
  <2>1. tx' \in [Proc -> {Idle} \cup PeriodTx \cup RunTx]
      BY <1>1, <1>2
  <2>2. QED
      BY <1>1, <2>1 DEF IInv, TypeOK, periods, results
<1>4. \A q \in Proc : tx'[q] = tx[q] \/ tx'[q] = Idle
    BY <1>1, <1>2
<1>5. QED
    BY <1>1, <1>3, <1>4, PeriodsKept, ResultsKept DEF IInv

LEMMA PublishStep ==
    ASSUME IInv, NEW c \in Dynamic, Publish(c)
    PROVE  IInv'
<1>1. /\ UNCHANGED periods /\ UNCHANGED results /\ tx' = tx
      /\ published' \subseteq Dynamic
    BY DEF Publish, IInv, TypeOK
<1>2. TypeOK'
    BY <1>1 DEF IInv, TypeOK, periods, results
<1>3. QED
    BY <1>1, <1>2, PeriodsKept, ResultsKept DEF IInv

LEMMA RunReadStep ==
    ASSUME IInv, NEW p \in Proc, NEW y \in Year, NEW only \in SUBSET Code,
           RunRead(p, y, only)
    PROVE  IInv'
<1> DEFINE t == [op |-> "run", year |-> y, ver |-> current_data_version(y),
                 codes |-> (BuiltIn \cup published) \cap only,
                 full |-> only = Code]
<1>1. /\ UNCHANGED periods /\ UNCHANGED results /\ published' = published
      /\ tx' = [tx EXCEPT ![p] = t]
    BY DEF RunRead
<1>2. tx \in [Proc -> {Idle} \cup PeriodTx \cup RunTx]
    BY DEF IInv, TypeOK
<1>3. current_data_version(y) \in Nat
    BY DEF IInv, TypeOK, current_data_version
<1>4. t \in RunTx
    BY <1>3 DEF RunTx
<1>5. /\ t.op = "run" /\ t.year = y /\ t.ver = current_data_version(y)
      /\ t.full => BuiltIn \subseteq t.codes
    BY DEF Code
<1> HIDE DEF t
<1>6. TypeOK'
  <2>1. tx' \in [Proc -> {Idle} \cup PeriodTx \cup RunTx]
      BY <1>1, <1>2, <1>4
  <2>2. QED
      BY <1>1, <2>1 DEF IInv, TypeOK, periods, results
<1>7. \A q \in Proc : tx'[q] = IF q = p THEN t ELSE tx[q]
    BY <1>1, <1>2
<1>8. /\ rows' = rows /\ window' = window /\ manual' = manual /\ ver' = ver
      /\ saved' = saved /\ torn' = torn
    BY <1>1 DEF periods
<1>9. t.op \notin PeriodOp
    BY <1>5 DEF PeriodOp
<1>10. ReadsFresh' /\ DatesKept'
    BY <1>7, <1>8, <1>9 DEF IInv, ReadsFresh, DatesKept
<1>11. RunReadsFresh'
  <2> SUFFICES ASSUME NEW q \in Proc, tx'[q].op = "run"
               PROVE  (/\ ~torn[tx[q].year] =>
                             tx[q].ver <= current_data_version(tx[q].year)
                       /\ tx[q].full => BuiltIn \subseteq tx[q].codes)'
      BY DEF RunReadsFresh
  <2>1. CASE q = p
    <3>1. current_data_version(y)' = current_data_version(y)
        BY <1>8 DEF current_data_version
    <3>2. tx'[q] = t
        BY <1>7, <2>1
    <3>3. QED
        BY <1>3, <1>5, <1>8, <3>1, <3>2 DEF current_data_version
  <2>2. CASE q # p
      BY <1>7, <1>8, <2>2 DEF IInv, RunReadsFresh, current_data_version
  <2>3. QED
      BY <2>1, <2>2
<1>12. OfficerWindowKept'
    BY <1>8 DEF IInv, OfficerWindowKept
<1>13. QED
    BY <1>1, <1>6, <1>10, <1>11, <1>12, ResultsKept DEF IInv

-----------------------------------------------------------------------------
(* The transaction of a run, whole or broken off.                          *)

LEMMA RunTxOf ==
    ASSUME IInv, NEW p \in Proc, tx[p].op = "run"
    PROVE  /\ tx[p].year \in Year /\ tx[p].ver \in Nat
           /\ tx[p].codes \subseteq Code /\ tx[p].full \in BOOLEAN
           /\ ~torn[tx[p].year] =>
                 tx[p].ver <= current_data_version(tx[p].year)
           /\ tx[p].full => BuiltIn \subseteq tx[p].codes
<1>1. tx[p] \in RunTx
    BY TxKinds DEF IInv
<1>2. QED
    BY <1>1 DEF RunTx, IInv, RunReadsFresh

LEMMA RunStep ==
    ASSUME IInv, NEW p \in Proc, RunCommit(p)
    PROVE  IInv'
<1> PICK y \in Year : tx[p].year = y
    BY RunTxOf DEF RunCommit
<1> DEFINE t == tx[p]
<1>1. /\ t.ver \in Nat /\ t.codes \subseteq Code
      /\ ~torn[y] => t.ver <= current_data_version(y)
    BY RunTxOf DEF RunCommit
<1>2. /\ UNCHANGED periods /\ published' = published /\ Done(p)
      /\ basis' = [basis EXCEPT ![y] = [c \in Code |->
                      IF c \in t.codes THEN InScope(y)
                      ELSE IF c \in Cleared(t) THEN Wiped ELSE basis[y][c]]]
      /\ runs' = [runs EXCEPT ![y] = [c \in Code |->
                      IF c \in t.codes THEN t.ver
                      ELSE IF c \in Cleared(t) THEN NoRun ELSE runs[y][c]]]
    BY DEF RunCommit
<1>3. /\ runs \in [Year -> [Code -> Nat \cup {NoRun}]]
      /\ basis \in [Year -> [Code -> Selection \cup {Wiped}]]
      /\ tx \in [Proc -> {Idle} \cup PeriodTx \cup RunTx]
    BY DEF IInv, TypeOK
<1>4. InScope(y) \in Selection
    BY ScopeType
<1>5. TypeOK'
  <2>1. tx' \in [Proc -> {Idle} \cup PeriodTx \cup RunTx]
      BY <1>2, IdleTx DEF IInv
  <2>2. runs' \in [Year -> [Code -> Nat \cup {NoRun}]]
      BY <1>1, <1>2, <1>3
  <2>3. basis' \in [Year -> [Code -> Selection \cup {Wiped}]]
      BY <1>2, <1>3, <1>4
  <2>4. QED
      BY <1>2, <2>1, <2>2, <2>3 DEF IInv, TypeOK, periods
<1>6. \A q \in Proc : tx'[q] = tx[q] \/ tx'[q] = Idle
    BY <1>2, <1>3 DEF Done
<1>7. RunsFresh'
  <2>1. /\ rows' = rows /\ window' = window /\ ver' = ver /\ torn' = torn
      BY <1>2 DEF periods
  <2> SUFFICES ASSUME NEW z \in Year, NEW c \in Code,
                      ~torn'[z], runs'[z][c] # NoRun
               PROVE  (/\ runs[z][c] <= current_data_version(z)
                       /\ runs[z][c] = current_data_version(z)
                              /\ basis[z][c] # Wiped
                              => Own(z, basis[z][c]) = Own(z, InScope(z)))'
      BY DEF RunsFresh
  <2>2. /\ current_data_version(z)' = current_data_version(z)
        /\ Own(z, InScope(z))' = Own(z, InScope(z))
      BY <2>1, OwnScope DEF current_data_version
  <2>3. CASE z = y /\ c \in t.codes
    <3>1. runs'[z][c] = t.ver /\ basis'[z][c] = InScope(z)
        BY <1>2, <1>3, <2>3
    <3>2. Own(z, basis[z][c])' = Own(z, InScope(z))
        BY <3>1 DEF Own
    <3>3. QED
        BY <1>1, <2>1, <2>2, <2>3, <3>1, <3>2
  <2>4. CASE ~(z = y /\ c \in t.codes)
    <3>1. runs'[z][c] = runs[z][c]
        BY <1>2, <1>3, <2>4
    <3>2. basis'[z][c] \in {basis[z][c], Wiped}
        BY <1>2, <1>3, <2>4
    <3>3. /\ runs[z][c] <= current_data_version(z)
          /\ runs[z][c] = current_data_version(z) /\ basis[z][c] # Wiped
                => Own(z, basis[z][c]) = Own(z, InScope(z))
        BY <2>1, <3>1 DEF IInv, RunsFresh
    <3>4. QED
        BY <2>2, <3>1, <3>2, <3>3 DEF Own
  <2>5. QED
      BY <2>3, <2>4
<1>8. QED
    BY <1>2, <1>5, <1>6, <1>7, PeriodsKept DEF IInv

LEMMA FailedRunStep ==
    ASSUME IInv, NEW p \in Proc, RunFails(p)
    PROVE  IInv'
<1> PICK y \in Year : tx[p].year = y
    BY RunTxOf DEF RunFails
<1> DEFINE t == tx[p]
<1> PICK before \in SUBSET t.codes :
        basis' = [basis EXCEPT ![y] = [c \in Code |->
                     IF c \in before THEN InScope(y)
                     ELSE IF c \in t.codes \cup Cleared(t) THEN Wiped
                     ELSE basis[y][c]]]
    BY DEF RunFails
<1>2. UNCHANGED periods /\ published' = published /\ runs' = runs /\ Done(p)
    BY DEF RunFails
<1>3. /\ basis \in [Year -> [Code -> Selection \cup {Wiped}]]
      /\ tx \in [Proc -> {Idle} \cup PeriodTx \cup RunTx]
    BY DEF IInv, TypeOK
<1>4. InScope(y) \in Selection
    BY ScopeType
<1>5. TypeOK'
  <2>1. tx' \in [Proc -> {Idle} \cup PeriodTx \cup RunTx]
      BY <1>2, IdleTx DEF IInv
  <2>2. basis' \in [Year -> [Code -> Selection \cup {Wiped}]]
      BY <1>3, <1>4
  <2>3. QED
      BY <1>2, <2>1, <2>2 DEF IInv, TypeOK, periods
<1>6. \A q \in Proc : tx'[q] = tx[q] \/ tx'[q] = Idle
    BY <1>2, <1>3 DEF Done
<1>7. RunsFresh'
  <2>1. /\ rows' = rows /\ window' = window /\ ver' = ver /\ torn' = torn
      BY <1>2 DEF periods
  <2> SUFFICES ASSUME NEW z \in Year, NEW c \in Code,
                      ~torn'[z], runs'[z][c] # NoRun
               PROVE  (/\ runs[z][c] <= current_data_version(z)
                       /\ runs[z][c] = current_data_version(z)
                              /\ basis[z][c] # Wiped
                              => Own(z, basis[z][c]) = Own(z, InScope(z)))'
      BY DEF RunsFresh
  <2>2. /\ current_data_version(z)' = current_data_version(z)
        /\ Own(z, InScope(z))' = Own(z, InScope(z))
      BY <2>1, OwnScope DEF current_data_version
  <2>3. basis'[z][c] \in {basis[z][c], Wiped, InScope(z)}
      BY <1>3
  <2>4. /\ runs[z][c] <= current_data_version(z)
        /\ runs[z][c] = current_data_version(z) /\ basis[z][c] # Wiped
              => Own(z, basis[z][c]) = Own(z, InScope(z))
      BY <1>2, <2>1 DEF IInv, RunsFresh
  <2>5. QED
      BY <1>2, <2>2, <2>3, <2>4 DEF Own
<1>8. QED
    BY <1>2, <1>5, <1>6, <1>7, PeriodsKept DEF IInv

-----------------------------------------------------------------------------

LEMMA StepIInv == IInv /\ [Next]_vars => IInv'
<1> SUFFICES ASSUME IInv, [Next]_vars PROVE IInv'
    OBVIOUS
<1>1. ASSUME NEW p \in Worker, WorkerStep(p) PROVE IInv'
  <2>1. p \in Proc
      BY DEF Proc
  <2>2. ASSUME NEW y \in Year, NEW to \in Window, NEW load \in Load,
               IngestRead(p, y, to, load)
        PROVE  IInv'
    <3>1. load \in SUBSET (Date \cup {Undated})
        BY DataVersionAssumption DEF DataVersionAssumption
    <3>2. QED
        BY <2>1, <2>2, <3>1, ReadStep DEF IngestRead, PeriodOp
  <2>3. ASSUME NEW y \in Year, NEW only \in SUBSET Code, RunRead(p, y, only)
        PROVE  IInv'
      BY <2>1, <2>3, RunReadStep
  <2>4. QED
      BY <1>1, <2>1, <2>2, <2>3, IngestStep, RunStep, FailedRunStep, AbortStep
      DEF WorkerStep
<1>2. ASSUME NEW p \in Request, RequestStep(p) PROVE IInv'
  <2>1. p \in Proc
      BY DEF Proc
  <2>2. ASSUME NEW y \in Year, NEW to \in Window, SetPeriodRead(p, y, to)
        PROVE  IInv'
      BY <2>1, <2>2, ReadStep DEF SetPeriodRead, PeriodOp
  <2>3. ASSUME NEW y \in Year, ResetRead(p, y) \/ FilesRead(p, y)
        PROVE  IInv'
    <3>1. window[y] \in Window \cup {NoWindow}
        BY DEF IInv, TypeOK
    <3>2. QED
        BY <2>1, <2>3, <3>1, ReadStep DEF ResetRead, FilesRead, PeriodOp
  <2>4. QED
      BY <1>2, <2>1, <2>2, <2>3, SetPeriodStep, ResetStep, FilesStep, AbortStep
      DEF RequestStep
<1>3. CASE UNCHANGED vars
  <2>1. UNCHANGED periods /\ UNCHANGED results /\ tx' = tx /\ published' = published
      BY <1>3 DEF vars, periods, results
  <2>2. TypeOK'
      BY <2>1 DEF IInv, TypeOK, periods, results
  <2>3. QED
      BY <2>1, <2>2, PeriodsKept, ResultsKept DEF IInv
<1>4. QED
    BY <1>1, <1>2, <1>3, PublishStep DEF Next

\* The inductive invariant of the versions: what a handler or a run read is
\* what the period still has, or its version is behind.
THEOREM Invariance == Spec => []IInv
BY InitIInv, StepIInv, PTL DEF Spec

\* The tables, and what a handler holds, keep their shape, and only a period
\* with dates is ever marked as set by hand.
THEOREM TypeCorrect == Spec => []TypeOK
<1>1. IInv => TypeOK
    BY DEF IInv
<1>2. QED
    BY Invariance, <1>1, PTL

\* For any number of periods, threads and codes: results read from other rows
\* of their own period, or under another window, than it has now are shown as
\* stale, unless a stored version overwrote one its writer had not read.
THEOREM StaleResultsAreFlagged == Spec => []OwnChangesFlagged
<1>1. IInv => OwnChangesFlagged
  <2> SUFFICES ASSUME IInv, NEW y \in Year, NEW c \in Code, ~torn[y],
                      runs[y][c] # NoRun, basis[y][c] # Wiped,
                      ~ReadFrom(y, c, InScope(y))
               PROVE  results_stale(y)
      BY DEF OwnChangesFlagged
  <2>1. /\ runs[y][c] <= current_data_version(y)
        /\ runs[y][c] # current_data_version(y)
      BY DEF IInv, RunsFresh, ReadFrom
  <2>2. runs[y][c] \in Nat /\ current_data_version(y) \in Nat
      BY DEF IInv, TypeOK, current_data_version
  <2>3. current_data_version(y) > runs[y][c]
      BY <2>1, <2>2
  <2>4. QED
      BY <2>3 DEF results_stale, data_version_moved
<1>2. QED
    BY Invariance, <1>1, PTL

\* Under the same condition the officer's window outlives every later load.
THEOREM OfficerWindowSurvives == Spec => []OfficerWindowKept
<1>1. IInv => OfficerWindowKept
    BY DEF IInv
<1>2. QED
    BY Invariance, <1>1, PTL

\* A full run on the current version always leaves its period not stale: the
\* rows of the codes it did not run are gone.
THEOREM FullRunsSettle == Spec => FullRunSettles
<1> DEFINE Settled == \A p \in Worker, y \in Year :
              (/\ RunCommit(p)
               /\ tx[p].full
               /\ tx[p].year = y
               /\ tx[p].ver = current_data_version(y))
              => ~results_stale(y)'
<1>1. ASSUME IInv PROVE Settled
  <2> SUFFICES ASSUME NEW p \in Worker, NEW y \in Year, RunCommit(p),
                      tx[p].full, tx[p].year = y,
                      tx[p].ver = current_data_version(y)
               PROVE  ~results_stale(y)'
      OBVIOUS
  <2>1. p \in Proc /\ tx[p].op = "run"
      BY DEF Proc, RunCommit
  <2>2. /\ tx[p].ver \in Nat
        /\ BuiltIn \subseteq tx[p].codes
      BY <1>1, <2>1, RunTxOf
  <2>3. /\ runs \in [Year -> [Code -> Nat \cup {NoRun}]]
        /\ current_data_version(y)' = current_data_version(y)
      BY <1>1 DEF IInv, TypeOK, RunCommit, periods, current_data_version
  <2>4. \A c \in Code : runs'[y][c] \in {tx[p].ver, NoRun}
      BY <2>2, <2>3 DEF RunCommit, Cleared, Code
  <2>5. \A c \in Code : ~(/\ runs[y][c] # NoRun
                          /\ current_data_version(y) > runs[y][c])'
      BY <2>2, <2>3, <2>4
  <2>6. QED
      BY <2>5 DEF results_stale, data_version_moved
<1>2. QED
  <2>1. IInv => [Settled]_vars
      BY <1>1
  <2>2. QED
      BY Invariance, <2>1, PTL DEF FullRunSettles

=============================================================================
