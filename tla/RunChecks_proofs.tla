--------------------------- MODULE RunChecks_proofs ---------------------------
(***************************************************************************)
(* Proofs about RunChecks: the findings table keeps its primary key        *)
(* although ids of deleted rows come back, so a verdict changes one row;   *)
(* combined findings are backed; and the stored score is the score of the  *)
(* findings unless a run broke off or a verdict hit a replaced finding.    *)
(***************************************************************************)
EXTENDS RunChecks, TLAPS, FiniteSetTheorems, WellFoundedInduction

-----------------------------------------------------------------------------
(* Finite sets of numbers                                                  *)

\* Every finite set of integers but the empty one has a largest element: a
\* smallest set without one would lack one less.
LEMMA LargestExists ==
    ASSUME NEW S \in SUBSET Int, IsFiniteSet(S), S # {}
    PROVE  \E m \in S : \A k \in S : k <= m
<1> DEFINE NoMax == {T \in SUBSET S : T # {} /\ ~\E m \in T : \A k \in T : k <= m}
<1>1. NoMax \subseteq FiniteSubsetsOf(S)
    BY FS_Subset DEF FiniteSubsetsOf
<1>2. SUFFICES ASSUME NoMax # {} PROVE FALSE
    OBVIOUS
<1>3. PICK T \in NoMax : \A U \in NoMax : <<U, T>> \notin StrictSubsetOrdering(S)
  <2> HIDE DEF NoMax
  <2>1. IsWellFoundedOn(StrictSubsetOrdering(S), FiniteSubsetsOf(S))
      BY FS_StrictSubsetOrderingWellFounded
  <2>2. QED
      BY <1>1, <1>2, <2>1, WFMin
<1>4. PICK x \in T : TRUE
    OBVIOUS
<1> DEFINE U == T \ {x}
<1>5. U \notin NoMax
    BY <1>3 DEF StrictSubsetOrdering
<1>6. CASE U = {}
    BY <1>4, <1>6
<1>7. CASE U # {}
  <2>1. PICK m \in U : \A k \in U : k <= m
      BY <1>5, <1>7
  <2>2. m \in Int /\ x \in Int /\ T \subseteq Int
      BY <1>4
  <2>3. CASE x <= m
      BY <2>1, <2>2, <2>3
  <2>4. CASE ~(x <= m)
      BY <2>1, <2>2, <2>4
  <2>5. QED
      BY <2>3, <2>4
<1>8. QED
    BY <1>6, <1>7

\* The operator that picks it does.
LEMMA MaxOfIsLargest ==
    ASSUME NEW S \in SUBSET Int, IsFiniteSet(S), S # {}
    PROVE  MaxOf(S) \in S /\ \A k \in S : k <= MaxOf(S)
BY LargestExists DEF MaxOf

\* A share of a whole, per thousand, is at most a thousand.
LEMMA PerThousand ==
    ASSUME NEW a \in Nat, NEW b \in Nat, b > 0, a <= b
    PROVE  (1000 * a) \div b \in 0 .. 1000
<1> DEFINE q == (1000 * a) \div b
<1>1. q \in Int /\ q * b <= 1000 * a /\ 1000 * a < q * b + b
    OBVIOUS
<1>2. q >= 0
    BY <1>1
<1>3. q <= 1000
    BY <1>1
<1>4. QED
    BY <1>1, <1>2, <1>3

-----------------------------------------------------------------------------
(* The tables                                                              *)

\* A findings table: finite, typed, and with id as its primary key.
Table(fs) ==
    /\ IsFiniteSet(fs)
    /\ \A f \in fs : f \in Finding
    /\ \A f, g \in fs : f.id = g.id => f = g

\* What is left of a table is one.
LEMMA PartOfTable ==
    ASSUME NEW fs, Table(fs), NEW gs \in SUBSET fs
    PROVE  Table(gs)
BY FS_Subset DEF Table

\* The number the next row is counted from bounds every id in the table.
LEMMA LastIdBounds ==
    ASSUME NEW fs, Table(fs)
    PROVE  LastId(fs) \in Nat /\ \A f \in fs : f.id <= LastId(fs)
<1>1. CASE fs = {}
    BY <1>1 DEF LastId
<1>2. CASE fs # {}
  <2> DEFINE h == [f \in fs |-> f.id]
  <2>1. h \in Surjection(fs, Ids(fs))
      BY DEF Surjection, Ids
  <2>2. IsFiniteSet(Ids(fs))
      BY <2>1, FS_Surjection DEF Table
  <2>3. Ids(fs) \in SUBSET Nat /\ Ids(fs) # {} /\ \A f \in fs : f.id \in Ids(fs)
      BY <1>2 DEF Table, Ids, Finding
  <2>4. PICK m \in Ids(fs) : \A k \in Ids(fs) : k <= m
      BY <2>2, <2>3, LargestExists
  <2>5. LastId(fs) \in Ids(fs) /\ \A k \in Ids(fs) : k <= LastId(fs)
      BY <1>2, <2>4 DEF LastId
  <2>6. QED
      BY <2>3, <2>5
<1>3. QED
    BY <1>1, <1>2

\* The rank of a code among those found grows with the code, from one on.
LEMMA RankGrows ==
    ASSUME NEW codes \in SUBSET Nat, IsFiniteSet(codes)
    PROVE  /\ \A c \in codes : Cardinality({d \in codes : d <= c}) \in Nat \ {0}
           /\ \A c, e \in codes :
                 c < e => Cardinality({d \in codes : d <= c}) < Cardinality({d \in codes : d <= e})
<1> DEFINE UpTo(c) == {d \in codes : d <= c}
<1>1. \A c \in codes : IsFiniteSet(UpTo(c))
    BY FS_Subset
<1>2. \A c \in codes : Cardinality(UpTo(c)) \in Nat \ {0}
  <2>1. TAKE c \in codes
  <2>2. c \in UpTo(c)
      OBVIOUS
  <2>3. QED
      BY <1>1, <2>2, FS_CardinalityType, FS_EmptySet
<1>3. \A c, e \in codes : c < e => Cardinality(UpTo(c)) < Cardinality(UpTo(e))
  <2>1. TAKE c, e \in codes
  <2>2. HAVE c < e
  <2>3. UpTo(c) \in SUBSET UpTo(e) /\ UpTo(c) # UpTo(e)
    <3>1. e \in UpTo(e) /\ e \notin UpTo(c)
        BY <2>2
    <3>2. \A d \in codes : d <= c => d <= e
      <4>1. TAKE d \in codes
      <4>2. c \in Int /\ d \in Int /\ e \in Int
          OBVIOUS
      <4>3. QED
          BY <2>2, <4>2
    <3>3. QED
        BY <3>1, <3>2
  <2>4. Cardinality(UpTo(c)) \in Nat /\ Cardinality(UpTo(e)) \in Nat
      BY <1>2
  <2> HIDE DEF UpTo
  <2>5. Cardinality(UpTo(c)) <= Cardinality(UpTo(e)) /\ Cardinality(UpTo(c)) # Cardinality(UpTo(e))
      BY <1>1, <2>3, FS_Subset
  <2>6. QED
      BY <2>4, <2>5
<1>4. QED
    BY <1>2, <1>3

\* New rows, numbered after the largest id left, keep the primary key, even
\* where the ids of deleted rows come back.
LEMMA InsertedKeepsKey ==
    ASSUME NEW fs, Table(fs), NEW y \in Year, NEW codes \in SUBSET (Code \cup {COMBO})
    PROVE  Table(fs \cup Inserted(y, codes, LastId(fs)))
<1> DEFINE n == LastId(fs)
           Rank(c) == Cardinality({d \in codes : d <= c})
           row == [c \in codes |-> [id |-> n + Rank(c), year |-> y, code |-> c, status |-> "new"]]
           new == Inserted(y, codes, n)
<1>1. codes \in SUBSET Nat /\ IsFiniteSet(codes)
  <2>1. IsFiniteSet(Code \cup {COMBO}) /\ Code \cup {COMBO} \subseteq Nat
      BY RunChecksAssumption, FS_AddElement DEF COMBO
  <2>2. QED
      BY <2>1, FS_Subset
<1>2. n \in Nat /\ \A f \in fs : f.id <= n
    BY LastIdBounds
<1>3. /\ \A c \in codes : Rank(c) \in Nat \ {0}
      /\ \A c, e \in codes : c < e => Rank(c) < Rank(e)
    BY <1>1, RankGrows
<1>4. /\ \A c \in codes : row[c] \in new
      /\ \A f \in new : \E c \in codes : f = row[c]
    BY DEF Inserted
<1>5. IsFiniteSet(new)
  <2>1. row \in Surjection(codes, new)
      BY <1>4 DEF Surjection, Inserted
  <2>2. QED
      BY <1>1, <2>1, FS_Surjection
<1>6. \A f \in new : f \in Finding /\ f.id > n
  <2>1. SUFFICES ASSUME NEW c \in codes
                 PROVE  row[c] \in Finding /\ row[c].id > n
      BY <1>4
  <2>2. n + Rank(c) \in Nat \ {0} /\ n + Rank(c) > n
      BY <1>2, <1>3
  <2> HIDE DEF Rank
  <2>3. QED
      BY <2>2 DEF Finding, Verdict
<1>7. \A f, g \in new : f.id = g.id => f = g
  <2>1. SUFFICES ASSUME NEW c \in codes, NEW e \in codes, n + Rank(c) = n + Rank(e)
                 PROVE  c = e
    <3> HIDE DEF Rank
    <3>1. QED
        BY <1>4
  <2>2. Rank(c) = Rank(e)
      BY <1>2, <1>3, <2>1
  <2> HIDE DEF Rank
  <2>3. c \in Nat /\ e \in Nat /\ ~(c < e) /\ ~(e < c)
      BY <1>1, <1>3, <2>2
  <2>4. QED
      BY <2>3
<1>8. IsFiniteSet(fs \cup new)
    BY <1>5, FS_Union DEF Table
<1> HIDE DEF new
<1>9. \A f \in fs, g \in new : f.id # g.id
  <2>1. TAKE f \in fs, g \in new
  <2>2. f.id \in Nat /\ f.id <= n /\ g.id \in Nat /\ g.id > n
      BY <1>2, <1>6 DEF Table, Finding
  <2>3. QED
      BY <1>2, <2>2
<1>10. Table(fs \cup new)
    BY <1>6, <1>7, <1>8, <1>9 DEF Table
<1>11. QED
    BY <1>10 DEF new

\* The score is a share of a thousand.
LEMMA ScoreIsShare ==
    ASSUME NEW fs, Table(fs), NEW skipped \in SUBSET Code
    PROVE  compute_company_year_score(fs, skipped) \in 0 .. 1000
<1> DEFINE live == {f \in fs : f.status # "rejected"}
           fired == {f.code : f \in live} \ (skipped \cup {COMBO})
           combo == \E f \in live : f.code = COMBO
           a == 10 * Cardinality(fired) + IF combo THEN 20 ELSE 0
           b == 10 * Cardinality(Code \ skipped) + 20
<1>1. IsFiniteSet(Code \ skipped)
    BY RunChecksAssumption, FS_Difference
<1>2. fired \in SUBSET (Code \ skipped)
    BY DEF Table, Finding
<1>3. /\ Cardinality(fired) \in Nat /\ Cardinality(Code \ skipped) \in Nat
      /\ Cardinality(fired) <= Cardinality(Code \ skipped)
    BY <1>1, <1>2, FS_Subset, FS_CardinalityType
<1>4. compute_company_year_score(fs, skipped) = (1000 * a) \div b
    BY DEF compute_company_year_score
<1> HIDE DEF fired, combo
<1>5. a \in Nat /\ b \in Nat /\ b > 0 /\ a <= b
    BY <1>3
<1> HIDE DEF a, b
<1>6. QED
    BY <1>4, <1>5, PerThousand

\* The largest of numbers up to a bound is one of them.
LEMMA LargestUpTo ==
    ASSUME NEW n \in Nat, NEW S \in SUBSET (0 .. n), S # {}
    PROVE  MaxOf(S) \in 0 .. n
<1>1. S \in SUBSET Nat /\ \A k \in S : k <= n
    OBVIOUS
<1>2. IsFiniteSet(S)
    BY <1>1, FS_BoundedSetOfNaturals
<1>3. MaxOf(S) \in S
  <2>1. S \in SUBSET Int
      BY <1>1
  <2>2. QED
      BY <1>2, <2>1, MaxOfIsLargest
<1>4. QED
    BY <1>3

\* So the largest score is a share of a thousand as well.
LEMMA LargestScore ==
    ASSUME NEW S \in SUBSET (0 .. 1000), S # {}
    PROVE  MaxOf(S) \in 0 .. 1000
<1> DEFINE n == 1000
<1>1. n \in Nat /\ S \in SUBSET (0 .. n) /\ S # {}
    OBVIOUS
<1> HIDE DEF n
<1>2. MaxOf(S) \in 0 .. n
    BY <1>1, LargestUpTo
<1>3. QED
    BY <1>2 DEF n

-----------------------------------------------------------------------------
(* Types and the primary key                                               *)

\* TypeOK says it element by element; counting needs the table to be finite.
RunsTyped == TypeOK /\ IsFiniteSet(findings)

LEMMA FindingsTable ==
    ASSUME RunsTyped
    PROVE  Table(findings)
BY DEF RunsTyped, TypeOK, Table

\* What a thread has read is of the kind its next step expects.
LEMMA TxKinds ==
    ASSUME RunsTyped, NEW p \in Proc
    PROVE  /\ tx[p].op = "run" => tx[p] \in RunTx
           /\ tx[p].op = "verdict" => tx[p] \in VerdictTx
           /\ tx[p].op = "rescore" => tx[p] \in RescoreTx
<1>1. tx[p] \in {Idle} \cup RunTx \cup VerdictTx \cup RescoreTx
    BY DEF RunsTyped, TypeOK
<1>2. QED
    BY <1>1 DEF Idle, RunTx, VerdictTx, RescoreTx

\* What a run leaves of the table and the findings it adds are a table again,
\* and so they are with the combo on top.
LEMMA RunLeavesTable ==
    ASSUME RunsTyped, NEW t \in RunTx, NEW found \in SUBSET t.codes
    PROVE  LET ran == Wiped(t) \cup Inserted(t.year, found, LastId(Wiped(t)))
           IN  Table(ran) /\ Table(ran \cup Combos(t.year, ran))
<1> DEFINE ran == Wiped(t) \cup Inserted(t.year, found, LastId(Wiped(t)))
<1>1. t.year \in Year /\ found \in SUBSET (Code \cup {COMBO})
    BY DEF RunTx
<1>2. Table(Wiped(t))
    BY FindingsTable, PartOfTable DEF Wiped
<1>3. Table(ran)
    BY <1>1, <1>2, InsertedKeepsKey
<1> HIDE DEF ran
<1>4. Table(ran \cup Inserted(t.year, {COMBO}, LastId(ran)))
    BY <1>1, <1>3, InsertedKeepsKey
<1>5. Table(ran \cup Combos(t.year, ran))
  <2>1. Combos(t.year, ran) \in {{}, Inserted(t.year, {COMBO}, LastId(ran))}
      BY DEF Combos
  <2>2. ran \cup {} = ran
      OBVIOUS
  <2>3. QED
      BY <1>3, <1>4, <2>1, <2>2
<1>6. QED
    BY <1>3, <1>5 DEF ran

LEMMA TypedInit ==
    ASSUME Init
    PROVE  RunsTyped
<1>1. IsFiniteSet(findings)
    BY FS_EmptySet DEF Init
<1>2. TypeOK
    BY DEF Init, TypeOK, Idle, NoScore
<1>3. QED
    BY <1>1, <1>2 DEF RunsTyped

\* Steps that leave the tables alone.
LEMMA TypedReads ==
    ASSUME RunsTyped, NEW p \in Proc, UNCHANGED <<tables, broken, stray>>,
           NEW t \in {Idle} \cup RunTx \cup VerdictTx \cup RescoreTx,
           tx' = [tx EXCEPT ![p] = t]
    PROVE  RunsTyped'
BY DEF RunsTyped, TypeOK, tables

LEMMA TypedRunCommit ==
    ASSUME RunsTyped, NEW p \in Proc, RunCommit(p)
    PROVE  RunsTyped'
<1> DEFINE t == tx[p]
<1>1. t \in RunTx
    BY TxKinds DEF RunCommit
<1>2. PICK outcome \in [t.codes -> Outcome] :
        LET found == {c \in t.codes : outcome[c] = "finding"}
            ran == Wiped(t) \cup Inserted(t.year, found, LastId(Wiped(t)))
            after == ran \cup Combos(t.year, ran)
            skipped == (not_evaluable[t.year] \ t.codes)
                       \cup {c \in t.codes : outcome[c] = "not_evaluable"}
            new == compute_company_year_score(Of(t.year, after), skipped)
        IN  /\ findings' = after
            /\ not_evaluable' = [not_evaluable EXCEPT ![t.year] = skipped]
            /\ score' = [score EXCEPT ![t.year] = new]
            /\ risk_score' = RunRisk(t, new)
    BY DEF RunCommit
<1> DEFINE found == {c \in t.codes : outcome[c] = "finding"}
           ran == Wiped(t) \cup Inserted(t.year, found, LastId(Wiped(t)))
           after == ran \cup Combos(t.year, ran)
           skipped == (not_evaluable[t.year] \ t.codes)
                      \cup {c \in t.codes : outcome[c] = "not_evaluable"}
           new == compute_company_year_score(Of(t.year, after), skipped)
<1>3. Table(after)
    BY <1>1, RunLeavesTable
<1>4. skipped \in SUBSET Code /\ t.year \in Year
    BY <1>1 DEF RunTx, RunsTyped, TypeOK
<1>5. new \in 0 .. 1000
  <2> HIDE DEF after, skipped
  <2>1. Table(Of(t.year, after))
      BY <1>3, PartOfTable DEF Of
  <2>2. QED
      BY <1>4, <2>1, ScoreIsShare
<1>6. RunRisk(t, new) \in 0 .. 1000
  <2> HIDE DEF new
  <2> DEFINE all == {s \in {score[z] : z \in Year} : s # NoScore} \cup {new}
  <2>1. all \in SUBSET (0 .. 1000) /\ all # {}
      BY <1>5 DEF RunsTyped, TypeOK
  <2>2. MaxOf(all) \in 0 .. 1000
    <3> HIDE DEF all
    <3>1. QED
        BY <2>1, LargestScore
  <2>3. RunRisk(t, new) = risk_score \/ RunRisk(t, new) = MaxOf(all)
      BY DEF RunRisk
  <2> HIDE DEF all
  <2>4. QED
      BY <2>2, <2>3 DEF RunsTyped, TypeOK
<1> HIDE DEF found, ran, after, skipped, new
<1>7. /\ findings' = after
      /\ not_evaluable' = [not_evaluable EXCEPT ![t.year] = skipped]
      /\ score' = [score EXCEPT ![t.year] = new]
      /\ risk_score' = RunRisk(t, new)
      /\ broken' = [broken EXCEPT ![t.year] = FALSE]
      /\ stray' = [stray EXCEPT ![t.year] = FALSE]
      /\ tx' = [tx EXCEPT ![p] = Idle]
    BY <1>2 DEF RunCommit, Done, found, ran, after, skipped, new
<1>8. /\ not_evaluable' \in [Year -> SUBSET Code]
      /\ score' \in [Year -> (0 .. 1000) \cup {NoScore}]
      /\ broken' \in [Year -> BOOLEAN] /\ stray' \in [Year -> BOOLEAN]
      /\ tx' \in [Proc -> {Idle} \cup RunTx \cup VerdictTx \cup RescoreTx]
    BY <1>4, <1>5, <1>7 DEF RunsTyped, TypeOK
<1>9. risk_score' \in 0 .. 1000
    BY <1>6, <1>7
<1>10. Table(findings')
    BY <1>3, <1>7
<1>11. QED
    BY <1>8, <1>9, <1>10 DEF RunsTyped, TypeOK, Table

LEMMA TypedRunFails ==
    ASSUME RunsTyped, NEW p \in Proc, RunFails(p)
    PROVE  RunsTyped'
<1> DEFINE t == tx[p]
<1>1. t \in RunTx
    BY TxKinds DEF RunFails
<1>2. PICK found \in SUBSET t.codes :
          findings' = Wiped(t) \cup Inserted(t.year, found, LastId(Wiped(t)))
    BY DEF RunFails
<1>3. Table(findings')
    BY <1>1, <1>2, RunLeavesTable
<1>4. /\ broken' = [broken EXCEPT ![t.year] = TRUE]
      /\ tx' = [tx EXCEPT ![p] = Idle]
      /\ UNCHANGED <<not_evaluable, score, risk_score, stray>>
    BY DEF RunFails, Done
<1>5. QED
    BY <1>3, <1>4 DEF RunsTyped, TypeOK, Table

Share == 0 .. 1000

\* Storing a score for one period keeps the scores and their largest typed.
LEMMA RescoredTyped ==
    ASSUME RunsTyped, NEW y \in Year, NEW new \in Share, Rescored(y, new)
    PROVE  /\ score' \in [Year -> (0 .. 1000) \cup {NoScore}]
           /\ risk_score' \in 0 .. 1000
<1>1. score' = [score EXCEPT ![y] = new] /\ new \in 0 .. 1000
    BY DEF Rescored, Share
<1>2. score' \in [Year -> (0 .. 1000) \cup {NoScore}]
    BY <1>1 DEF RunsTyped, TypeOK
<1>3. score'[y] = new /\ new # NoScore
    BY <1>1 DEF RunsTyped, TypeOK, NoScore
<1> DEFINE all == Scores(score')
<1>4. all \in SUBSET (0 .. 1000) /\ all # {}
  <2>1. new \in all
      BY <1>3 DEF Scores
  <2>2. ASSUME NEW s \in all PROVE s \in 0 .. 1000
      BY <1>2 DEF Scores
  <2> HIDE DEF all
  <2>3. QED
      BY <2>1, <2>2
<1>5. risk_score' = MaxOf(all)
    BY DEF Rescored
<1> HIDE DEF all
<1>6. MaxOf(all) \in 0 .. 1000
    BY <1>4, LargestScore
<1>7. QED
    BY <1>2, <1>5, <1>6

\* A verdict rewrites the one row with its id.
LEMMA VerdictTable ==
    ASSUME NEW fs, Table(fs), NEW f \in fs, NEW to \in Verdict
    PROVE  Table((fs \ {f}) \cup {[f EXCEPT !.status = to]})
<1> DEFINE g == [f EXCEPT !.status = to]
<1>1. f \in Finding /\ g \in Finding /\ g.id = f.id
    BY DEF Table, Finding
<1>2. IsFiniteSet((fs \ {f}) \cup {g})
    BY FS_Difference, FS_Singleton, FS_Union DEF Table
<1> HIDE DEF g
<1>3. \A h \in fs \ {f} : h.id # f.id /\ h \in Finding
    BY DEF Table
<1>4. Table((fs \ {f}) \cup {g})
    BY <1>1, <1>2, <1>3 DEF Table
<1>5. QED
    BY <1>4 DEF g

\* The rows the rescoring of a verdict sees: the one already loaded keeps the
\* code it had.
Seen(t, fs) == {IF g.id = t.id THEN [g EXCEPT !.code = t.code] ELSE g : g \in Of(t.year, fs)}

LEMMA SeenIsTable ==
    ASSUME NEW fs, Table(fs), NEW t \in VerdictTx
    PROVE  Table(Seen(t, fs))
<1> DEFINE see(g) == IF g.id = t.id THEN [g EXCEPT !.code = t.code] ELSE g
           h == [g \in Of(t.year, fs) |-> see(g)]
<1>1. Table(Of(t.year, fs))
    BY PartOfTable DEF Of
<1>2. h \in Surjection(Of(t.year, fs), Seen(t, fs))
    BY DEF Surjection, Seen
<1>3. IsFiniteSet(Seen(t, fs))
    BY <1>1, <1>2, FS_Surjection DEF Table
<1>4. \A g \in Of(t.year, fs) : see(g) \in Finding /\ see(g).id = g.id
    BY <1>1 DEF Table, Finding, VerdictTx
<1>5. \A g \in Seen(t, fs) : \E f \in Of(t.year, fs) : g = see(f)
    BY DEF Seen
<1> HIDE DEF see
<1>6. QED
    BY <1>1, <1>3, <1>4, <1>5 DEF Table

LEMMA TypedVerdictCommit ==
    ASSUME RunsTyped, NEW p \in Proc, VerdictCommit(p)
    PROVE  RunsTyped'
<1> DEFINE t == tx[p]
           new == compute_company_year_score(Seen(t, findings'), not_evaluable[t.year])
<1>1. t \in VerdictTx
    BY TxKinds DEF VerdictCommit
<1>2. PICK f \in findings :
        /\ f.id = t.id
        /\ findings' = (findings \ {f}) \cup {[f EXCEPT !.status = t.to]}
        /\ Rescored(t.year, new)
        /\ stray' = [y \in Year |->
              stray[y] \/ ((f.year # t.year \/ f.code # t.code) /\ y \in {f.year, t.year})]
    BY DEF VerdictCommit, Seen
<1>3. t.year \in Year /\ t.to \in Verdict /\ not_evaluable[t.year] \in SUBSET Code
    BY <1>1 DEF VerdictTx, RunsTyped, TypeOK
<1>4. Table(findings')
    BY <1>2, <1>3, FindingsTable, VerdictTable
<1>5. new \in Share
    BY <1>1, <1>3, <1>4, SeenIsTable, ScoreIsShare DEF Share
<1> HIDE DEF new
<1>6. score' \in [Year -> (0 .. 1000) \cup {NoScore}] /\ risk_score' \in 0 .. 1000
    BY <1>2, <1>3, <1>5, RescoredTyped
<1>7. stray' \in [Year -> BOOLEAN]
    BY <1>2 DEF RunsTyped, TypeOK
<1>8. /\ tx' = [tx EXCEPT ![p] = Idle]
      /\ UNCHANGED <<not_evaluable, broken>>
    BY DEF VerdictCommit, Done
<1>9. QED
    BY <1>4, <1>6, <1>7, <1>8 DEF RunsTyped, TypeOK, Table

LEMMA TypedResubmitRead ==
    ASSUME RunsTyped, NEW p \in Proc, ResubmitRead(p)
    PROVE  RunsTyped'
<1> DEFINE t == tx[p]
           new == compute_company_year_score(Of(t.year, findings), not_evaluable[t.year])
<1>1. t \in VerdictTx
    BY TxKinds DEF ResubmitRead
<1>2. t.year \in Year
    BY <1>1 DEF VerdictTx
<1>3. not_evaluable[t.year] \in SUBSET Code
    BY <1>2 DEF RunsTyped, TypeOK
<1>4. score[t.year] \in (0 .. 1000) \cup {NoScore}
    BY <1>2 DEF RunsTyped, TypeOK
<1>5. new \in 0 .. 1000
  <2>1. PICK fs, skipped : fs = Of(t.year, findings) /\ skipped = not_evaluable[t.year]
      OBVIOUS
  <2>2. Table(fs)
      BY <2>1, FindingsTable, PartOfTable DEF Of
  <2>3. skipped \in SUBSET Code
      BY <1>3, <2>1
  <2>4. compute_company_year_score(fs, skipped) \in 0 .. 1000
      BY <2>2, <2>3, ScoreIsShare
  <2>5. QED
      BY <2>1, <2>4
<1> HIDE DEF new
<1>6. [op |-> "rescore", year |-> t.year, was |-> score[t.year], new |-> new] \in RescoreTx
  <2> DEFINE y == t.year
             was == score[y]
             all == (0 .. 1000) \cup {NoScore}
             share == 0 .. 1000
  <2>1. y \in Year /\ was \in all /\ new \in share
      BY <1>2, <1>4, <1>5
  <2>2. RescoreTx = [op : {"rescore"}, year : Year, was : all, new : share]
      BY DEF RescoreTx
  <2> HIDE DEF t, y, was, all, share
  <2>3. [op |-> "rescore", year |-> y, was |-> was, new |-> new] \in RescoreTx
      BY <2>1, <2>2
  <2>4. QED
      BY <2>3 DEF y, was
<1>7. /\ tx' = [tx EXCEPT ![p] = [op |-> "rescore", year |-> t.year,
                                  was |-> score[t.year], new |-> new]]
      /\ UNCHANGED <<tables, broken, stray>>
    BY DEF ResubmitRead, new
<1>8. QED
    BY <1>6, <1>7, TypedReads

LEMMA TypedResubmitCommit ==
    ASSUME RunsTyped, NEW p \in Proc, ResubmitCommit(p)
    PROVE  RunsTyped'
<1> DEFINE t == tx[p]
<1>1. t \in RescoreTx
    BY TxKinds DEF ResubmitCommit
<1>2. t.year \in Year /\ t.new \in Share
    BY <1>1 DEF RescoreTx, Share
<1>3. score' \in [Year -> (0 .. 1000) \cup {NoScore}] /\ risk_score' \in 0 .. 1000
         /\ stray' \in [Year -> BOOLEAN]
  <2>1. CASE t.new = t.was
    <3> DEFINE all == Scores(score) \cup {0}
    <3>1. risk_score' = MaxOf(all) /\ UNCHANGED <<score, stray>>
        BY <2>1 DEF ResubmitCommit
    <3>2. all \in SUBSET (0 .. 1000) /\ all # {}
        BY DEF Scores, RunsTyped, TypeOK
    <3> HIDE DEF all
    <3>3. MaxOf(all) \in 0 .. 1000
        BY <3>2, LargestScore
    <3>4. QED
        BY <3>1, <3>3 DEF RunsTyped, TypeOK
  <2>2. CASE t.new # t.was
    <3> DEFINE other == t.new # compute_company_year_score(Of(t.year, findings),
                                                           not_evaluable[t.year])
    <3>1. Rescored(t.year, t.new) /\ stray' = [stray EXCEPT ![t.year] = @ \/ other]
        BY <2>2 DEF ResubmitCommit
    <3> HIDE DEF other
    <3>2. stray' \in [Year -> BOOLEAN]
        BY <3>1 DEF RunsTyped, TypeOK
    <3>3. QED
        BY <1>2, <3>1, <3>2, RescoredTyped
  <2>3. QED
      BY <2>1, <2>2
<1>4. /\ tx' = [tx EXCEPT ![p] = Idle]
      /\ UNCHANGED <<findings, not_evaluable, broken>>
    BY DEF ResubmitCommit, Done
<1>5. QED
    BY <1>3, <1>4 DEF RunsTyped, TypeOK

LEMMA TypedNext ==
    ASSUME RunsTyped, [Next]_vars
    PROVE  RunsTyped'
<1>1. CASE UNCHANGED vars
    BY <1>1 DEF RunsTyped, TypeOK, vars, tables
<1>2. ASSUME NEW p \in Proc, NEW y \in Year, NEW only \in SUBSET Code, RunRead(p, y, only)
      PROVE  RunsTyped'
  <2>1. [op |-> "run", year |-> y, codes |-> only, risk |-> risk_score] \in RunTx
      BY DEF RunTx, RunsTyped, TypeOK
  <2>2. QED
      BY <1>2, <2>1, TypedReads DEF RunRead
<1>3. ASSUME NEW p \in Proc, NEW f \in findings, NEW to \in Verdict, VerdictRead(p, f, to)
      PROVE  RunsTyped'
  <2>1. [op |-> "verdict", id |-> f.id, year |-> f.year, code |-> f.code,
         was |-> f.status, to |-> to] \in VerdictTx
      BY DEF VerdictTx, RunsTyped, TypeOK, Finding
  <2>2. QED
      BY <1>3, <2>1, TypedReads DEF VerdictRead
<1>4. ASSUME NEW p \in Proc, Abort(p) PROVE RunsTyped'
    BY <1>4, TypedReads DEF Abort, Done
<1>5. QED
    BY <1>1, <1>2, <1>3, <1>4, TypedRunCommit, TypedRunFails, TypedVerdictCommit,
       TypedResubmitRead, TypedResubmitCommit DEF Next, Proc

\* The types, for every set of periods and checks and however many runs and
\* officers: above all, that id stays the primary key of the findings although
\* the ids of deleted rows come back, and that no score leaves 0..1000.
THEOREM RunsTypeCorrect == Spec => []TypeOK
<1>1. Init => RunsTyped
    BY TypedInit
<1>2. RunsTyped /\ [Next]_vars => RunsTyped'
    BY TypedNext
<1>3. RunsTyped => TypeOK
    BY DEF RunsTyped
<1>4. QED
    BY <1>1, <1>2, <1>3, PTL DEF Spec

-----------------------------------------------------------------------------
(* What a step does to the findings of a period                            *)

\* A new row is of its period and of one of the codes.
LEMMA InsertedRows ==
    ASSUME NEW y, NEW codes, NEW n, NEW g \in Inserted(y, codes, n)
    PROVE  g.year = y /\ g.code \in codes
<1>1. PICK c \in codes :
          g = [id |-> n + Cardinality({d \in codes : d <= c}), year |-> y,
               code |-> c, status |-> "new"]
    BY DEF Inserted
<1> DEFINE i == n + Cardinality({d \in codes : d <= c})
<1>2. g = [id |-> i, year |-> y, code |-> c, status |-> "new"]
    BY <1>1
<1> HIDE DEF i
<1>3. QED
    BY <1>2

\* A run touches no other period.
LEMMA RunElsewhere ==
    ASSUME NEW t, NEW found, NEW y, y # t.year
    PROVE  LET ran == Wiped(t) \cup Inserted(t.year, found, LastId(Wiped(t)))
           IN  Of(y, ran) = Of(y, findings) /\ Of(y, ran \cup Combos(t.year, ran)) = Of(y, findings)
<1> DEFINE ran == Wiped(t) \cup Inserted(t.year, found, LastId(Wiped(t)))
<1>1. \A codes, n : \A g \in Inserted(t.year, codes, n) : g.year = t.year
    BY InsertedRows
<1>2. \A g \in Combos(t.year, ran) : g.year = t.year
  <2> HIDE DEF ran
  <2>1. QED
      BY <1>1 DEF Combos
<1>3. Of(y, ran) = Of(y, findings)
    BY <1>1 DEF Of, Wiped
<1> HIDE DEF ran
<1>4. Of(y, ran \cup Combos(t.year, ran)) = Of(y, findings)
    BY <1>2, <1>3 DEF Of
<1>5. QED
    BY <1>3, <1>4 DEF ran

\* After the codes of a run are in, the period has no combo, until the last
\* step adds one.
LEMMA RunWithoutCombo ==
    ASSUME NEW t \in RunTx, NEW found \in SUBSET t.codes
    PROVE  \A g \in Wiped(t) \cup Inserted(t.year, found, LastId(Wiped(t))) :
               g.code = COMBO => g \in findings /\ g.year # t.year
<1>1. found \subseteq Code /\ COMBO \notin Code
    BY RunChecksAssumption DEF RunTx
<1>2. \A g \in Inserted(t.year, found, LastId(Wiped(t))) : g.code # COMBO
    BY <1>1, InsertedRows
<1>3. \A g \in Wiped(t) : g.code = COMBO => g \in findings /\ g.year # t.year
    BY DEF Wiped
<1>4. QED
    BY <1>2, <1>3

\* A verdict changes the status of the row with its id and nothing else.
LEMMA VerdictChangesOne ==
    ASSUME RunsTyped, NEW f \in findings, NEW to,
           findings' = (findings \ {f}) \cup {[f EXCEPT !.status = to]}
    PROVE  /\ \A g \in findings : \E h \in findings' : h.year = g.year /\ h.code = g.code
           /\ \A h \in findings' : \E g \in findings : h.year = g.year /\ h.code = g.code
           /\ \A h \in findings' : h.id = f.id => h.code = f.code /\ h.year = f.year
           /\ \A y : y # f.year => Of(y, findings') = Of(y, findings)
<1> DEFINE e == [f EXCEPT !.status = to]
<1>1. f \in Finding /\ \A g \in findings : g.id = f.id => g = f
    BY DEF RunsTyped, TypeOK
<1>2. e.id = f.id /\ e.year = f.year /\ e.code = f.code
    BY <1>1 DEF Finding
<1>3. findings' = (findings \ {f}) \cup {e}
    OBVIOUS
<1> HIDE DEF e
<1>4. QED
    BY <1>1, <1>2, <1>3 DEF Of

-----------------------------------------------------------------------------
(* Combined findings                                                       *)

\* A whole run looks for the combo on what it leaves; one broken off leaves none.
LEMMA BackedRunCommit ==
    ASSUME RunsTyped, ComboIsBacked, NEW p \in Proc, RunCommit(p)
    PROVE  ComboIsBacked'
<1> DEFINE t == tx[p]
<1>1. t \in RunTx
    BY TxKinds DEF RunCommit
<1>2. PICK found \in SUBSET t.codes :
        LET ran == Wiped(t) \cup Inserted(t.year, found, LastId(Wiped(t)))
        IN  findings' = ran \cup Combos(t.year, ran)
    BY DEF RunCommit
<1> DEFINE ran == Wiped(t) \cup Inserted(t.year, found, LastId(Wiped(t)))
<1>3. findings' = ran \cup Combos(t.year, ran)
    BY <1>2
<1>4. \A y : y # t.year => Of(y, findings') = Of(y, findings)
    BY <1>3, RunElsewhere
<1>5. \A g \in ran : g.code = COMBO => g \in findings /\ g.year # t.year
    BY <1>1, RunWithoutCombo
<1> HIDE DEF t, ran
<1>6. SUFFICES ASSUME NEW f \in findings', f.code = COMBO, NEW c \in Code
               PROVE  \E g \in Of(f.year, findings') : g.code = c
    BY DEF ComboIsBacked
<1>7. CASE f \in ran
  <2>1. f \in findings /\ f.year # t.year
      BY <1>5, <1>6, <1>7
  <2>2. \E g \in Of(f.year, findings) : g.code = c
      BY <1>6, <2>1 DEF ComboIsBacked
  <2>3. QED
      BY <1>4, <2>1, <2>2
<1>8. CASE f \in Combos(t.year, ran)
  <2>1. f.year = t.year
      BY <1>8 DEF Combos, Inserted
  <2>2. \E g \in Of(t.year, ran) : g.code = c
      BY <1>8 DEF Combos
  <2>3. Of(t.year, ran) \subseteq Of(t.year, findings')
      BY <1>3 DEF Of
  <2>4. QED
      BY <2>1, <2>2, <2>3
<1>9. QED
    BY <1>3, <1>7, <1>8

LEMMA BackedRunFails ==
    ASSUME RunsTyped, ComboIsBacked, NEW p \in Proc, RunFails(p)
    PROVE  ComboIsBacked'
<1> DEFINE t == tx[p]
<1>1. t \in RunTx
    BY TxKinds DEF RunFails
<1>2. PICK found \in SUBSET t.codes :
          findings' = Wiped(t) \cup Inserted(t.year, found, LastId(Wiped(t)))
    BY DEF RunFails
<1>3. \A y : y # t.year => Of(y, findings') = Of(y, findings)
    BY <1>2, RunElsewhere
<1>4. \A g \in findings' : g.code = COMBO => g \in findings /\ g.year # t.year
    BY <1>1, <1>2, RunWithoutCombo
<1> HIDE DEF t
<1>5. QED
    BY <1>3, <1>4 DEF ComboIsBacked

LEMMA BackedVerdict ==
    ASSUME RunsTyped, ComboIsBacked, NEW p \in Proc, VerdictCommit(p)
    PROVE  ComboIsBacked'
<1>1. PICK f \in findings : findings' = (findings \ {f}) \cup {[f EXCEPT !.status = tx[p].to]}
    BY DEF VerdictCommit
<1>2. /\ \A g \in findings : \E h \in findings' : h.year = g.year /\ h.code = g.code
      /\ \A h \in findings' : \E g \in findings : h.year = g.year /\ h.code = g.code
    BY <1>1, VerdictChangesOne
<1>3. QED
    BY <1>2 DEF ComboIsBacked, Of

\* The other steps leave the findings alone.
LEMMA FindingsStay ==
    ASSUME [Next]_vars
    PROVE  \/ findings' = findings
           \/ \E p \in Proc : RunCommit(p) \/ RunFails(p) \/ VerdictCommit(p)
<1>1. CASE UNCHANGED vars
    BY <1>1 DEF vars, tables
<1>2. CASE Next
    BY <1>2 DEF Next, RunRead, VerdictRead, ResubmitRead, ResubmitCommit, Abort, tables, Proc
<1>3. QED
    BY <1>1, <1>2

\* However runs, broken-off runs and verdicts interleave, a combined finding
\* is backed by a finding of every check it combines, in its own period.
THEOREM CombosBacked == Spec => []ComboIsBacked
<1>1. Init => RunsTyped /\ ComboIsBacked
    BY TypedInit DEF Init, ComboIsBacked
<1>2. RunsTyped /\ ComboIsBacked /\ [Next]_vars => RunsTyped' /\ ComboIsBacked'
  <2>1. SUFFICES ASSUME RunsTyped, ComboIsBacked, [Next]_vars
                 PROVE  RunsTyped' /\ ComboIsBacked'
      OBVIOUS
  <2>2. CASE findings' = findings
      BY <2>1, <2>2, TypedNext DEF ComboIsBacked
  <2>3. ASSUME NEW p \in Proc, RunCommit(p) \/ RunFails(p) \/ VerdictCommit(p)
        PROVE  ComboIsBacked'
      BY <2>1, <2>3, BackedRunCommit, BackedRunFails, BackedVerdict
  <2>4. QED
      BY <2>1, <2>2, <2>3, FindingsStay, TypedNext
<1>3. QED
    BY <1>1, <1>2, PTL DEF Spec

\* No run, whole or broken off, touches the findings and verdicts of another
\* period or of a code that it was not asked to run.
THEOREM VerdictsKept == Spec => OtherVerdictsKept
<1>1. [Next]_vars => [\A p \in Runner : RunCommit(p) \/ RunFails(p) =>
          {f \in findings : f.year # tx[p].year \/ f.code \notin tx[p].codes \cup {COMBO}}
              \subseteq findings']_vars
  <2>1. ASSUME NEW p \in Runner, RunCommit(p) \/ RunFails(p) PROVE Wiped(tx[p]) \subseteq findings'
      BY <2>1 DEF RunCommit, RunFails
  <2>2. QED
      BY <2>1 DEF Wiped
<1>2. QED
    BY <1>1, PTL DEF Spec, OtherVerdictsKept

-----------------------------------------------------------------------------
(* Scores                                                                  *)

LEMMA MatchRunCommit ==
    ASSUME RunsTyped, ScoreMatchesFindings, NEW p \in Proc, RunCommit(p)
    PROVE  ScoreMatchesFindings'
<1> DEFINE t == tx[p]
<1>1. t \in RunTx /\ t.year \in Year
    BY TxKinds DEF RunCommit, RunTx
<1>2. PICK found, skipped :
        LET ran == Wiped(t) \cup Inserted(t.year, found, LastId(Wiped(t)))
            after == ran \cup Combos(t.year, ran)
        IN  /\ findings' = after
            /\ not_evaluable' = [not_evaluable EXCEPT ![t.year] = skipped]
            /\ score' = [score EXCEPT ![t.year] =
                             compute_company_year_score(Of(t.year, after), skipped)]
    BY DEF RunCommit
<1>3. \A y : y # t.year => Of(y, findings') = Of(y, findings)
    BY <1>2, RunElsewhere
<1>4. /\ not_evaluable' = [not_evaluable EXCEPT ![t.year] = skipped]
      /\ score' = [score EXCEPT ![t.year] =
                       compute_company_year_score(Of(t.year, findings'), skipped)]
      /\ broken' = [broken EXCEPT ![t.year] = FALSE]
      /\ stray' = [stray EXCEPT ![t.year] = FALSE]
    BY <1>2 DEF RunCommit
<1> HIDE DEF t
<1>5. QED
    BY <1>1, <1>3, <1>4 DEF ScoreMatchesFindings, RunsTyped, TypeOK

LEMMA MatchRunFails ==
    ASSUME RunsTyped, ScoreMatchesFindings, NEW p \in Proc, RunFails(p)
    PROVE  ScoreMatchesFindings'
<1> DEFINE t == tx[p]
<1>1. t \in RunTx /\ t.year \in Year
    BY TxKinds DEF RunFails, RunTx
<1>2. PICK found \in SUBSET t.codes :
          findings' = Wiped(t) \cup Inserted(t.year, found, LastId(Wiped(t)))
    BY DEF RunFails
<1>3. \A y : y # t.year => Of(y, findings') = Of(y, findings)
    BY <1>2, RunElsewhere
<1>4. /\ broken' = [broken EXCEPT ![t.year] = TRUE]
      /\ UNCHANGED <<not_evaluable, score, stray>>
    BY DEF RunFails
<1> HIDE DEF t
<1>5. QED
    BY <1>1, <1>3, <1>4 DEF ScoreMatchesFindings, RunsTyped, TypeOK

\* The officer's page and the table agree on the finding, or the history says so.
LEMMA MatchVerdict ==
    ASSUME RunsTyped, ScoreMatchesFindings, NEW p \in Proc, VerdictCommit(p)
    PROVE  ScoreMatchesFindings'
<1> DEFINE t == tx[p]
<1>1. t \in VerdictTx /\ t.year \in Year
    BY TxKinds DEF VerdictCommit, VerdictTx
<1>2. PICK f \in findings :
        /\ f.id = t.id
        /\ findings' = (findings \ {f}) \cup {[f EXCEPT !.status = t.to]}
        /\ Rescored(t.year, compute_company_year_score(Seen(t, findings'), not_evaluable[t.year]))
        /\ stray' = [y \in Year |->
              stray[y] \/ ((f.year # t.year \/ f.code # t.code) /\ y \in {f.year, t.year})]
    BY DEF VerdictCommit, Seen
<1>3. UNCHANGED <<not_evaluable, broken>>
    BY DEF VerdictCommit
<1>4. score' = [score EXCEPT ![t.year] =
                    compute_company_year_score(Seen(t, findings'), not_evaluable[t.year])]
    BY <1>2 DEF Rescored
<1>5. /\ \A h \in findings' : h.id = f.id => h.code = f.code /\ h.year = f.year
      /\ \A y : y # f.year => Of(y, findings') = Of(y, findings)
    BY <1>2, VerdictChangesOne
<1>6. RunsTyped'
    BY TypedVerdictCommit
<1>7. ASSUME f.code = t.code
      PROVE  Seen(t, findings') = Of(t.year, findings')
  <2>1. \A g \in Of(t.year, findings') : g.id = t.id => [g EXCEPT !.code = t.code] = g
    <3>1. TAKE g \in Of(t.year, findings')
    <3>2. HAVE g.id = t.id
    <3>3. g \in Finding /\ g.code = t.code
        BY <1>2, <1>5, <1>6, <1>7, <3>2 DEF Of, RunsTyped, TypeOK
    <3>4. QED
        BY <3>3 DEF Finding
  <2>2. QED
      BY <2>1 DEF Seen
<1> HIDE DEF t
<1>8. SUFFICES ASSUME NEW y \in Year, score'[y] # NoScore, ~broken'[y], ~stray'[y]
               PROVE  score'[y] = compute_company_year_score(Of(y, findings'), not_evaluable'[y])
    BY DEF ScoreMatchesFindings
<1>9. ~stray[y] /\ (y \in {f.year, t.year} => f.year = t.year /\ f.code = t.code)
    BY <1>2, <1>8
<1>10. CASE y = t.year
    BY <1>1, <1>3, <1>4, <1>7, <1>9, <1>10 DEF RunsTyped, TypeOK
<1>11. CASE y # t.year
  <2>1. y # f.year /\ score'[y] = score[y]
      BY <1>4, <1>9, <1>11 DEF RunsTyped, TypeOK
  <2>2. QED
      BY <1>3, <1>5, <1>8, <1>9, <2>1 DEF ScoreMatchesFindings
<1>12. QED
    BY <1>10, <1>11

\* A score worked out without the lock is the score of now, or the history says so.
LEMMA MatchResubmit ==
    ASSUME RunsTyped, ScoreMatchesFindings, NEW p \in Proc, ResubmitCommit(p)
    PROVE  ScoreMatchesFindings'
<1> DEFINE t == tx[p]
           now == compute_company_year_score(Of(t.year, findings), not_evaluable[t.year])
<1>1. t \in RescoreTx /\ t.year \in Year
    BY TxKinds DEF ResubmitCommit, RescoreTx
<1>2. UNCHANGED <<findings, not_evaluable, broken>>
    BY DEF ResubmitCommit
<1>3. CASE t.new = t.was
  <2>1. UNCHANGED <<score, stray>>
      BY <1>3 DEF ResubmitCommit
  <2>2. QED
      BY <1>2, <2>1 DEF ScoreMatchesFindings
<1>4. CASE t.new # t.was
  <2>1. /\ score' = [score EXCEPT ![t.year] = t.new]
        /\ stray' = [stray EXCEPT ![t.year] = @ \/ t.new # now]
      BY <1>4 DEF ResubmitCommit, Rescored
  <2>2. now = compute_company_year_score(Of(t.year, findings'), not_evaluable'[t.year])
      BY <1>2
  <2> HIDE DEF t, now
  <2>3. SUFFICES ASSUME NEW y \in Year, score'[y] # NoScore, ~broken'[y], ~stray'[y]
                 PROVE  score'[y] = compute_company_year_score(Of(y, findings'), not_evaluable'[y])
      BY DEF ScoreMatchesFindings
  <2>4. CASE y = t.year
      BY <1>1, <2>1, <2>2, <2>3, <2>4 DEF RunsTyped, TypeOK
  <2>5. CASE y # t.year
      BY <1>2, <2>1, <2>3, <2>5 DEF ScoreMatchesFindings, RunsTyped, TypeOK
  <2>6. QED
      BY <2>4, <2>5
<1>5. QED
    BY <1>3, <1>4

\* For every interleaving of runs and verdicts the stored score is the score
\* of the findings and verdicts the period has, but for the two cases the
\* histories record: a run broken off, and a verdict on replaced findings.
THEOREM ScoresMatch == Spec => []ScoreMatchesFindings
<1>1. Init => RunsTyped /\ ScoreMatchesFindings
    BY TypedInit DEF Init, ScoreMatchesFindings
<1>2. RunsTyped /\ ScoreMatchesFindings /\ [Next]_vars => RunsTyped' /\ ScoreMatchesFindings'
  <2>1. SUFFICES ASSUME RunsTyped, ScoreMatchesFindings, [Next]_vars
                 PROVE  ScoreMatchesFindings'
      BY TypedNext
  <2>2. CASE UNCHANGED <<findings, not_evaluable, score, broken, stray>>
      BY <2>1, <2>2 DEF ScoreMatchesFindings
  <2>3. ASSUME NEW p \in Proc,
               RunCommit(p) \/ RunFails(p) \/ VerdictCommit(p) \/ ResubmitCommit(p)
        PROVE  ScoreMatchesFindings'
      BY <2>1, <2>3, MatchRunCommit, MatchRunFails, MatchVerdict, MatchResubmit
  <2>4. CASE UNCHANGED vars
      BY <2>2, <2>4 DEF vars, tables
  <2>5. CASE Next
      BY <2>2, <2>3, <2>5 DEF Next, RunRead, VerdictRead, ResubmitRead, Abort, tables, Proc
  <2>6. QED
      BY <2>1, <2>4, <2>5
<1>3. QED
    BY <1>1, <1>2, PTL DEF Spec
=============================================================================
