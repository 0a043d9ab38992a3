----------------------------- MODULE Rules_proofs -----------------------------
(***************************************************************************)
(* Proofs about PeriodLine, CheckDefs, Accounts and Periods: for any       *)
(* officers, pages, jobs and answers under way, for any authors and        *)
(* snippets, any number of administrators, and any windows and lines; and  *)
(* with those of Checks_proofs, of MCRules' properties of several parts.   *)
(***************************************************************************)
EXTENDS MCRules, Checks_proofs, SequenceTheorems

(***************************************************************************)
(* PeriodLine.  The badge forgets a load (viewed) in the same step as the  *)
(* final answer starts on its way, so what has to be kept is the way: an   *)
(* answer under way stays under way with its page, or becomes part of      *)
(* what was told.  For that who asked, and whose a row is, never change.   *)
(***************************************************************************)

Statuses == {"none", "queued", "running", "stopped"} \cup Ended
AnswerRec == [job : Nat, status : Statuses, active : BOOLEAN, reload : BOOLEAN]
OpenPage == [open : {TRUE}, who : Person, timer : BOOLEAN, flight : SUBSET AnswerRec]

\* What a worker has in hand is a row of its lane that runs.
HandsHold ==
    \A l \in Lanes : hand[l] # 0 =>
        /\ serving /\ hand[l] \in JobIds
        /\ table[hand[l]].status = "running" /\ LaneOfKind(table[hand[l]].kind) = l

Bounded(q) ==
    q.open => /\ IsFiniteSet(q.flight) /\ Cardinality(q.flight) <= MaxFlight
              /\ \A a \in q.flight : a.status \in Ended => a.job \in JobIds

LineTyped ==
    /\ table \in Seq(JobRow) /\ Len(table) <= MaxRows
    /\ hand \in [Lanes -> Nat] /\ serving \in BOOLEAN
    /\ screen \in [Screen -> OpenPage \cup {NoScreen}]
    /\ HandsHold
    /\ \A p \in Screen : Bounded(screen[p])
    /\ told \subseteq JobIds

\* Part one of LineIsTrue.
ViewedWasTold ==
    \A j \in JobIds : table[j].viewed =>
        \/ j \in told
        \/ \E p \in Screen : screen[p].open /\
               \E a \in screen[p].flight : j \in Final(a, screen[p].who)

LineInv == LineTyped /\ ViewedWasTold

LEMMA LineConstants == MaxRows \in Nat /\ MaxFlight \in Nat /\ OldAge \in Nat
BY PeriodLineAssumption

\* The open pages and the closed ones are told apart.
LEMMA PageFacts ==
    /\ \A q \in OpenPage : q.open /\ q.who \in Person /\ q.timer \in BOOLEAN
                           /\ q.flight \subseteq AnswerRec /\ q # NoScreen
    /\ ~NoScreen.open
<1>1. NoScreen.open = FALSE
    BY DEF NoScreen
<1>2. ASSUME NEW q \in OpenPage
      PROVE  q.open = TRUE /\ q.who \in Person /\ q.timer \in BOOLEAN
             /\ q.flight \subseteq AnswerRec
    BY DEF OpenPage
<1>3. QED
    BY <1>1, <1>2

LEMMA TableFacts ==
    ASSUME LineTyped
    PROVE  /\ Len(table) \in Nat /\ JobIds = DOMAIN table /\ JobIds \subseteq Nat
           /\ \A j \in JobIds : table[j] \in JobRow
<1>1. table \in Seq(JobRow)
    BY DEF LineTyped
<1>2. QED
    BY <1>1, LenProperties, ElementOfSeq DEF JobIds

LEMMA LargestExists ==
    ASSUME NEW n \in Nat, NEW S \in SUBSET (1 .. n), S # {}
    PROVE  \E m \in S : \A k \in S \ {m} : k < m
<1> DEFINE NoMax == {T \in SUBSET S : T # {} /\ ~\E m \in T : \A k \in T \ {m} : k < m}
<1>0. IsFiniteSet(S) /\ S \subseteq Int
  <2>1. 1 \in Int /\ n \in Int /\ 1 .. n \subseteq Int
      OBVIOUS
  <2>2. IsFiniteSet(1 .. n)
      BY <2>1, FS_Interval
  <2>3. QED
      BY <2>1, <2>2, FS_Subset
<1>1. NoMax \subseteq FiniteSubsetsOf(S)
    BY <1>0, FS_Subset DEF FiniteSubsetsOf
<1>2. SUFFICES ASSUME NoMax # {} PROVE FALSE
    OBVIOUS
<1>3. PICK T \in NoMax : \A U \in NoMax : <<U, T>> \notin StrictSubsetOrdering(S)
  <2> HIDE DEF NoMax
  <2>1. IsWellFoundedOn(StrictSubsetOrdering(S), FiniteSubsetsOf(S))
      BY <1>0, FS_StrictSubsetOrderingWellFounded
  <2>2. QED
      BY <1>1, <1>2, <2>1, WFMin
<1>4. PICK x \in T : TRUE
    OBVIOUS
<1> DEFINE U == T \ {x}
<1>5. U \notin NoMax
    BY <1>3, <1>4 DEF StrictSubsetOrdering
<1>6. CASE U = {}
    BY <1>4, <1>6
<1>7. CASE U # {}
  <2>1. PICK m \in U : \A k \in U \ {m} : k < m
      BY <1>5, <1>7
  <2>2. m \in Int /\ x \in Int /\ T \subseteq Int /\ m # x
      BY <1>0, <1>4
  <2>3. CASE m < x
      BY <2>1, <2>2, <2>3
  <2>4. CASE x < m
      BY <2>1, <2>2, <2>4
  <2>5. QED
      BY <2>2, <2>3, <2>4
<1>8. QED
    BY <1>6, <1>7

LEMMA LatestIs ==
    ASSUME LineTyped, ~\A i \in JobIds : table[i].kind # "ingest"
    PROVE  _latest_ingest_job \in JobIds
<1> DEFINE S == {i \in JobIds : table[i].kind = "ingest"}
<1>1. Len(table) \in Nat
    BY TableFacts
<1>2. S \subseteq 1 .. Len(table) /\ S # {}
    BY DEF JobIds
<1>3. PICK m \in S : \A k \in S \ {m} : k < m
    <2> HIDE DEF S
    <2> QED
        BY <1>1, <1>2, LargestExists
<1>4. QED
    BY <1>3 DEF _latest_ingest_job, OlderThan

\* What an answer is: final ones name a row that has ended.
LEMMA AnswerFacts ==
    ASSUME LineTyped
    PROVE  /\ ingest_status \in AnswerRec
           /\ ingest_status.status \in Ended =>
                 ingest_status.job \in JobIds /\ table[ingest_status.job].status \in Ended
           /\ ingest_status.job \in JobIds /\ table[ingest_status.job].status \in Ended =>
                 ingest_status.status \in Ended
<1>1. CASE \A i \in JobIds : table[i].kind # "ingest"
  <2>1. ingest_status = NoAnswer
      BY <1>1 DEF ingest_status
  <2>2. 0 \notin JobIds
      BY DEF JobIds
  <2>3. QED
      BY <2>1, <2>2 DEF NoAnswer, Answer, AnswerRec, Statuses, Ended
<1>2. CASE ~\A i \in JobIds : table[i].kind # "ingest"
  <2>1. PICK j \in JobIds : j = _latest_ingest_job
      BY <1>2, LatestIs
  <2>2. /\ Len(table) \in Nat /\ j \in Nat
        /\ table[j].status \in {"queued", "running"} \cup Ended
      BY TableFacts DEF JobRow
  <2>3. ingest_status =
           CASE table[j].status = "done" -> _done_status(j)
             [] table[j].status = "failed" -> Answer(j, "failed", FALSE, FALSE)
             [] _is_orphaned(j) -> Answer(j, "stopped", FALSE, FALSE)
             [] OTHER -> Answer(j, table[j].status, TRUE, FALSE)
      BY <1>2, <2>1 DEF ingest_status
  <2>4. CASE table[j].status = "done"
    <3>1. ingest_status = _done_status(j)
        BY <2>3, <2>4 DEF _is_orphaned
    <3>2. \E x, y \in BOOLEAN : _done_status(j) = Answer(j, "done", x, y)
        BY DEF _done_status
    <3>3. QED
        BY <2>2, <2>4, <3>1, <3>2 DEF Answer, AnswerRec, Statuses, Ended
  <2>5. CASE table[j].status = "failed"
    <3>1. ingest_status = Answer(j, "failed", FALSE, FALSE)
        BY <2>3, <2>5 DEF _is_orphaned
    <3>2. QED
        BY <2>2, <2>5, <3>1 DEF Answer, AnswerRec, Statuses, Ended
  <2>6. CASE table[j].status \in {"queued", "running"}
    <3>1. \/ ingest_status = Answer(j, "stopped", FALSE, FALSE)
          \/ ingest_status = Answer(j, table[j].status, TRUE, FALSE)
        BY <2>3, <2>6
    <3>2. \E st \in {"stopped", "queued", "running"}, x \in BOOLEAN :
              ingest_status = Answer(j, st, x, FALSE)
        BY <2>6, <3>1
    <3>3. QED
        BY <2>2, <2>6, <3>2 DEF Answer, AnswerRec, Statuses, Ended
  <2>7. QED
      BY <2>2, <2>4, <2>5, <2>6 DEF Ended
<1>3. QED
    BY <1>1, <1>2

LEMMA FinalIs ==
    ASSUME NEW a, NEW u, NEW j
    PROVE  j \in Final(a, u) <=>
              ~a.active /\ a.status \in Ended /\ table[a.job].by = u /\ j = a.job
BY DEF Final

\* The answers of an open page that are final name rows.
LEMMA FinalRows ==
    ASSUME LineTyped, NEW p \in Screen, screen[p].open, NEW a \in screen[p].flight
    PROVE  Final(a, screen[p].who) \subseteq JobIds
BY DEF Final, LineTyped, Bounded

\* Rows are only added, and nobody takes over a row of another.
RowsKept ==
    /\ table' \in Seq(JobRow) /\ Len(table') <= MaxRows
    /\ JobIds \subseteq JobIds'
    /\ \A j \in JobIds : table'[j].kind = table[j].kind /\ table'[j].by = table[j].by

LEMMA RowsSame == LineTyped /\ UNCHANGED table => RowsKept
BY DEF RowsKept, LineTyped, JobIds

LEMMA Marked ==
    ASSUME LineTyped, NEW a, NEW u, table' = mark_seen(a, u)
    PROVE  /\ RowsKept /\ JobIds' = JobIds
           /\ \A j \in JobIds : table'[j].status = table[j].status
           /\ \A j \in JobIds : table'[j].viewed =>
                 table[j].viewed \/ (/\ ~a.active /\ j = a.job /\ table[j].by = u
                                   /\ table[j].status \in Ended)
<1> DEFINE new(j) == ~a.active /\ j = a.job /\ table[j].by = u /\ table[j].status \in Ended
<1>1. table' = [j \in JobIds |-> [table[j] EXCEPT !.viewed = @ \/ new(j)]]
    BY DEF mark_seen
<1>2. ASSUME NEW j \in JobIds
      PROVE  LET row == [table[j] EXCEPT !.viewed = @ \/ new(j)]
             IN  /\ row \in JobRow /\ row.kind = table[j].kind /\ row.by = table[j].by
                 /\ row.status = table[j].status
                 /\ row.viewed => table[j].viewed \/ new(j)
  <2>1. table[j] \in JobRow /\ new(j) \in BOOLEAN
      BY TableFacts
  <2> HIDE DEF new
  <2>2. QED
      BY <2>1 DEF JobRow
<1>3. RowsKept /\ JobIds' = JobIds
  <2> HIDE DEF new
  <2>1. Len(table) \in Nat /\ Len(table) <= MaxRows
      BY TableFacts DEF LineTyped
  <2>2. table' \in Seq(JobRow) /\ Len(table') = Len(table)
      BY <1>1, <1>2, <2>1 DEF JobIds
  <2>3. QED
      BY <1>1, <1>2, <2>1, <2>2 DEF RowsKept, JobIds
<1>4. QED
    BY <1>1, <1>2, <1>3

\* What an action has to keep so that whatever was viewed was told.
LEMMA ViewedStep ==
    ASSUME LineTyped, ViewedWasTold, RowsKept, told \subseteq told',
           \A j \in JobIds' : table'[j].viewed =>
               \/ j \in JobIds /\ table[j].viewed
               \/ j \in told'
               \/ \E p \in Screen : screen'[p].open /\
                      \E a \in screen'[p].flight : (j \in Final(a, screen[p].who))',
           \A p \in Screen : screen[p].open =>
               \A a \in screen[p].flight :
                   \/ Final(a, screen[p].who) \subseteq told'
                   \/ /\ screen'[p].open /\ screen'[p].who = screen[p].who
                      /\ a \in screen'[p].flight
    PROVE  ViewedWasTold'
<1> SUFFICES ASSUME NEW j \in JobIds, table[j].viewed, j \notin told'
             PROVE  \E p \in Screen : screen'[p].open /\
                      \E a \in screen'[p].flight : (j \in Final(a, screen[p].who))'
    BY DEF ViewedWasTold
<1>1. PICK p \in Screen, a \in UNION {screen[q].flight : q \in {q \in Screen : screen[q].open}} :
          screen[p].open /\ a \in screen[p].flight /\ j \in Final(a, screen[p].who)
    BY DEF ViewedWasTold
<1>2. screen'[p].open /\ screen'[p].who = screen[p].who /\ a \in screen'[p].flight
    BY <1>1
<1>3. (j \in Final(a, screen[p].who))'
    BY <1>1, <1>2 DEF Final, RowsKept
<1>4. QED
    BY <1>2, <1>3

\* The jobs change nothing of what pages show.
LEMMA ViewedQuiet ==
    ASSUME LineTyped, ViewedWasTold, RowsKept, UNCHANGED <<screen, told>>,
           \A j \in JobIds' : table'[j].viewed => j \in JobIds /\ table[j].viewed
    PROVE  ViewedWasTold'
<1>1. \A p \in Screen : screen[p].open =>
          \A a \in screen[p].flight :
              screen'[p].open /\ screen'[p].who = screen[p].who /\ a \in screen'[p].flight
    OBVIOUS
<1>2. QED
    BY <1>1, ViewedStep

\* A worker keeps what it has while nobody else ends it.
LEMMA HandsKept ==
    ASSUME LineTyped, RowsKept, UNCHANGED <<hand, serving>>,
           \A j \in JobIds : table[j].status = "running" => table'[j].status = "running"
    PROVE  HandsHold'
BY DEF LineTyped, HandsHold, RowsKept

LEMMA PagesKept ==
    ASSUME LineTyped, RowsKept, UNCHANGED screen
    PROVE  /\ screen' \in [Screen -> OpenPage \cup {NoScreen}]
           /\ \A p \in Screen : Bounded(screen[p])'
BY DEF LineTyped, Bounded, RowsKept

LEMMA PageTyped ==
    ASSUME LineTyped, RowsKept, NEW p \in Screen, NEW q \in OpenPage \cup {NoScreen},
           screen' = [screen EXCEPT ![p] = q], Bounded(q)
    PROVE  /\ screen' \in [Screen -> OpenPage \cup {NoScreen}]
           /\ \A x \in Screen : Bounded(screen[x])'
<1>1. screen' \in [Screen -> OpenPage \cup {NoScreen}]
    BY DEF LineTyped
<1>2. ASSUME NEW x \in Screen
      PROVE  Bounded(screen[x])'
  <2>1. Bounded(screen'[x])
      BY DEF LineTyped
  <2>2. QED
      BY <2>1 DEF Bounded, RowsKept
<1>3. QED
    BY <1>1, <1>2

LEMMA ToldKept ==
    ASSUME LineTyped, RowsKept, NEW S \in SUBSET JobIds, told' = told \cup S
    PROVE  told' \subseteq JobIds'
BY DEF LineTyped, RowsKept

LEMMA InvOpenScreen ==
    ASSUME LineInv, NEW p \in Screen, NEW u \in Person, OpenScreen(p, u)
    PROVE  LineInv'
<1> USE DEF LineInv
<1>1. PICK a \in AnswerRec : a = ingest_status
    BY AnswerFacts
<1>2. /\ serving /\ screen[p] = NoScreen
      /\ screen' = [screen EXCEPT ![p] = Shown(u, a)]
      /\ table' = mark_seen(a, u) /\ told' = told \cup Final(a, u)
      /\ UNCHANGED <<hand, serving>>
    BY <1>1 DEF OpenScreen
<1>3. /\ RowsKept /\ JobIds' = JobIds
      /\ \A j \in JobIds : table'[j].status = table[j].status
      /\ \A j \in JobIds : table'[j].viewed =>
            table[j].viewed \/ (/\ ~a.active /\ j = a.job /\ table[j].by = u
                              /\ table[j].status \in Ended)
    BY <1>2, Marked
<1>4. PICK q \in OpenPage : q = Shown(u, a) /\ q.flight = {}
  <2>1. a.active \in BOOLEAN
      BY DEF AnswerRec
  <2>2. {} \in SUBSET AnswerRec
      OBVIOUS
  <2>3. Shown(u, a) \in OpenPage
      BY <2>1, <2>2 DEF OpenPage, Shown
  <2>4. Shown(u, a).flight = {}
      BY DEF Shown
  <2>5. QED
      BY <2>3, <2>4
<1>5. Bounded(q)
    BY <1>4, FS_EmptySet, LineConstants DEF Bounded
<1>6. Final(a, u) \subseteq JobIds
    BY <1>1, AnswerFacts DEF Final
<1>7. LineTyped'
  <2>1. HandsHold'
      BY <1>2, <1>3, HandsKept
  <2>2. /\ screen' \in [Screen -> OpenPage \cup {NoScreen}]
        /\ \A x \in Screen : Bounded(screen[x])'
      BY <1>2, <1>3, <1>4, <1>5, PageTyped
  <2>3. told' \subseteq JobIds'
      BY <1>2, <1>3, <1>6, ToldKept
  <2>4. QED
      BY <1>2, <1>3, <2>1, <2>2, <2>3 DEF LineTyped, RowsKept
<1>8. ViewedWasTold'
  <2>1. ~screen[p].open
      BY <1>2, PageFacts
  <2>2. ASSUME NEW j \in JobIds', table'[j].viewed, ~table[j].viewed
        PROVE  j \in told'
    <3>1. ~a.active /\ j = a.job /\ table[j].by = u /\ table[j].status \in Ended
        BY <1>3, <2>2
    <3>2. a.status \in Ended
        BY <1>1, <1>3, <3>1, AnswerFacts
    <3>3. QED
        BY <1>2, <3>1, <3>2 DEF Final
  <2>3. \A x \in Screen : screen[x].open => screen'[x] = screen[x]
      BY <1>2, <2>1 DEF LineTyped
  <2>4. QED
      BY <1>2, <1>3, <2>2, <2>3, ViewedStep
<1>9. QED
    BY <1>7, <1>8

LEMMA InvAskStatus ==
    ASSUME LineInv, NEW p \in Screen, AskStatus(p)
    PROVE  LineInv'
<1> USE DEF LineInv
<1>1. PICK a \in AnswerRec : a = ingest_status
    BY AnswerFacts
<1>2. /\ screen[p] \in OpenPage /\ screen[p].open
    BY PageFacts DEF AskStatus, LineTyped
<1>3. PICK u \in Person : u = screen[p].who
    BY <1>2, PageFacts
<1>4. PICK q : q = [screen[p] EXCEPT !.flight = @ \cup {a}]
    OBVIOUS
<1>5. /\ Cardinality(screen[p].flight \ {a}) < MaxFlight
      /\ screen' = [screen EXCEPT ![p] = q]
      /\ table' = mark_seen(a, u)
      /\ UNCHANGED <<hand, serving, told>>
    BY <1>1, <1>3, <1>4 DEF AskStatus, LineTyped
<1>6. /\ RowsKept /\ JobIds' = JobIds
      /\ \A j \in JobIds : table'[j].status = table[j].status
      /\ \A j \in JobIds : table'[j].viewed =>
            table[j].viewed \/ (/\ ~a.active /\ j = a.job /\ table[j].by = u
                              /\ table[j].status \in Ended)
    BY <1>5, Marked
<1>7. q \in OpenPage /\ q.open /\ q.who = u /\ q.flight = screen[p].flight \cup {a}
    BY <1>2, <1>3, <1>4 DEF OpenPage
<1>8. Bounded(q)
  <2>1. IsFiniteSet(screen[p].flight)
      BY <1>2 DEF LineTyped, Bounded
  <2>2. PICK S : S = screen[p].flight \ {a}
      OBVIOUS
  <2>3. IsFiniteSet(S) /\ a \notin S /\ q.flight = S \cup {a}
      BY <1>7, <2>1, <2>2, FS_RemoveElement
  <2>4. IsFiniteSet(q.flight) /\ Cardinality(q.flight) = Cardinality(S) + 1
      BY <2>3, FS_AddElement
  <2>5. Cardinality(S) \in Nat /\ Cardinality(S) < MaxFlight
      BY <1>5, <2>2, <2>3, FS_CardinalityType
  <2>6. Cardinality(q.flight) <= MaxFlight
      BY <2>4, <2>5, LineConstants
  <2>7. \A b \in q.flight : b.status \in Ended => b.job \in JobIds
      BY <1>1, <1>2, <1>7, AnswerFacts DEF LineTyped, Bounded
  <2>8. QED
      BY <2>4, <2>6, <2>7 DEF Bounded
<1>9. LineTyped'
  <2>1. HandsHold'
      BY <1>5, <1>6, HandsKept
  <2>2. /\ screen' \in [Screen -> OpenPage \cup {NoScreen}]
        /\ \A x \in Screen : Bounded(screen[x])'
      BY <1>5, <1>6, <1>7, <1>8, PageTyped
  <2>3. told' \subseteq JobIds'
      BY <1>5, <1>6 DEF LineTyped
  <2>4. QED
      BY <1>5, <1>6, <2>1, <2>2, <2>3 DEF LineTyped, RowsKept
<1>10. ViewedWasTold'
  <2>1. screen'[p] = q
      BY <1>5 DEF LineTyped
  <2>2. ASSUME NEW j \in JobIds', table'[j].viewed, ~table[j].viewed
        PROVE  \E x \in Screen : screen'[x].open /\
                  \E b \in screen'[x].flight : (j \in Final(b, screen[x].who))'
    <3>1. ~a.active /\ j = a.job /\ table[j].by = u /\ table[j].status \in Ended
        BY <1>6, <2>2
    <3>2. a.status \in Ended
        BY <1>1, <1>6, <3>1, AnswerFacts
    <3>3. (j \in Final(a, screen[p].who))'
        BY <1>6, <1>7, <2>1, <3>1, <3>2 DEF Final, RowsKept
    <3>4. QED
        BY <1>7, <2>1, <3>3
  <2>3. ASSUME NEW x \in Screen, screen[x].open, NEW b \in screen[x].flight
        PROVE  screen'[x].open /\ screen'[x].who = screen[x].who /\ b \in screen'[x].flight
    <3>1. x # p => screen'[x] = screen[x]
        BY <1>5 DEF LineTyped
    <3>2. QED
        BY <1>3, <1>7, <2>1, <2>3, <3>1
  <2>4. \A x \in Screen : screen[x].open =>
            \A b \in screen[x].flight :
                screen'[x].open /\ screen'[x].who = screen[x].who /\ b \in screen'[x].flight
      BY <2>3
  <2>5. QED
      BY <1>5, <1>6, <2>2, <2>4, ViewedStep
<1>11. QED
    BY <1>9, <1>10

\* A page loses answers that become told, or goes with all of them.
LEMMA InvPage ==
    ASSUME LineInv, NEW p \in Screen, NEW q \in OpenPage \cup {NoScreen},
           NEW S \in SUBSET screen[p].flight, screen[p].open,
           screen' = [screen EXCEPT ![p] = q],
           q.open => q.who = screen[p].who /\ q.flight = screen[p].flight \ S,
           ~q.open => S = screen[p].flight,
           told' = told \cup UNION {Final(a, screen[p].who) : a \in S},
           UNCHANGED <<table, hand, serving>>
    PROVE  LineInv'
<1> USE DEF LineInv
<1>1. RowsKept /\ JobIds' = JobIds
    BY RowsSame DEF JobIds
<1>2. screen[p] \in OpenPage /\ IsFiniteSet(screen[p].flight)
      /\ Cardinality(screen[p].flight) <= MaxFlight
    BY PageFacts DEF LineTyped, Bounded
<1>3. Bounded(q)
  <2>1. SUFFICES ASSUME q.open PROVE Bounded(q)
      BY DEF Bounded
  <2>2. PICK F : F = q.flight
      OBVIOUS
  <2>3. F \subseteq screen[p].flight
      BY <2>1, <2>2
  <2>4. IsFiniteSet(F) /\ Cardinality(F) <= Cardinality(screen[p].flight)
      BY <1>2, <2>3, FS_Subset
  <2>5. Cardinality(F) \in Nat /\ Cardinality(screen[p].flight) \in Nat
      BY <1>2, <2>4, FS_CardinalityType
  <2>6. QED
      BY <1>2, <2>2, <2>3, <2>4, <2>5, LineConstants DEF Bounded, LineTyped
<1>4. \A a \in S : Final(a, screen[p].who) \subseteq JobIds
    BY FinalRows
<1>5. LineTyped'
  <2>1. HandsHold'
      BY <1>1, HandsKept
  <2>2. /\ screen' \in [Screen -> OpenPage \cup {NoScreen}]
        /\ \A x \in Screen : Bounded(screen[x])'
      BY <1>1, <1>3, PageTyped
  <2>3. told' \subseteq JobIds'
      BY <1>1, <1>4 DEF LineTyped
  <2>4. QED
      BY <1>1, <2>1, <2>2, <2>3 DEF LineTyped, RowsKept
<1>6. ViewedWasTold'
  <2>1. ASSUME NEW x \in Screen, screen[x].open, NEW a \in screen[x].flight
        PROVE  \/ Final(a, screen[x].who) \subseteq told'
               \/ /\ screen'[x].open /\ screen'[x].who = screen[x].who
                  /\ a \in screen'[x].flight
    <3>1. CASE x # p
        BY <2>1, <3>1 DEF LineTyped
    <3>2. CASE x = p /\ a \in S
        BY <3>2
    <3>3. CASE x = p /\ a \notin S
      <4>1. screen'[x] = q
          BY <3>3 DEF LineTyped
      <4>2. q.open
          BY <2>1, <3>3
      <4>3. QED
          BY <2>1, <3>3, <4>1, <4>2
    <3>4. QED
        BY <3>1, <3>2, <3>3
  <2>2. QED
      BY <1>1, <2>1, ViewedStep
<1>7. QED
    BY <1>5, <1>6

LEMMA InvCloseScreen ==
    ASSUME LineInv, NEW p \in Screen, CloseScreen(p)
    PROVE  LineInv'
<1>1. screen[p].open /\ NoScreen.open = FALSE
    BY DEF CloseScreen, NoScreen
<1>2. QED
    BY <1>1, InvPage DEF CloseScreen

LEMMA InvArrive ==
    ASSUME LineInv, NEW p \in Screen, Arrive(p)
    PROVE  LineInv'
<1>1. /\ screen[p].open /\ UNCHANGED <<table, hand, serving>>
      /\ screen[p] \in OpenPage
    BY PageFacts DEF Arrive, LineInv, LineTyped
<1>2. PICK a \in screen[p].flight :
        /\ screen' = [screen EXCEPT ![p] =
               IF a.reload THEN NoScreen
               ELSE [screen[p] EXCEPT !.timer = @ /\ a.active, !.flight = @ \ {a}]]
        /\ told' = told \cup UNION {Final(b, screen[p].who) :
                                      b \in IF a.reload THEN screen[p].flight ELSE {a}}
    BY DEF Arrive
<1>3. CASE a.reload
  <2>1. NoScreen.open = FALSE
      BY DEF NoScreen
  <2>2. /\ screen' = [screen EXCEPT ![p] = NoScreen]
        /\ told' = told \cup UNION {Final(b, screen[p].who) : b \in screen[p].flight}
      BY <1>2, <1>3
  <2>3. QED
      BY <1>1, <2>1, <2>2, InvPage
<1>4. CASE ~a.reload
  <2>1. PICK q : q = [screen[p] EXCEPT !.timer = @ /\ a.active, !.flight = @ \ {a}]
      OBVIOUS
  <2>2. a \in AnswerRec
      BY <1>1 DEF OpenPage
  <2>3. a.active \in BOOLEAN
      BY <2>2 DEF AnswerRec
  <2>4. /\ q \in OpenPage /\ q.open /\ q.who = screen[p].who
        /\ q.flight = screen[p].flight \ {a}
      BY <1>1, <2>1, <2>3 DEF OpenPage
  <2>5. screen' = [screen EXCEPT ![p] = q]
    <3>1. q = IF a.reload THEN NoScreen
              ELSE [screen[p] EXCEPT !.timer = @ /\ a.active, !.flight = @ \ {a}]
        BY <1>4, <2>1
    <3>2. QED
        BY <1>2, <3>1
  <2>6. told' = told \cup UNION {Final(b, screen[p].who) : b \in {a}}
      BY <1>2, <1>4
  <2>7. PICK S \in SUBSET screen[p].flight : S = {a}
      OBVIOUS
  <2>8. QED
      BY <1>1, <2>4, <2>5, <2>6, <2>7, InvPage
<1>5. QED
    BY <1>3, <1>4

LEMMA InvMiss ==
    ASSUME LineInv, NEW p \in Screen, Miss(p)
    PROVE  LineInv'
<1>1. /\ screen[p].open /\ UNCHANGED <<table, hand, serving>>
      /\ screen[p] \in OpenPage
    BY PageFacts DEF Miss, LineInv, LineTyped
<1>2. PICK a \in screen[p].flight :
        /\ screen' = [screen EXCEPT ![p].flight = @ \ {a}]
        /\ told' = told \cup Final(a, screen[p].who)
    BY DEF Miss
<1>3. PICK q : q = [screen[p] EXCEPT !.flight = @ \ {a}]
    OBVIOUS
<1>4. /\ q \in OpenPage /\ q.open /\ q.who = screen[p].who
      /\ q.flight = screen[p].flight \ {a}
    BY <1>1, <1>3 DEF OpenPage
<1>5. screen' = [screen EXCEPT ![p] = q]
    BY <1>2, <1>3 DEF LineInv, LineTyped
<1>6. PICK S \in SUBSET screen[p].flight : S = {a}
    OBVIOUS
<1>7. told' = told \cup UNION {Final(b, screen[p].who) : b \in S}
    BY <1>2, <1>6
<1>8. QED
    BY <1>1, <1>4, <1>5, <1>6, <1>7, InvPage

LEMMA InvStopAsking ==
    ASSUME LineInv, NEW p \in Screen, StopAsking(p)
    PROVE  LineInv'
<1>1. /\ screen[p].open /\ UNCHANGED <<table, hand, serving, told>>
      /\ screen' = [screen EXCEPT ![p].timer = FALSE] /\ screen[p] \in OpenPage
    BY PageFacts DEF StopAsking, LineInv, LineTyped
<1>2. PICK q : q = [screen[p] EXCEPT !.timer = FALSE]
    OBVIOUS
<1>3. q \in OpenPage /\ q.open /\ q.who = screen[p].who /\ q.flight = screen[p].flight
    BY <1>1, <1>2 DEF OpenPage
<1>4. screen' = [screen EXCEPT ![p] = q]
    BY <1>1, <1>2 DEF LineInv, LineTyped
<1>5. PICK S \in SUBSET screen[p].flight : S = {}
    OBVIOUS
<1>6. told' = told \cup UNION {Final(b, screen[p].who) : b \in S}
    BY <1>1, <1>5
<1>7. QED
    BY <1>1, <1>3, <1>4, <1>5, <1>6, InvPage

LEMMA InvOpenJob ==
    ASSUME LineInv, NEW u \in Person, NEW j \in JobIds, OpenJob(u, j)
    PROVE  LineInv'
<1> USE DEF LineInv
<1>1. /\ table' = [table EXCEPT ![j].viewed = TRUE] /\ told' = told \cup {j}
      /\ UNCHANGED <<hand, serving, screen>>
    BY DEF OpenJob
<1>2. /\ table \in Seq(JobRow) /\ Len(table) \in Nat /\ j \in 1 .. Len(table)
      /\ table[j] \in JobRow
    BY TableFacts DEF LineTyped, JobIds
<1>3. PICK row : row = [table[j] EXCEPT !.viewed = TRUE]
    OBVIOUS
<1>4. /\ row \in JobRow /\ row.kind = table[j].kind /\ row.by = table[j].by
      /\ row.status = table[j].status
    BY <1>2, <1>3 DEF JobRow
<1>5. table' = [table EXCEPT ![j] = row]
    BY <1>1, <1>3
<1>6. /\ table' \in Seq(JobRow) /\ Len(table') = Len(table)
      /\ \A i \in JobIds : table'[i] = IF i = j THEN row ELSE table[i]
    BY <1>2, <1>4, <1>5, ExceptSeq DEF JobIds
<1>7. RowsKept /\ JobIds' = JobIds
    BY <1>4, <1>6 DEF RowsKept, JobIds, LineTyped
<1>8. LineTyped'
  <2>1. HandsHold'
      BY <1>1, <1>4, <1>6, <1>7, HandsKept
  <2>2. /\ screen' \in [Screen -> OpenPage \cup {NoScreen}]
        /\ \A x \in Screen : Bounded(screen[x])'
      BY <1>1, <1>7, PagesKept
  <2>3. told' \subseteq JobIds'
      BY <1>1, <1>7 DEF LineTyped
  <2>4. QED
      BY <1>1, <1>7, <2>1, <2>2, <2>3 DEF LineTyped, RowsKept
<1>9. ViewedWasTold'
  <2>1. \A i \in JobIds' : table'[i].viewed => (i \in JobIds /\ table[i].viewed) \/ i \in told'
      BY <1>1, <1>6, <1>7
  <2>2. \A x \in Screen : screen[x].open =>
            \A a \in screen[x].flight :
                screen'[x].open /\ screen'[x].who = screen[x].who /\ a \in screen'[x].flight
      BY <1>1
  <2>3. QED
      BY <1>1, <1>7, <2>1, <2>2, ViewedStep
<1>10. QED
    BY <1>8, <1>9

\* What the server does with the jobs.
LEMMA InvServer ==
    ASSUME LineInv, RowsKept, HandsHold', hand' \in [Lanes -> Nat], serving' \in BOOLEAN,
           UNCHANGED <<screen, told>>,
           \A j \in JobIds' : table'[j].viewed => j \in JobIds /\ table[j].viewed
    PROVE  LineInv'
<1>1. LineTyped'
  <2>1. /\ screen' \in [Screen -> OpenPage \cup {NoScreen}]
        /\ \A x \in Screen : Bounded(screen[x])'
      BY PagesKept DEF LineInv
  <2>2. told' \subseteq JobIds'
      BY DEF LineInv, LineTyped, RowsKept
  <2>3. QED
      BY <2>1, <2>2 DEF LineTyped, RowsKept
<1>2. QED
    BY <1>1, ViewedQuiet DEF LineInv

LEMMA NewJobTyped ==
    ASSUME NEW k \in {"ingest", "run_checks", "ai_overview"}, NEW by \in Person
    PROVE  NewJob(k, by) \in JobRow /\ NewJob(k, by).viewed = FALSE
BY LineConstants DEF NewJob, JobRow, Outcomes

LEMMA InvRequest ==
    ASSUME LineInv, NEW r \in Requests, Request(r[1], r[2])
    PROVE  LineInv'
<1> USE DEF LineInv
<1>1. r[1] \in {"ingest", "run_checks", "ai_overview"} /\ r[2] \in Person
    BY PeriodLineAssumption
<1>2. PICK row \in JobRow : row = NewJob(r[1], r[2]) /\ row.viewed = FALSE
    BY <1>1, NewJobTyped
<1>3. /\ Len(table) < MaxRows /\ table' = Append(table, row)
      /\ UNCHANGED <<hand, serving, screen, told>>
    BY <1>2 DEF Request
<1>4. table \in Seq(JobRow) /\ Len(table) \in Nat
    BY TableFacts DEF LineTyped
<1>5. /\ table' \in Seq(JobRow) /\ Len(table') = Len(table) + 1
      /\ \A i \in 1 .. Len(table) : table'[i] = table[i]
      /\ table'[Len(table) + 1] = row
    BY <1>3, <1>4, AppendProperties
<1>6. RowsKept
    BY <1>3, <1>4, <1>5, LineConstants DEF RowsKept, JobIds
<1>7. HandsHold'
    BY <1>3, <1>5, <1>6, HandsKept DEF JobIds
<1>8. \A j \in JobIds' : table'[j].viewed => j \in JobIds /\ table[j].viewed
    BY <1>2, <1>4, <1>5 DEF JobIds
<1>9. QED
    BY <1>3, <1>6, <1>7, <1>8, InvServer DEF LineTyped

LEMMA InvTake ==
    ASSUME LineInv, NEW l \in Lanes, Take(l)
    PROVE  LineInv'
<1> USE DEF LineInv
<1>1. PICK j \in JobIds :
        /\ table[j].status = "queued" /\ LaneOfKind(table[j].kind) = l
        /\ table' = [table EXCEPT ![j].status = "running"]
        /\ hand' = [hand EXCEPT ![l] = j]
    BY DEF Take
<1>2. serving /\ hand[l] = 0 /\ UNCHANGED <<serving, screen, told>>
    BY DEF Take
<1>3. /\ table \in Seq(JobRow) /\ Len(table) \in Nat /\ j \in 1 .. Len(table)
      /\ table[j] \in JobRow
    BY TableFacts DEF LineTyped, JobIds
<1>4. PICK row : row = [table[j] EXCEPT !.status = "running"]
    OBVIOUS
<1>5. /\ row \in JobRow /\ row.kind = table[j].kind /\ row.by = table[j].by
      /\ row.status = "running" /\ row.viewed = table[j].viewed
    BY <1>3, <1>4 DEF JobRow
<1>6. table' = [table EXCEPT ![j] = row]
    BY <1>1, <1>4
<1>7. /\ table' \in Seq(JobRow) /\ Len(table') = Len(table)
      /\ \A i \in JobIds : table'[i] = IF i = j THEN row ELSE table[i]
    BY <1>3, <1>5, <1>6, ExceptSeq DEF JobIds
<1>8. RowsKept /\ JobIds' = JobIds
    BY <1>5, <1>7 DEF RowsKept, JobIds, LineTyped
<1>9. hand' \in [Lanes -> Nat]
    BY <1>1, <1>3 DEF LineTyped
<1>10. HandsHold'
  <2>1. ASSUME NEW m \in Lanes, hand'[m] # 0
        PROVE  /\ serving' /\ hand'[m] \in JobIds'
               /\ table'[hand'[m]].status = "running"
               /\ LaneOfKind(table'[hand'[m]].kind) = m
    <3>1. CASE m = l
      <4>1. hand'[m] = j
          BY <1>1, <3>1 DEF LineTyped
      <4>2. QED
          BY <1>1, <1>2, <1>5, <1>7, <1>8, <3>1, <4>1
    <3>2. CASE m # l
      <4>1. hand'[m] = hand[m]
          BY <1>1, <3>2 DEF LineTyped
      <4>2. QED
          BY <1>1, <1>2, <1>5, <1>7, <1>8, <2>1, <4>1 DEF LineTyped, HandsHold
    <3>3. QED
        BY <3>1, <3>2
  <2>2. QED
      BY <2>1 DEF HandsHold
<1>11. \A i \in JobIds' : table'[i].viewed => i \in JobIds /\ table[i].viewed
    BY <1>5, <1>7, <1>8
<1>12. QED
    BY <1>2, <1>8, <1>9, <1>10, <1>11, InvServer DEF LineTyped

LEMMA InvEnqueueFollowUp ==
    ASSUME LineInv, NEW l \in Lanes, EnqueueFollowUp(l)
    PROVE  LineInv'
<1> USE DEF LineInv
<1>1. PICK h \in JobIds : h = hand[l] /\ table[h].status = "running"
    BY DEF EnqueueFollowUp, LineTyped, HandsHold
<1>2. /\ table \in Seq(JobRow) /\ Len(table) \in Nat /\ h \in 1 .. Len(table)
      /\ table[h] \in JobRow
    BY TableFacts DEF LineTyped, JobIds
<1>3. PICK n \in Nat : n = Len(table)
    BY <1>2
<1>4. n < MaxRows /\ n + 1 \in 0 .. MaxRows
    BY <1>3, LineConstants DEF EnqueueFollowUp
<1>5. PICK first : first = [table[h] EXCEPT !.follow = n + 1]
    OBVIOUS
<1>6. /\ first \in JobRow /\ first.kind = table[h].kind /\ first.by = table[h].by
      /\ first.status = table[h].status /\ first.viewed = table[h].viewed
    BY <1>2, <1>4, <1>5 DEF JobRow
<1>7. PICK second \in JobRow : second = NewJob("run_checks", table[h].by) /\ second.viewed = FALSE
  <2>1. table[h].by \in Person
      BY <1>2 DEF JobRow
  <2>2. QED
      BY <2>1, NewJobTyped
<1>8. PICK mid : mid = [table EXCEPT ![h] = first]
    OBVIOUS
<1>9. /\ mid \in Seq(JobRow) /\ Len(mid) = n
      /\ \A i \in 1 .. n : mid[i] = IF i = h THEN first ELSE table[i]
    BY <1>2, <1>3, <1>6, <1>8, ExceptSeq
<1>10. table' = Append(mid, second) /\ UNCHANGED <<hand, serving, screen, told>>
    BY <1>1, <1>3, <1>5, <1>7, <1>8 DEF EnqueueFollowUp
<1>11. /\ table' \in Seq(JobRow) /\ Len(table') = n + 1
       /\ \A i \in 1 .. n : table'[i] = mid[i]
       /\ table'[n + 1] = second
    BY <1>9, <1>10, AppendProperties
<1>12. RowsKept
    BY <1>3, <1>4, <1>6, <1>9, <1>11, LineConstants DEF RowsKept, JobIds
<1>13. HandsHold'
    BY <1>3, <1>6, <1>9, <1>10, <1>11, <1>12, HandsKept DEF JobIds
<1>14. \A j \in JobIds' : table'[j].viewed => j \in JobIds /\ table[j].viewed
    BY <1>3, <1>6, <1>7, <1>9, <1>11 DEF JobIds
<1>15. QED
    BY <1>10, <1>12, <1>13, <1>14, InvServer DEF LineTyped

LEMMA InvComplete ==
    ASSUME LineInv, NEW l \in Lanes, NEW st \in Ended, NEW out \in Outcomes \cup {"none"},
           Complete(l, st, out)
    PROVE  LineInv'
<1> USE DEF LineInv
<1>1. PICK h \in JobIds : h = hand[l] /\ LaneOfKind(table[h].kind) = l
    BY DEF Complete, LineTyped, HandsHold
<1>2. /\ table' = [table EXCEPT ![h].status = st, ![h].outcome = out]
      /\ hand' = [hand EXCEPT ![l] = 0] /\ UNCHANGED <<serving, screen, told>>
    BY <1>1 DEF Complete
<1>3. /\ table \in Seq(JobRow) /\ Len(table) \in Nat /\ h \in 1 .. Len(table)
      /\ table[h] \in JobRow
    BY TableFacts DEF LineTyped, JobIds
<1>4. PICK row : row = [table[h] EXCEPT !.status = st, !.outcome = out]
    OBVIOUS
<1>5. /\ row \in JobRow /\ row.kind = table[h].kind /\ row.by = table[h].by
      /\ row.viewed = table[h].viewed
    BY <1>3, <1>4 DEF JobRow
<1>6. table' = [table EXCEPT ![h] = row]
    BY <1>2, <1>3, <1>4
<1>7. /\ table' \in Seq(JobRow) /\ Len(table') = Len(table)
      /\ \A i \in JobIds : table'[i] = IF i = h THEN row ELSE table[i]
    BY <1>3, <1>5, <1>6, ExceptSeq DEF JobIds
<1>8. RowsKept /\ JobIds' = JobIds
    BY <1>5, <1>7 DEF RowsKept, JobIds, LineTyped
<1>9. hand' \in [Lanes -> Nat]
    BY <1>2 DEF LineTyped
<1>10. ASSUME NEW m \in Lanes, hand'[m] # 0
       PROVE  /\ serving' /\ hand'[m] \in JobIds'
              /\ table'[hand'[m]].status = "running"
              /\ LaneOfKind(table'[hand'[m]].kind) = m
  <2>1. m # l /\ hand'[m] = hand[m]
      BY <1>2, <1>10 DEF LineTyped
  <2>2. /\ serving /\ hand[m] \in JobIds /\ table[hand[m]].status = "running"
        /\ LaneOfKind(table[hand[m]].kind) = m
      BY <1>10, <2>1 DEF LineTyped, HandsHold
  <2>3. PICK g \in JobIds : g = hand[m] /\ g = hand'[m]
      BY <2>1, <2>2
  <2>4. g # h
      BY <1>1, <2>1, <2>2, <2>3
  <2>5. table'[g] = table[g]
      BY <1>7, <2>4
  <2>6. table'[g].status = "running" /\ LaneOfKind(table'[g].kind) = m
      BY <2>2, <2>3, <2>5
  <2>7. serving' /\ g \in JobIds'
      BY <1>2, <1>8, <2>2
  <2>8. hand'[m] = g
      BY <2>3
  <2>9. QED
      BY <2>6, <2>7, <2>8
<1>11. HandsHold'
    BY <1>10 DEF HandsHold
<1>12. \A i \in JobIds' : table'[i].viewed => i \in JobIds /\ table[i].viewed
    BY <1>5, <1>7, <1>8
<1>13. QED
    BY <1>2, <1>8, <1>9, <1>11, <1>12, InvServer DEF LineTyped

LEMMA InvPerish ==
    ASSUME LineInv, Perish
    PROVE  LineInv'
<1> USE DEF LineInv
<1>1. /\ UNCHANGED <<table, screen, told>> /\ serving' = FALSE
      /\ hand' = [l \in Lanes |-> 0]
    BY DEF Perish
<1>2. RowsKept /\ JobIds' = JobIds
    BY <1>1, RowsSame DEF JobIds
<1>3. hand' \in [Lanes -> Nat] /\ HandsHold'
    BY <1>1 DEF HandsHold
<1>4. QED
    BY <1>1, <1>2, <1>3, InvServer

\* A step over all the rows leaves kinds, owners and views alone.
LEMMA SweptRows ==
    ASSUME LineTyped, NEW t, DOMAIN t = JobIds, table' = t, t = [j \in JobIds |-> t[j]],
           \A j \in JobIds : /\ t[j] \in JobRow /\ t[j].kind = table[j].kind
                             /\ t[j].by = table[j].by
    PROVE  RowsKept /\ JobIds' = JobIds
<1>1. Len(table) \in Nat /\ Len(table) <= MaxRows
    BY TableFacts DEF LineTyped
<1>2. t \in Seq(JobRow) /\ Len(t) = Len(table)
    BY <1>1 DEF JobIds
<1>3. QED
    BY <1>1, <1>2 DEF RowsKept, JobIds

LEMMA InvStartAgain ==
    ASSUME LineInv, StartAgain
    PROVE  LineInv'
<1> USE DEF LineInv
<1>1. PICK t : t = [j \in JobIds |-> IF table[j].status = "running" /\ table[j].age > OldAge
                                     THEN [table[j] EXCEPT !.status = "failed"] ELSE table[j]]
    OBVIOUS
<1>2. ~serving /\ serving' = TRUE /\ table' = t /\ UNCHANGED <<hand, screen, told>>
    BY <1>1 DEF StartAgain
<1>3. ASSUME NEW j \in JobIds
      PROVE  /\ t[j] \in JobRow /\ t[j].kind = table[j].kind /\ t[j].by = table[j].by
             /\ t[j].viewed = table[j].viewed
  <2>1. table[j] \in JobRow
      BY TableFacts
  <2>2. t[j] = [table[j] EXCEPT !.status = "failed"] \/ t[j] = table[j]
      BY <1>1
  <2>3. QED
      BY <2>1, <2>2 DEF JobRow, Ended
<1>4. DOMAIN t = JobIds /\ t = [j \in JobIds |-> t[j]]
    BY <1>1
<1>5. RowsKept /\ JobIds' = JobIds
    BY <1>2, <1>3, <1>4, SweptRows
<1>6. HandsHold'
    BY <1>2 DEF LineTyped, HandsHold
<1>7. \A j \in JobIds' : table'[j].viewed => j \in JobIds /\ table[j].viewed
    BY <1>2, <1>3, <1>5
<1>8. QED
    BY <1>2, <1>5, <1>6, <1>7, InvServer DEF LineTyped

LEMMA InvAgeing ==
    ASSUME LineInv, Ageing
    PROVE  LineInv'
<1> USE DEF LineInv
<1>1. PICK t : t = [j \in JobIds |-> IF table[j].status = "running" /\ table[j].age <= OldAge
                                     THEN [table[j] EXCEPT !.age = @ + 1] ELSE table[j]]
    OBVIOUS
<1>2. table' = t /\ UNCHANGED <<hand, serving, screen, told>>
    BY <1>1 DEF Ageing
<1>3. ASSUME NEW j \in JobIds
      PROVE  /\ t[j] \in JobRow /\ t[j].kind = table[j].kind /\ t[j].by = table[j].by
             /\ t[j].viewed = table[j].viewed /\ t[j].status = table[j].status
  <2>1. table[j] \in JobRow
      BY TableFacts
  <2>2. CASE table[j].status = "running" /\ table[j].age <= OldAge
    <3>1. t[j] = [table[j] EXCEPT !.age = @ + 1]
        BY <1>1, <2>2
    <3>2. table[j].age \in Nat /\ table[j].age + 1 \in 0 .. OldAge + 1
        BY <2>1, <2>2, LineConstants DEF JobRow
    <3>3. QED
        BY <2>1, <3>1, <3>2 DEF JobRow
  <2>3. CASE ~(table[j].status = "running" /\ table[j].age <= OldAge)
      BY <1>1, <2>1, <2>3
  <2>4. QED
      BY <2>2, <2>3
<1>4. DOMAIN t = JobIds /\ t = [j \in JobIds |-> t[j]]
    BY <1>1
<1>5. RowsKept /\ JobIds' = JobIds
    BY <1>2, <1>3, <1>4, SweptRows
<1>6. HandsHold'
    BY <1>2, <1>3, <1>5, HandsKept
<1>7. \A j \in JobIds' : table'[j].viewed => j \in JobIds /\ table[j].viewed
    BY <1>2, <1>3, <1>5
<1>8. QED
    BY <1>2, <1>5, <1>6, <1>7, InvServer DEF LineTyped

LEMMA LineInvInit == LineInit => LineInv
<1> SUFFICES ASSUME LineInit PROVE LineInv
    OBVIOUS
<1>1. /\ table = <<>> /\ hand = [l \in Lanes |-> 0] /\ serving = TRUE
      /\ screen = [p \in Screen |-> NoScreen] /\ told = {}
    BY DEF LineInit
<1>2. <<>> \in Seq(JobRow) /\ Len(<<>>) = 0 /\ JobIds = {}
    BY <1>1, EmptySeq DEF JobIds
<1>3. HandsHold
    BY <1>1 DEF HandsHold
<1>4. \A p \in Screen : Bounded(screen[p])
    BY <1>1, PageFacts DEF Bounded
<1>5. LineTyped
    BY <1>1, <1>2, <1>3, <1>4, LineConstants DEF LineTyped
<1>6. ViewedWasTold
    BY <1>2 DEF ViewedWasTold
<1>7. QED
    BY <1>5, <1>6 DEF LineInv

LEMMA LineInvNext == LineInv /\ [LineNext]_lineVars => LineInv'
<1> SUFFICES ASSUME LineInv, [LineNext]_lineVars PROVE LineInv'
    OBVIOUS
<1>1. CASE \E p \in Screen, u \in Person : OpenScreen(p, u)
    BY <1>1, InvOpenScreen
<1>2. CASE \E p \in Screen : CloseScreen(p) \/ AskStatus(p) \/ Arrive(p) \/ Miss(p) \/ StopAsking(p)
    BY <1>2, InvCloseScreen, InvAskStatus, InvArrive, InvMiss, InvStopAsking
<1>3. CASE \E u \in Person : \E j \in JobIds : OpenJob(u, j)
    BY <1>3, InvOpenJob
<1>4. CASE \E r \in Requests : Request(r[1], r[2])
    BY <1>4, InvRequest
<1>5. CASE \E l \in Lanes : Work(l) \/ EnqueueFollowUp(l)
  <2>1. PICK l \in Lanes :
          \/ Take(l) \/ EnqueueFollowUp(l)
          \/ \E st \in Ended, out \in Outcomes \cup {"none"} : Complete(l, st, out)
      BY <1>5 DEF Work
  <2>2. QED
      BY <2>1, InvTake, InvEnqueueFollowUp, InvComplete
<1>6. CASE Perish \/ StartAgain \/ Ageing
    BY <1>6, InvPerish, InvStartAgain, InvAgeing
<1>7. CASE UNCHANGED lineVars
  <2>1. RowsKept /\ JobIds' = JobIds
      BY <1>7, RowsSame DEF lineVars, LineInv, JobIds
  <2>2. HandsHold'
      BY <1>7, <2>1, HandsKept DEF lineVars, LineInv
  <2>3. QED
      BY <1>7, <2>1, <2>2, InvServer DEF lineVars, LineInv, LineTyped
<1>8. QED
    BY <1>1, <1>2, <1>3, <1>4, <1>5, <1>6, <1>7 DEF LineNext

\* The line of a period is true: what a submitter's badge forgot was told to
\* him or is on its way, and a load told to be next is next.
THEOREM LineTold == LineSpec => []LineIsTrue
<1>1. LineInit => LineInv
    BY LineInvInit
<1>2. LineInv /\ [LineNext]_lineVars => LineInv'
    BY LineInvNext
<1>3. LineInv => LineIsTrue
  <2>1. SUFFICES ASSUME LineInv,
                        NEW j \in JobIds, table[j].status = "queued", table[j].kind = "ingest",
                        _count_ahead(j) = 0, NEW i \in JobIds,
                        table[i].status = "queued", table[i].kind # "ai_overview"
                 PROVE  i = j \/ OlderThan(j, i)
      BY DEF LineIsTrue, LineInv, ViewedWasTold
  <2>2. Len(table) \in Nat /\ JobIds \subseteq Nat /\ IsFiniteSet(JobIds)
      BY TableFacts, FS_Interval DEF LineInv, JobIds
  <2>3. PICK A : A = {k \in JobIds : /\ LaneOfKind(table[k].kind) = NotAI
                                     /\ table[k].status = "queued" /\ OlderThan(k, j)}
      OBVIOUS
  <2>4. PICK B : B = {k \in JobIds : LaneOfKind(table[k].kind) = NotAI /\ table[k].status = "running"}
      OBVIOUS
  <2>5. IsFiniteSet(A) /\ IsFiniteSet(B)
      BY <2>2, <2>3, <2>4, FS_Subset
  <2>6. Cardinality(A) \in Nat /\ Cardinality(B) \in Nat
      BY <2>5, FS_CardinalityType
  <2>7. Cardinality(A) + Cardinality(B) = 0
      BY <2>1, <2>3, <2>4 DEF _count_ahead
  <2>8. A = {}
      BY <2>5, <2>6, <2>7, FS_EmptySet
  <2>9. LaneOfKind(table[i].kind) = NotAI
      BY <2>1 DEF LaneOfKind, NotAI
  <2>10. ~OlderThan(i, j)
      BY <2>1, <2>3, <2>8, <2>9
  <2>11. QED
      BY <2>2, <2>10 DEF OlderThan
<1>4. QED
    BY <1>1, <1>2, <1>3, PTL DEF LineSpec

\* A worker's row runs in its lane, pages have their bounds, and what was
\* told is of rows that are there.
THEOREM LineTypeCorrect == LineSpec => []LineTypeOK
<1>1. LineInit => LineInv
    BY LineInvInit
<1>2. LineInv /\ [LineNext]_lineVars => LineInv'
    BY LineInvNext
<1>3. LineInv => LineTypeOK
    BY PageFacts DEF LineInv, LineTyped, LineTypeOK, HandsHold, Bounded
<1>4. QED
    BY <1>1, <1>2, <1>3, PTL DEF LineSpec

-----------------------------------------------------------------------------
(***************************************************************************)
(* CheckDefs.  Codes are never shared because they are in the order of the *)
(* rows: a code read before somebody else saved is that of a row by now.   *)
(* A snippet is saved from the page it was tested for, so a snippet on its *)
(* way to be saved is one that passed.                                     *)
(***************************************************************************)

Definition == [code : Nat, snippet : Snippet, status : {"draft", "published", "disabled"}]

Passed(s) == s \notin Invalid /\ \E k \in Client : gives[s][k] = "rows"

\* What an author's page or request is at.
AtWork(w) ==
    /\ DOMAIN w = DOMAIN Away
    /\ w.pc \in {"drafting", "oracle"} => w.ref \in Client
    /\ w.pc = "oracle" => w.snippet \in Snippet
    /\ w.pc \in {"preview", "saving"} => w.snippet \in Snippet /\ Passed(w.snippet)
    /\ w.pc = "saving" => w.code \in 1 .. Len(definitions) + 1

DefsInv ==
    /\ definitions \in Seq(Definition)
    /\ \A i \in DOMAIN definitions : definitions[i].code = i /\ Passed(definitions[i].snippet)
    /\ DOMAIN author = Author /\ author = [a \in Author |-> author[a]]
    /\ \A a \in Author : AtWork(author[a])

LEMMA AwayIsAway == Away.pc = "away" /\ "pc" \in DOMAIN Away /\ "ref" \in DOMAIN Away
                    /\ "snippet" \in DOMAIN Away /\ "code" \in DOMAIN Away /\ AtWork(Away)
BY DEF Away, AtWork

LEMMA DefinitionFacts ==
    ASSUME DefsInv
    PROVE  /\ Len(definitions) \in Nat /\ DOMAIN definitions = 1 .. Len(definitions)
           /\ \A i \in DOMAIN definitions : definitions[i] \in Definition
<1>1. definitions \in Seq(Definition)
    BY DEF DefsInv
<1>2. QED
    BY <1>1, LenProperties, ElementOfSeq

\* One author moves on; the others keep what they have.
LEMMA DefsSet ==
    ASSUME DefsInv, NEW a \in Author, NEW w, Set(a, w), AtWork(w), UNCHANGED definitions
    PROVE  DefsInv'
<1>1. /\ author' = [author EXCEPT ![a] = w] /\ DOMAIN author = Author
    BY DEF Set, DefsInv
<1>2. DOMAIN author' = Author /\ author' = [b \in Author |-> author'[b]]
    BY <1>1
<1>3. ASSUME NEW b \in Author
      PROVE  AtWork(author[b])'
  <2>1. AtWork(author'[b])
      BY <1>1 DEF DefsInv
  <2>2. QED
      BY <2>1 DEF AtWork
<1>4. QED
    BY <1>2, <1>3 DEF DefsInv, Passed

LEMMA DefsTurn ==
    ASSUME DefsInv, NEW a \in Author, NEW calls, NEW s \in Snippet, Turn(a, calls, s)
    PROVE  DefsInv'
<1> DEFINE end == Served(author[a].uses, calls)
<1>1. /\ author[a].pc = "drafting" /\ AtWork(author[a]) /\ UNCHANGED definitions
    BY DEF Turn, DefsInv
<1>2. PICK w : w = author[a]
    OBVIOUS
<1>3. PICK used : used = end.uses
    OBVIOUS
<1>4. \/ Set(a, [w EXCEPT !.pc = "oracle", !.snippet = s, !.turn = 0, !.uses = NoUses])
      \/ Set(a, Away)
      \/ Set(a, [w EXCEPT !.turn = @ + 1, !.uses = used])
    BY <1>2, <1>3 DEF Turn
<1>5. ASSUME NEW v, v = [w EXCEPT !.pc = "oracle", !.snippet = s, !.turn = 0, !.uses = NoUses]
      PROVE  AtWork(v)
  <2>1. v.pc = "oracle" /\ v.snippet = s /\ v.ref = w.ref /\ DOMAIN v = DOMAIN Away
      BY <1>1, <1>2, <1>5, AwayIsAway DEF AtWork
  <2>2. QED
      BY <1>1, <1>2, <2>1 DEF AtWork
<1>6. ASSUME NEW v, v = [w EXCEPT !.turn = @ + 1, !.uses = used]
      PROVE  AtWork(v)
  <2>1. v.pc = "drafting" /\ v.ref = w.ref /\ DOMAIN v = DOMAIN Away
      BY <1>1, <1>2, <1>6, AwayIsAway DEF AtWork
  <2>2. QED
      BY <1>1, <1>2, <2>1 DEF AtWork
<1>7. QED
    BY <1>1, <1>4, <1>5, <1>6, AwayIsAway, DefsSet

LEMMA DefsOracle ==
    ASSUME DefsInv, NEW a \in Author, Oracle(a)
    PROVE  DefsInv'
<1>1. PICK w : w = author[a]
    OBVIOUS
<1>2. /\ w.pc = "oracle" /\ AtWork(w) /\ UNCHANGED definitions
      /\ w.snippet \in Snippet /\ w.ref \in Client
    BY <1>1 DEF Oracle, DefsInv, AtWork
<1>3. \/ /\ w.snippet \notin Invalid /\ dry_run(w.snippet, w.ref) = "rows"
         /\ Set(a, [Away EXCEPT !.pc = "preview", !.snippet = w.snippet])
      \/ Set(a, Away)
      \/ Set(a, [Away EXCEPT !.pc = "drafting", !.ref = w.ref, !.attempt = w.attempt + 1])
    BY <1>1 DEF Oracle
<1>4. ASSUME NEW v, v = [Away EXCEPT !.pc = "preview", !.snippet = w.snippet],
             w.snippet \notin Invalid, dry_run(w.snippet, w.ref) = "rows"
      PROVE  AtWork(v)
  <2>1. v.pc = "preview" /\ v.snippet = w.snippet /\ DOMAIN v = DOMAIN Away
      BY <1>4, AwayIsAway
  <2>2. gives[w.snippet][w.ref] = "rows"
      BY <1>4 DEF dry_run
  <2>3. Passed(w.snippet)
      BY <1>2, <1>4, <2>2 DEF Passed
  <2>4. QED
      BY <1>2, <2>1, <2>3 DEF AtWork
<1>5. ASSUME NEW v, v = [Away EXCEPT !.pc = "drafting", !.ref = w.ref, !.attempt = w.attempt + 1]
      PROVE  AtWork(v)
  <2>1. v.pc = "drafting" /\ v.ref = w.ref /\ DOMAIN v = DOMAIN Away
      BY <1>5, AwayIsAway
  <2>2. QED
      BY <1>2, <2>1 DEF AtWork
<1>6. QED
    BY <1>2, <1>3, <1>4, <1>5, AwayIsAway, DefsSet

LEMMA NextCode == DefsInv => next_check_code = Len(definitions) + 1
<1> SUFFICES ASSUME DefsInv PROVE next_check_code = Len(definitions) + 1
    OBVIOUS
<1>1. Len(definitions) \in Nat /\ DOMAIN definitions = 1 .. Len(definitions)
    BY DefinitionFacts
<1>2. CASE definitions = <<>>
    BY <1>2 DEF next_check_code
<1>3. CASE definitions # <<>>
  <2>1. Len(definitions) \in DOMAIN definitions
      BY <1>1, <1>3, EmptySeq DEF DefsInv
  <2>2. QED
      BY <1>3, <2>1 DEF next_check_code, DefsInv
<1>4. QED
    BY <1>2, <1>3

LEMMA DefsPost ==
    ASSUME DefsInv, NEW a \in Author, Post(a)
    PROVE  DefsInv'
<1>1. PICK w : w = author[a]
    OBVIOUS
<1>2. PICK n : n = Len(definitions) + 1
    OBVIOUS
<1>3. PICK v : v = [w EXCEPT !.pc = "saving", !.code = n]
    OBVIOUS
<1>4. w.pc = "preview" /\ AtWork(w) /\ UNCHANGED definitions /\ Set(a, v)
    BY <1>1, <1>2, <1>3, NextCode DEF Post, DefsInv
<1>5. v.pc = "saving" /\ v.code = n /\ v.snippet = w.snippet /\ DOMAIN v = DOMAIN Away
    BY <1>3, <1>4, AwayIsAway DEF AtWork
<1>6. n \in 1 .. n
    BY <1>2, DefinitionFacts
<1>7. AtWork(v)
    BY <1>2, <1>4, <1>5, <1>6 DEF AtWork
<1>8. QED
    BY <1>4, <1>7, DefsSet

LEMMA DefsSave ==
    ASSUME DefsInv, NEW a \in Author, Save(a)
    PROVE  DefsInv'
<1>1. PICK w : w = author[a]
    OBVIOUS
<1>2. w.pc = "saving" /\ AtWork(w) /\ Set(a, Away)
    BY <1>1 DEF Save, DefsInv
<1>3. PICK n \in Nat : n = Len(definitions) /\ DOMAIN definitions = 1 .. n
    BY DefinitionFacts
<1>4. w.code \in 1 .. n + 1 /\ w.snippet \in Snippet /\ Passed(w.snippet)
    BY <1>2, <1>3 DEF AtWork
<1>5. CASE Taken(w.code)
  <2>1. UNCHANGED definitions
      BY <1>1, <1>5 DEF Save
  <2>2. QED
      BY <1>2, <2>1, AwayIsAway, DefsSet
<1>6. CASE ~Taken(w.code)
  <2>1. w.code = n + 1
    <3>1. \A i \in 1 .. n : definitions[i].code = i
        BY <1>3 DEF DefsInv
    <3>2. w.code \notin 1 .. n
        BY <1>3, <1>6, <3>1 DEF Taken
    <3>3. QED
        BY <1>4, <3>2
  <2>2. PICK d : d = [code |-> w.code, snippet |-> w.snippet, status |-> "draft"]
      OBVIOUS
  <2>3. d \in Definition /\ d.code = n + 1 /\ d.snippet = w.snippet
      BY <1>4, <2>1, <2>2 DEF Definition
  <2>4. definitions' = Append(definitions, d)
      BY <1>1, <1>6, <2>2 DEF Save
  <2>5. definitions \in Seq(Definition)
      BY DEF DefsInv
  <2>6. /\ definitions' \in Seq(Definition) /\ Len(definitions') = n + 1
        /\ DOMAIN definitions' = 1 .. n + 1
        /\ \A i \in 1 .. n : definitions'[i] = definitions[i]
        /\ definitions'[n + 1] = d
    <3>1. /\ definitions' \in Seq(Definition) /\ Len(definitions') = n + 1
          /\ \A i \in 1 .. n : definitions'[i] = definitions[i]
          /\ definitions'[n + 1] = d
        BY <1>3, <2>3, <2>4, <2>5, AppendProperties
    <3>2. QED
        BY <3>1, LenProperties
  <2>7. ASSUME NEW i \in DOMAIN definitions'
        PROVE  definitions'[i].code = i /\ Passed(definitions'[i].snippet)
    <3>1. CASE i \in 1 .. n
        BY <1>3, <2>6, <3>1 DEF DefsInv
    <3>2. CASE i = n + 1
        BY <1>4, <2>3, <2>6, <3>2
    <3>3. QED
        BY <2>6, <2>7, <3>1, <3>2
  <2>8. /\ author' = [author EXCEPT ![a] = Away] /\ DOMAIN author = Author
      BY <1>2 DEF Set, DefsInv
  <2>9. DOMAIN author' = Author /\ author' = [b \in Author |-> author'[b]]
      BY <2>8
  <2>10. ASSUME NEW b \in Author
         PROVE  AtWork(author[b])'
    <3>1. AtWork(author'[b])
        BY <2>8, AwayIsAway DEF DefsInv
    <3>2. \A c \in 1 .. n + 1 : c \in 1 .. (n + 1) + 1
        OBVIOUS
    <3>3. QED
        BY <1>3, <2>6, <3>1, <3>2 DEF AtWork
  <2>11. QED
      BY <2>6, <2>7, <2>9, <2>10 DEF DefsInv, Passed
<1>7. QED
    BY <1>5, <1>6

LEMMA DefsSetStatus ==
    ASSUME DefsInv, NEW i, NEW st \in {"draft", "published", "disabled"}, SetStatus(i, st)
    PROVE  DefsInv'
<1>1. /\ i \in DOMAIN definitions /\ UNCHANGED author
      /\ definitions' = [definitions EXCEPT ![i].status = st]
    BY DEF SetStatus
<1>2. PICK d : d = [definitions[i] EXCEPT !.status = st]
    OBVIOUS
<1>3. definitions[i] \in Definition /\ definitions \in Seq(Definition)
    BY <1>1, DefinitionFacts DEF DefsInv
<1>4. d \in Definition /\ d.code = definitions[i].code /\ d.snippet = definitions[i].snippet
    BY <1>2, <1>3 DEF Definition
<1>5. definitions' = [definitions EXCEPT ![i] = d]
    BY <1>1, <1>2, <1>3
<1>6. PICK n \in Nat : n = Len(definitions) /\ DOMAIN definitions = 1 .. n
    BY DefinitionFacts
<1>7. /\ definitions' \in Seq(Definition) /\ Len(definitions') = n
      /\ \A j \in 1 .. n : definitions'[j] = IF j = i THEN d ELSE definitions[j]
    BY <1>1, <1>3, <1>4, <1>5, <1>6, ExceptSeq
<1>8. DOMAIN definitions' = 1 .. n
    BY <1>5, <1>6
<1>9. \A j \in DOMAIN definitions' : definitions'[j].code = j /\ Passed(definitions'[j].snippet)
    BY <1>1, <1>4, <1>6, <1>7, <1>8 DEF DefsInv
<1>10. \A b \in Author : AtWork(author[b])'
    BY <1>1, <1>6, <1>7 DEF DefsInv, AtWork
<1>11. QED
    BY <1>1, <1>7, <1>9, <1>10 DEF DefsInv, Passed

LEMMA DefsInit == CheckDefsInit => DefsInv
<1> SUFFICES ASSUME CheckDefsInit PROVE DefsInv
    OBVIOUS
<1>1. definitions = <<>> /\ author = [a \in Author |-> Away]
    BY DEF CheckDefsInit
<1>2. <<>> \in Seq(Definition) /\ DOMAIN definitions = {}
    BY <1>1, EmptySeq
<1>3. QED
    BY <1>1, <1>2, AwayIsAway DEF DefsInv

LEMMA DefsNext == DefsInv /\ [CheckDefsNext]_defVars => DefsInv'
<1> SUFFICES ASSUME DefsInv, [CheckDefsNext]_defVars PROVE DefsInv'
    OBVIOUS
<1>1. ASSUME NEW a \in Author, NEW k \in Client, checks_draft(a, k)
      PROVE  DefsInv'
  <2>1. PICK v : v = [Away EXCEPT !.pc = "drafting", !.ref = k]
      OBVIOUS
  <2>2. v.pc = "drafting" /\ v.ref = k /\ DOMAIN v = DOMAIN Away
      BY <2>1, AwayIsAway
  <2>3. AtWork(v)
      BY <2>2 DEF AtWork
  <2>4. QED
      BY <1>1, <2>1, <2>3, DefsSet DEF checks_draft
<1>2. ASSUME NEW a \in Author, DraftFails(a)
      PROVE  DefsInv'
    BY <1>2, AwayIsAway, DefsSet DEF DraftFails
<1>3. CASE UNCHANGED <<definitions, author>>
    BY <1>3 DEF DefsInv, AtWork, Passed
<1>4. CASE \E k \in Client, only \in SUBSET (1 .. MaxDefinitions) : run_checks(k, only)
    BY <1>3, <1>4 DEF run_checks
<1>5. CASE UNCHANGED defVars
    BY <1>3, <1>5 DEF defVars
<1>6. CASE \E a \in Author : Oracle(a) \/ Post(a) \/ Save(a)
    BY <1>6, DefsOracle, DefsPost, DefsSave
<1>7. CASE \E a \in Author : \E calls \in Answers, s \in Snippet : Turn(a, calls, s)
    BY <1>7, DefsTurn
<1>8. CASE \E i \in 1 .. MaxDefinitions, st \in {"draft", "published", "disabled"} : SetStatus(i, st)
    BY <1>8, DefsSetStatus
<1>9. QED
    BY <1>1, <1>2, <1>4, <1>5, <1>6, <1>7, <1>8 DEF CheckDefsNext

\* However many authors draft, try and save at once, a code names one check
\* for good, and every saved check is valid and ran on some company with all
\* its columns.
THEOREM SavedChecks == CheckDefsSpec => []SavedChecksSound
<1>1. CheckDefsInit => DefsInv
    BY DefsInit
<1>2. DefsInv /\ [CheckDefsNext]_defVars => DefsInv'
    BY DefsNext
<1>3. DefsInv => SavedChecksSound
    BY DefinitionFacts DEF DefsInv, Passed, SavedChecksSound, CodesNeverShared, TestedBeforeSaved
<1>4. QED
    BY <1>1, <1>2, <1>3, PTL DEF CheckDefsSpec

-----------------------------------------------------------------------------
(***************************************************************************)
(* Accounts, the lock.  The failures still counted are the last ones of    *)
(* all.  A failure less than a window old is either counted with all that  *)
(* followed it, so that they are less than the threshold, or a lock came   *)
(* since: then it lasts until that failure is a window old, and what may   *)
(* still fail are the requests already past the lock (Live).               *)
(***************************************************************************)

LoggingIn == {r \in Attempt : request[r].op = "login"}

Since(i) == Len(failed) - i + 1

Doing == {Waiting, [op |-> "login"]} \cup [op : {"delete"}, user : User]

Times ==
    /\ clock \in 0 .. MaxClock /\ locked \in {Never} \cup 0 .. MaxClock + LOCKOUT_S
    /\ fails \in Seq(Nat) /\ failed \in Seq(Nat)
    /\ Len(fails) < MAX_FAILS /\ Len(fails) <= Len(failed)
    /\ \A i \in 1 .. Len(failed) : failed[i] <= clock
    /\ \A i, j \in 1 .. Len(failed) : i <= j => failed[i] <= failed[j]
    /\ \A i \in 1 .. Len(fails) : fails[i] = failed[Len(failed) - Len(fails) + i]

Live ==
    \A i \in 1 .. Len(failed) : clock - failed[i] < WINDOW_S =>
        \/ Since(i) <= Len(fails)
        \/ /\ locked >= failed[i] + LOCKOUT_S
           /\ Since(i) + Cardinality(LoggingIn) <= MAX_FAILS + Cardinality(Attempt) - 1

GuardInv ==
    /\ request \in [Attempt -> Doing]
    /\ Times /\ Live /\ GuessesBounded /\ LockedForCause

LEMMA GuardConstants ==
    /\ WINDOW_S \in Nat /\ LOCKOUT_S \in Nat /\ WINDOW_S <= LOCKOUT_S
    /\ MAX_FAILS \in Nat /\ MAX_FAILS >= 1 /\ MaxClock \in Nat
    /\ IsFiniteSet(Attempt) /\ Cardinality(Attempt) \in Nat
    /\ Never = -1
BY AccountsAssumption, FS_CardinalityType DEF Never

LEMMA LoggingInBounded ==
    /\ IsFiniteSet(LoggingIn) /\ Cardinality(LoggingIn) \in Nat
    /\ Cardinality(LoggingIn) <= Cardinality(Attempt)
    /\ (\E r \in Attempt : r \notin LoggingIn) => Cardinality(LoggingIn) <= Cardinality(Attempt) - 1
<1>1. LoggingIn \subseteq Attempt
    BY DEF LoggingIn
<1>2. /\ IsFiniteSet(LoggingIn) /\ Cardinality(LoggingIn) \in Nat
      /\ Cardinality(LoggingIn) <= Cardinality(Attempt)
      /\ Cardinality(LoggingIn) = Cardinality(Attempt) => LoggingIn = Attempt
    BY <1>1, GuardConstants, FS_Subset, FS_CardinalityType
<1>3. QED
    BY <1>2, GuardConstants

\* The smallest of some numbers up to n.
LEMMA LeastUpTo ==
    ASSUME NEW n \in Nat, NEW S \in SUBSET (0 .. n), S # {}
    PROVE  \E m \in S : \A k \in S : m <= k
<1> DEFINE R == {(n + 1) - k : k \in S}
<1>0. \A k \in S : (n + 1) - k \in 1 .. n + 1
    OBVIOUS
<1>1. PICK T \in SUBSET (1 .. n + 1) : T = R
    BY <1>0
<1>2. T # {} /\ n + 1 \in Nat
  <2>1. PICK k \in S : TRUE
      OBVIOUS
  <2>2. (n + 1) - k \in R
      BY <2>1
  <2>3. QED
      BY <1>1, <2>2
<1>3. PICK t \in T : \A k \in T \ {t} : k < t
    BY <1>2, LargestExists
<1>4. PICK m \in S : t = (n + 1) - m
    BY <1>1, <1>3
<1>5. ASSUME NEW k \in S
      PROVE  m <= k
  <2>1. m \in Nat /\ k \in Nat
      BY <1>4, <1>5
  <2>2. (n + 1) - k \in T
      BY <1>1, <1>5
  <2>3. (n + 1) - k = t \/ (n + 1) - k < t
      BY <1>3, <2>2
  <2> HIDE DEF R
  <2>4. QED
      BY <1>4, <2>1, <2>3
<1>6. QED
    BY <1>5

LEMMA ExpiredIs ==
    ASSUME NEW dq \in Seq(Nat), NEW now \in Nat
    PROVE  /\ Expired(dq, now) \in 0 .. Len(dq)
           /\ \A i \in 1 .. Expired(dq, now) : now - dq[i] > WINDOW_S
           /\ Expired(dq, now) < Len(dq) => now - dq[Expired(dq, now) + 1] <= WINDOW_S
<1>1. PICK n \in Nat : n = Len(dq) /\ \A i \in 1 .. n : dq[i] \in Nat
    BY LenProperties, ElementOfSeq
<1>2. PICK K \in SUBSET (0 .. n) : K = {k \in 0 .. n : k < n => now - dq[k + 1] <= WINDOW_S}
    OBVIOUS
<1>3. n \in K
    BY <1>2
<1>4. PICK m \in K : \A k \in K : m <= k
    BY <1>1, <1>3, LeastUpTo
<1>5. m \in 0 .. n /\ (m < n => now - dq[m + 1] <= WINDOW_S)
    BY <1>2, <1>4
<1>6. ASSUME NEW i \in 1 .. m
      PROVE  now - dq[i] > WINDOW_S
  <2>1. PICK j \in 0 .. n : j + 1 = i /\ j < m /\ j < n
      BY <1>5
  <2>2. j \notin K
      BY <1>4, <2>1
  <2>3. ~(now - dq[j + 1] <= WINDOW_S)
      BY <1>2, <2>1, <2>2
  <2>4. dq[i] \in Nat
      BY <1>1, <1>5
  <2>5. QED
      BY <2>1, <2>3, <2>4, GuardConstants
<1>7. \E k \in 0 .. Len(dq) :
          /\ \A i \in 1 .. k : now - dq[i] > WINDOW_S
          /\ k < Len(dq) => now - dq[k + 1] <= WINDOW_S
    BY <1>1, <1>5, <1>6
<1>8. QED
    BY <1>7 DEF Expired

\* What record_failure counts: the last failures, the new one included, all
\* that are less than a window old among those that were counted.
LEMMA CountedIs ==
    ASSUME Times, NEW dq, dq = Recent(Append(fails, clock), clock)
    PROVE  /\ dq \in Seq(Nat) /\ Len(dq) \in 1 .. Len(fails) + 1
           /\ \A i \in 1 .. Len(dq) :
                 dq[i] = Append(failed, clock)[Len(failed) + 1 - Len(dq) + i]
           /\ clock - dq[1] <= WINDOW_S
           /\ \A i \in 1 .. Len(failed) + 1 :
                 /\ clock - Append(failed, clock)[i] < WINDOW_S
                 /\ Len(failed) + 1 - i <= Len(fails)
                 => Len(failed) + 2 - i <= Len(dq)
<1>1. PICK k \in Nat : k = Len(fails) /\ \A i \in 1 .. k : fails[i] \in Nat
    BY LenProperties, ElementOfSeq DEF Times
<1>2. PICK n \in Nat : n = Len(failed) /\ (\A i \in 1 .. n : failed[i] \in Nat) /\ k <= n
    BY <1>1, LenProperties, ElementOfSeq DEF Times
<1>3. clock \in Nat
    BY GuardConstants DEF Times
<1>4. PICK a : a = Append(fails, clock)
    OBVIOUS
<1>5. PICK b : b = Append(failed, clock)
    OBVIOUS
<1>6. /\ a \in Seq(Nat) /\ Len(a) = k + 1 /\ a[k + 1] = clock
      /\ \A i \in 1 .. k : a[i] = fails[i]
    BY <1>1, <1>3, <1>4, AppendProperties DEF Times
<1>7. b[n + 1] = clock /\ \A i \in 1 .. n : b[i] = failed[i]
    BY <1>2, <1>3, <1>5, AppendProperties DEF Times
<1>8. ASSUME NEW i \in 1 .. k + 1
      PROVE  a[i] \in Nat /\ a[i] = b[n - k + i] /\ n - k + i \in 1 .. n + 1
  <2>1. CASE i = k + 1
    <3>1. n - k + i = n + 1
        BY <1>1, <1>2, <2>1
    <3>2. QED
        BY <1>2, <1>3, <1>6, <1>7, <2>1, <3>1
  <2>2. CASE i \in 1 .. k
    <3>0. n - k + i \in 1 .. n
        BY <1>1, <1>2, <2>2
    <3>1. PICK x \in 1 .. n : x = n - k + i
        BY <3>0
    <3>2. fails[i] = failed[x]
        BY <1>1, <1>2, <2>2, <3>1 DEF Times
    <3>3. QED
        BY <1>1, <1>6, <1>7, <2>2, <3>1, <3>2
  <2>3. QED
      BY <1>1, <1>8, <2>1, <2>2
<1>9. PICK e \in 0 .. k + 1 :
        /\ e = Expired(a, clock)
        /\ \A i \in 1 .. e : clock - a[i] > WINDOW_S
        /\ e < k + 1 => clock - a[e + 1] <= WINDOW_S
    BY <1>3, <1>6, ExpiredIs
<1>10. e < k + 1
  <2>1. CASE e = k + 1
    <3>1. clock - a[k + 1] > WINDOW_S
        BY <1>1, <1>9, <2>1
    <3>2. QED
        BY <1>3, <1>6, <3>1, GuardConstants
  <2>2. QED
      BY <1>1, <1>9, <2>1
<1>11. dq = SubSeq(a, e + 1, k + 1)
    BY <1>4, <1>6, <1>9 DEF Recent
<1>12. PICK m \in Nat : m = (k + 1) - e
    BY <1>1, <1>9
<1>13. /\ dq \in Seq(Nat) /\ Len(dq) = m /\ \A i \in 1 .. m : dq[i] = a[e + i]
  <2>1. \A i \in e + 1 .. k + 1 : a[i] \in Nat
      BY <1>1, <1>8, <1>9
  <2>2. /\ SubSeq(a, e + 1, k + 1) \in Seq(Nat)
        /\ Len(SubSeq(a, e + 1, k + 1)) =
              IF e + 1 <= k + 1 THEN (k + 1) - (e + 1) + 1 ELSE 0
        /\ \A i \in 1 .. (k + 1) - (e + 1) + 1 : SubSeq(a, e + 1, k + 1)[i] = a[(e + 1) + i - 1]
      BY <1>1, <1>9, <2>1, SubSeqProperties
  <2>3. /\ (k + 1) - (e + 1) + 1 = m /\ e + 1 <= k + 1
        /\ \A i \in 1 .. m : (e + 1) + i - 1 = e + i
      BY <1>1, <1>9, <1>10, <1>12
  <2>4. QED
      BY <1>11, <2>2, <2>3
<1>14. m \in 1 .. k + 1
    BY <1>1, <1>9, <1>10, <1>12
<1>15. ASSUME NEW i \in 1 .. m
       PROVE  dq[i] = b[n + 1 - m + i]
  <2>1. PICK x \in 1 .. k + 1 : x = e + i
      BY <1>1, <1>9, <1>12
  <2>2. n - k + x = n + 1 - m + i
    <3>1. \A N, K, E, M, I \in Int : M = (K + 1) - E => N - K + (E + I) = N + 1 - M + I
        OBVIOUS
    <3>2. n \in Int /\ k \in Int /\ e \in Int /\ m \in Int /\ i \in Int
        BY <1>1, <1>2, <1>9, <1>12
    <3>3. QED
        BY <1>12, <2>1, <3>1, <3>2
  <2>3. dq[i] = a[x] /\ a[x] = b[n - k + x]
      BY <1>8, <1>13, <2>1
  <2>4. QED
      BY <2>2, <2>3
<1>16. clock - dq[1] <= WINDOW_S
    BY <1>9, <1>10, <1>13, <1>14
<1>17. ASSUME NEW i \in 1 .. n + 1, clock - b[i] < WINDOW_S, n + 1 - i <= k
       PROVE  n + 2 - i <= m
  <2>1. PICK x \in 1 .. k + 1 : n - k + x = i
    <3>1. i - (n - k) \in 1 .. k + 1 /\ n - k + (i - (n - k)) = i
        BY <1>1, <1>2, <1>17
    <3>2. QED
        BY <3>1
  <2>2. a[x] = b[i] /\ a[x] \in Nat
      BY <1>8, <2>1
  <2>3. x \notin 1 .. e
      BY <1>3, <1>9, <1>17, <2>2, GuardConstants
  <2>4. x >= e + 1
      BY <1>1, <1>9, <2>1, <2>3
  <2>5. (n - k) + x = i /\ i \in Int
      BY <1>1, <1>2, <1>17, <2>1
  <2>6. QED
      BY <1>1, <1>2, <1>9, <1>12, <2>1, <2>4, <2>5
<1>18. QED
    BY <1>1, <1>2, <1>5, <1>13, <1>14, <1>15, <1>16, <1>17

LEMMA TimesFacts ==
    ASSUME Times
    PROVE  /\ clock \in Nat /\ locked \in Int
           /\ Len(fails) \in Nat /\ Len(failed) \in Nat
           /\ \A i \in 1 .. Len(failed) : failed[i] \in Nat
BY LenProperties, ElementOfSeq, GuardConstants DEF Times

LEMMA UpToFinite ==
    ASSUME NEW n \in Nat, NEW S, S \subseteq 1 .. n
    PROVE  IsFiniteSet(S)
<1>1. IsFiniteSet(1 .. n)
    BY FS_Interval
<1>2. QED
    BY <1>1, FS_Subset

\* A longer record holds no fewer failures of the window that made a lock.
LEMMA LockKeepsCause ==
    ASSUME Times, LockedForCause, locked # Never, NEW t \in Nat,
           failed' = Append(failed, t), UNCHANGED locked
    PROVE  LockedForCause'
<1>1. PICK n \in Nat : n = Len(failed)
    BY TimesFacts
<1>2. Len(failed') = n + 1 /\ \A i \in 1 .. n : failed'[i] = failed[i]
    BY <1>1, AppendProperties DEF Times
<1>3. PICK A : A = {i \in 1 .. n : LET since == locked - LOCKOUT_S
                                  IN  since - WINDOW_S <= failed[i] /\ failed[i] <= since}
    OBVIOUS
<1>4. PICK B : B = {i \in 1 .. n + 1 : LET since == locked - LOCKOUT_S
                                      IN  since - WINDOW_S <= failed'[i] /\ failed'[i] <= since}
    OBVIOUS
<1>5. A \subseteq B
    BY <1>1, <1>2, <1>3, <1>4
<1>6. IsFiniteSet(B)
  <2>1. B \subseteq 1 .. n + 1 /\ n + 1 \in Nat
      BY <1>4
  <2>2. QED
      BY <2>1, UpToFinite
<1>7. Cardinality(A) <= Cardinality(B) /\ Cardinality(A) \in Nat /\ Cardinality(B) \in Nat
    BY <1>5, <1>6, FS_Subset, FS_CardinalityType
<1>8. Cardinality(A) >= MAX_FAILS
    BY <1>1, <1>3 DEF LockedForCause
<1>9. Cardinality(B) >= MAX_FAILS
    BY <1>7, <1>8, GuardConstants
<1>10. QED
    BY <1>2, <1>4, <1>9 DEF LockedForCause

\* The failures counted when a lock is made are its cause.
LEMMA LockHasCause ==
    ASSUME Times, NEW dq, dq = Recent(Append(fails, clock), clock), Len(dq) >= MAX_FAILS,
           failed' = Append(failed, clock), locked' = clock + LOCKOUT_S
    PROVE  LockedForCause'
<1>1. PICK n \in Nat, m \in Nat : n = Len(failed) /\ m = Len(dq) /\ m \in 1 .. n + 1
  <2>1. Len(dq) \in 1 .. Len(fails) + 1
      BY CountedIs
  <2>2. Len(fails) <= Len(failed)
      BY DEF Times
  <2>3. QED
      BY <2>1, <2>2, TimesFacts
<1>2. PICK b : b = failed'
    OBVIOUS
<1>3. /\ Len(b) = n + 1 /\ b[n + 1] = clock /\ clock \in Nat
      /\ \A i \in 1 .. n : b[i] = failed[i] /\ failed[i] \in Nat /\ failed[i] <= clock
    BY <1>1, <1>2, TimesFacts, AppendProperties DEF Times
<1>4. clock - b[n + 1 - m + 1] <= WINDOW_S
  <2>1. /\ \A i \in 1 .. Len(dq) : dq[i] = Append(failed, clock)[Len(failed) + 1 - Len(dq) + i]
        /\ clock - dq[1] <= WINDOW_S
      BY CountedIs
  <2>2. 1 \in 1 .. m
      BY <1>1, GuardConstants
  <2>3. dq[1] = b[n + 1 - m + 1]
      BY <1>1, <1>2, <2>1, <2>2
  <2>4. QED
      BY <2>1, <2>3
<1>5. ASSUME NEW i \in 1 .. n + 1, NEW j \in 1 .. n + 1, i <= j
      PROVE  b[i] <= b[j]
  <2>1. CASE j = n + 1
    <3>1. i = n + 1 \/ i \in 1 .. n
        BY <1>1
    <3>2. QED
        BY <1>3, <2>1, <3>1
  <2>2. CASE j \in 1 .. n
    <3>1. i \in 1 .. n
        BY <1>1, <1>5, <2>2
    <3>2. failed[i] <= failed[j]
        BY <1>1, <1>5, <2>2, <3>1 DEF Times
    <3>3. QED
        BY <1>3, <2>2, <3>1, <3>2
  <2>3. QED
      BY <1>1, <1>5, <2>1, <2>2
<1>6. PICK f \in 1 .. n + 1 : f = n + 1 - m + 1 /\ (n + 1) - f + 1 = m
  <2>1. n + 1 - m + 1 \in 1 .. n + 1 /\ (n + 1) - (n + 1 - m + 1) + 1 = m
      BY <1>1
  <2>2. QED
      BY <2>1
<1>7. PICK A : A = {i \in 1 .. n + 1 : LET since == (clock + LOCKOUT_S) - LOCKOUT_S
                                      IN  since - WINDOW_S <= b[i] /\ b[i] <= since}
    OBVIOUS
<1>8. ASSUME NEW i \in f .. n + 1
      PROVE  i \in A
  <2>1. i \in 1 .. n + 1 /\ f <= i
      BY <1>1, <1>6
  <2>2. b[f] <= b[i] /\ b[i] <= clock /\ b[i] \in Nat /\ b[f] \in Nat
    <3>1. b[f] <= b[i]
        BY <1>5, <1>6, <2>1
    <3>2. ASSUME NEW x \in 1 .. n + 1
          PROVE  b[x] <= clock /\ b[x] \in Nat
      <4>1. x = n + 1 \/ x \in 1 .. n
          BY <1>1
      <4>2. QED
          BY <1>3, <4>1
    <3>3. QED
        BY <1>6, <2>1, <3>1, <3>2
  <2>3. clock - b[f] <= WINDOW_S
      BY <1>4, <1>6
  <2>4. (clock + LOCKOUT_S) - LOCKOUT_S = clock
      BY <1>3, GuardConstants
  <2>5. clock - WINDOW_S <= b[i]
      BY <1>3, <2>2, <2>3, GuardConstants
  <2>6. QED
      BY <1>7, <2>1, <2>2, <2>4, <2>5
<1>9. IsFiniteSet(A)
  <2>1. A \subseteq 1 .. n + 1 /\ n + 1 \in Nat
      BY <1>7
  <2>2. QED
      BY <2>1, UpToFinite
<1>10. Cardinality(f .. n + 1) = m
  <2>1. Cardinality(f .. n + 1) = IF f > n + 1 THEN 0 ELSE (n + 1) - f + 1
      BY <1>1, <1>6, FS_Interval
  <2>2. QED
      BY <1>1, <1>6, <2>1
<1>11. f .. n + 1 \subseteq A
    BY <1>8
<1>12. Cardinality(f .. n + 1) <= Cardinality(A) /\ Cardinality(A) \in Nat
    BY <1>9, <1>11, FS_Subset, FS_CardinalityType
<1>13. Cardinality(A) >= MAX_FAILS
    BY <1>1, <1>10, <1>12, GuardConstants
<1>14. QED
    BY <1>2, <1>3, <1>7, <1>13 DEF LockedForCause

\* The times after a wrong password.
LEMMA TimesWrong ==
    ASSUME Times, NEW dq, dq = Recent(Append(fails, clock), clock), UNCHANGED clock,
           failed' = Append(failed, clock),
           \/ Len(dq) >= MAX_FAILS /\ fails' = <<>> /\ locked' = clock + LOCKOUT_S
           \/ ~(Len(dq) >= MAX_FAILS) /\ fails' = dq /\ UNCHANGED locked
    PROVE  Times'
<1>1. PICK n \in Nat : n = Len(failed)
    BY TimesFacts
<1>2. /\ clock \in 0 .. MaxClock /\ clock \in Nat /\ clock + LOCKOUT_S \in 0 .. MaxClock + LOCKOUT_S
      /\ MAX_FAILS \in Nat /\ MAX_FAILS >= 1
    BY TimesFacts, GuardConstants DEF Times
<1>3. /\ failed' \in Seq(Nat) /\ Len(failed') = n + 1 /\ failed'[n + 1] = clock
      /\ \A i \in 1 .. n : failed'[i] = failed[i]
    BY <1>1, <1>2, AppendProperties DEF Times
<1>4. /\ \A i \in 1 .. n : failed[i] <= clock /\ failed[i] \in Nat
      /\ \A i, j \in 1 .. n : i <= j => failed[i] <= failed[j]
    BY <1>1, TimesFacts DEF Times
<1>5. \A i \in 1 .. n + 1 : i = n + 1 \/ i \in 1 .. n
    BY <1>1
<1>6. \A i \in 1 .. n + 1 : failed'[i] <= clock
    BY <1>2, <1>3, <1>4, <1>5
<1>7. ASSUME NEW i \in 1 .. n + 1, NEW j \in 1 .. n + 1, i <= j
      PROVE  failed'[i] <= failed'[j]
  <2>1. CASE j = n + 1
      BY <1>3, <1>6, <2>1
  <2>2. CASE j \in 1 .. n
    <3>1. i \in 1 .. n
        BY <1>1, <1>7, <2>2
    <3>2. QED
        BY <1>3, <1>4, <1>7, <2>2, <3>1
  <2>3. QED
      BY <1>5, <2>1, <2>2
<1>8. /\ dq \in Seq(Nat) /\ Len(dq) \in 1 .. Len(fails) + 1
      /\ \A i \in 1 .. Len(dq) : dq[i] = failed'[n + 1 - Len(dq) + i]
    BY <1>1, CountedIs
<1>9. locked' \in {Never} \cup 0 .. MaxClock + LOCKOUT_S
    BY <1>2 DEF Times
<1>10. CASE fails' = <<>>
  <2>1. fails' \in Seq(Nat) /\ Len(fails') = 0
      BY <1>10, EmptySeq
  <2>2. Len(fails') < MAX_FAILS /\ Len(fails') <= Len(failed')
      BY <1>1, <1>2, <1>3, <2>1
  <2>3. \A i \in 1 .. Len(fails') : FALSE
      BY <2>1
  <2>4. QED
      BY <1>2, <1>3, <1>6, <1>7, <1>9, <2>1, <2>2, <2>3 DEF Times
<1>11. CASE ~(Len(dq) >= MAX_FAILS) /\ fails' = dq
  <2>1. PICK m \in Nat : m = Len(dq)
      BY <1>8, TimesFacts
  <2>2. Len(fails) <= n /\ Len(fails) \in Nat
      BY <1>1, TimesFacts DEF Times
  <2>3. m <= n + 1 /\ m < MAX_FAILS
      BY <1>1, <1>2, <1>8, <1>11, <2>1, <2>2
  <2>4. \A i \in 1 .. Len(fails') : fails'[i] = failed'[Len(failed') - Len(fails') + i]
    <3>1. \A i \in 1 .. m : dq[i] = failed'[n + 1 - m + i]
        BY <1>8, <2>1
    <3>2. fails' = dq /\ Len(fails') = m /\ Len(failed') = n + 1
        BY <1>3, <1>11, <2>1
    <3>3. PICK x, y : x = Len(fails') /\ y = Len(failed') /\ x = m /\ y = n + 1
        BY <3>2
    <3>4. ASSUME NEW i \in 1 .. x
          PROVE  fails'[i] = failed'[y - x + i]
      <4>1. fails'[i] = dq[i]
          BY <3>2
      <4>2. dq[i] = failed'[n + 1 - m + i]
          BY <3>1, <3>3
      <4>3. n + 1 - m = y - x
          BY <3>3
      <4>4. QED
          BY <4>1, <4>2, <4>3
    <3>5. QED
        BY <3>3, <3>4
  <2>5. QED
      BY <1>2, <1>3, <1>6, <1>7, <1>8, <1>9, <1>11, <2>1, <2>3, <2>4 DEF Times
<1>12. QED
    BY <1>10, <1>11

LEMMA LoggedOut ==
    ASSUME NEW r \in Attempt, request \in [Attempt -> Doing], request[r].op = "login",
           request' = [request EXCEPT ![r] = Waiting]
    PROVE  /\ request' \in [Attempt -> Doing]
           /\ Cardinality(LoggingIn') = Cardinality(LoggingIn) - 1
           /\ Cardinality(LoggingIn') \in Nat /\ Cardinality(LoggingIn) \in Nat
           /\ Cardinality(LoggingIn) <= Cardinality(Attempt)
<1>1. Waiting \in Doing /\ Waiting.op # "login"
    BY DEF Doing, Waiting
<1>2. request' \in [Attempt -> Doing]
    BY <1>1
<1>3. LoggingIn' = LoggingIn \ {r} /\ r \in LoggingIn
    BY <1>1 DEF LoggingIn
<1>4. PICK S : S = LoggingIn
    OBVIOUS
<1>5. /\ IsFiniteSet(S) /\ Cardinality(S) \in Nat /\ Cardinality(S) <= Cardinality(Attempt)
    BY <1>4, LoggingInBounded
<1>6. IsFiniteSet(S \ {r}) /\ Cardinality(S \ {r}) = Cardinality(S) - 1
    BY <1>3, <1>4, <1>5, FS_RemoveElement
<1>7. Cardinality(S \ {r}) \in Nat
    BY <1>6, FS_CardinalityType
<1>8. QED
    BY <1>2, <1>3, <1>4, <1>5, <1>6, <1>7

\* A failure less than a window old is counted, or a lock holds it.
LEMMA LiveWrong ==
    ASSUME GuardInv, NEW dq, dq = Recent(Append(fails, clock), clock), UNCHANGED clock,
           failed' = Append(failed, clock),
           \/ Len(dq) >= MAX_FAILS /\ fails' = <<>> /\ locked' = clock + LOCKOUT_S
           \/ ~(Len(dq) >= MAX_FAILS) /\ fails' = dq /\ UNCHANGED locked,
           NEW r \in Attempt, request[r].op = "login",
           request' = [request EXCEPT ![r] = Waiting]
    PROVE  Live'
<1>1. PICK n \in Nat, k \in Nat : n = Len(failed) /\ k = Len(fails) /\ k < MAX_FAILS
    BY TimesFacts DEF GuardInv, Times
<1>2. PICK m \in Nat : m = Len(dq) /\ 1 <= m /\ m <= k + 1
  <2>1. Len(dq) \in 1 .. Len(fails) + 1
      BY CountedIs DEF GuardInv
  <2>2. QED
      BY <1>1, <2>1
<1>3. /\ clock \in Nat /\ locked \in Int /\ Len(failed') = n + 1 /\ failed'[n + 1] = clock
      /\ \A i \in 1 .. n : failed'[i] = failed[i] /\ failed[i] \in Nat /\ failed[i] <= clock
    BY <1>1, TimesFacts, AppendProperties DEF GuardInv, Times
<1>4. PICK P \in Nat, Q \in Nat, A \in Nat :
        /\ P = Cardinality(LoggingIn) /\ Q = Cardinality(LoggingIn') /\ A = Cardinality(Attempt)
        /\ Q = P - 1 /\ P <= A
    BY LoggedOut, GuardConstants DEF GuardInv
<1>5. ASSUME NEW i \in 1 .. n + 1, clock - failed'[i] < WINDOW_S, n + 1 - i <= k
      PROVE  n + 2 - i <= m
    BY <1>1, <1>2, <1>5, CountedIs DEF GuardInv
<1>6. MAX_FAILS \in Nat /\ MAX_FAILS >= 1 /\ LOCKOUT_S \in Nat
    BY GuardConstants
<1>7. SUFFICES ASSUME NEW i \in 1 .. n + 1, clock - failed'[i] < WINDOW_S
               PROVE  \/ (n + 1) - i + 1 <= Len(fails')
                      \/ /\ locked' >= failed'[i] + LOCKOUT_S
                         /\ (n + 1) - i + 1 + Q <= MAX_FAILS + A - 1
    BY <1>3, <1>4 DEF Live, Since
<1>8. i = n + 1 \/ i \in 1 .. n
    BY <1>1
<1>9. failed'[i] \in Nat /\ failed'[i] <= clock
    BY <1>3, <1>8
\* Whatever was counted so far is counted or has just made a lock.
<1>10. CASE n + 1 - i <= k
  <2>1. n + 2 - i <= m
      BY <1>5, <1>7, <1>10
  <2>2. CASE ~(Len(dq) >= MAX_FAILS) /\ fails' = dq
      BY <1>1, <1>2, <2>1, <2>2
  <2>3. CASE locked' = clock + LOCKOUT_S
    <3>1. locked' >= failed'[i] + LOCKOUT_S
        BY <1>3, <1>6, <1>9, <2>3
    <3>2. n + 2 - i <= MAX_FAILS
        BY <1>1, <1>2, <1>6, <2>1
    <3>3. (n + 1) - i + 1 + Q <= MAX_FAILS + A - 1
      <4>1. (n + 1) - i + 1 = n + 2 - i /\ n + 2 - i \in Int
          BY <1>1
      <4>2. PICK x \in Int : x = n + 2 - i
          BY <4>1
      <4>3. x + Q <= MAX_FAILS + A - 1
          BY <1>4, <1>6, <3>2, <4>2
      <4>4. QED
          BY <4>1, <4>2, <4>3
    <3>4. QED
        BY <3>1, <3>3
  <2>4. QED
      BY <2>2, <2>3
<1>11. CASE ~(n + 1 - i <= k)
  <2>1. i \in 1 .. n
      BY <1>1, <1>8, <1>11
  <2>2. failed'[i] = failed[i]
      BY <1>3, <2>1
  <2>3. clock - failed[i] < WINDOW_S
      BY <1>7, <2>2
  <2>4. \/ n - i + 1 <= k
        \/ locked >= failed[i] + LOCKOUT_S /\ n - i + 1 + P <= MAX_FAILS + A - 1
      BY <1>1, <1>4, <2>1, <2>3 DEF GuardInv, Live, Since
  <2>5. locked >= failed[i] + LOCKOUT_S /\ n - i + 1 + P <= MAX_FAILS + A - 1
      BY <1>1, <1>11, <2>1, <2>4
  <2>6. locked' >= failed'[i] + LOCKOUT_S
      BY <1>3, <1>6, <1>9, <2>2, <2>5
  <2>7. (n + 1) - i + 1 + Q <= MAX_FAILS + A - 1
      BY <1>1, <1>4, <1>6, <2>5
  <2>8. QED
      BY <2>6, <2>7
<1>12. QED
    BY <1>10, <1>11

\* Of a failure that is a window old nothing more is counted; of the others
\* Live bounds all that followed.
LEMMA GuessesWrong ==
    ASSUME Times, GuessesBounded, Times', Live', UNCHANGED clock, failed' = Append(failed, clock),
           Cardinality(LoggingIn') \in Nat, \E r \in Attempt : TRUE
    PROVE  GuessesBounded'
<1>1. PICK n \in Nat : n = Len(failed)
    BY TimesFacts
<1>2. /\ clock \in Nat /\ Len(failed') = n + 1 /\ failed'[n + 1] = clock
      /\ \A i \in 1 .. n : failed'[i] = failed[i] /\ failed[i] \in Nat
    BY <1>1, TimesFacts, AppendProperties DEF Times
<1>3. PICK A \in Nat, Q \in Nat : A = Cardinality(Attempt) /\ Q = Cardinality(LoggingIn') /\ A >= 1
  <2>1. Cardinality(Attempt) # 0
      BY GuardConstants, FS_EmptySet
  <2>2. QED
      BY <2>1, GuardConstants
<1>4. MAX_FAILS \in Nat /\ MAX_FAILS >= 1 /\ WINDOW_S \in Nat
    BY GuardConstants
<1>5. SUFFICES ASSUME NEW i \in 1 .. n + 1,
                      NEW S, S = {j \in i .. n + 1 : failed'[j] - failed'[i] < WINDOW_S}
               PROVE  Cardinality(S) <= MAX_FAILS + A - 1
    BY <1>2, <1>3 DEF GuessesBounded
<1>6. CASE clock - failed'[i] < WINDOW_S
  <2>1. \/ (n + 1) - i + 1 <= Len(fails')
        \/ (n + 1) - i + 1 + Q <= MAX_FAILS + A - 1
      BY <1>2, <1>3, <1>6 DEF Live, Since
  <2>2. Len(fails') < MAX_FAILS /\ Len(fails') \in Nat
      BY LenProperties DEF Times
  <2>3. PICK m \in Nat : m = (n + 1) - i + 1
      BY <1>1
  <2>4. m <= MAX_FAILS + A - 1
      BY <1>3, <1>4, <2>1, <2>2, <2>3
  <2>5. IsFiniteSet(i .. n + 1) /\ Cardinality(i .. n + 1) = m
    <3>1. /\ IsFiniteSet(i .. n + 1)
          /\ Cardinality(i .. n + 1) = IF i > n + 1 THEN 0 ELSE (n + 1) - i + 1
        BY <1>1, FS_Interval
    <3>2. QED
        BY <1>1, <2>3, <3>1
  <2>6. Cardinality(S) <= m /\ Cardinality(S) \in Nat
      BY <1>5, <2>5, FS_Subset, FS_CardinalityType
  <2>7. QED
      BY <1>3, <1>4, <2>3, <2>4, <2>6
<1>7. CASE ~(clock - failed'[i] < WINDOW_S)
  <2>1. CASE i = n + 1
    <3>1. \A j \in i .. n + 1 : j = n + 1
        BY <1>1, <2>1
    <3>2. S = {}
        BY <1>5, <1>7, <1>2, <2>1, <3>1
    <3>3. QED
        BY <1>3, <1>4, <3>2, FS_EmptySet
  <2>2. n + 1 \notin S
      BY <1>2, <1>5, <1>7
  <2>3. CASE i \in 1 .. n
    <3>1. \A j \in i .. n + 1 : j = n + 1 \/ j \in i .. n
        BY <1>1
    <3>2. \A j \in i .. n : j \in i .. n + 1 /\ j \in 1 .. n
        BY <1>1, <2>3
    <3>3. S = {j \in i .. n : failed[j] - failed[i] < WINDOW_S}
        BY <1>2, <1>5, <2>2, <2>3, <3>1, <3>2
    <3>4. QED
        BY <1>1, <1>3, <2>3, <3>3 DEF GuessesBounded
  <2>4. QED
      BY <1>1, <2>1, <2>3
<1>8. QED
    BY <1>6, <1>7

LEMMA GuardWrong ==
    ASSUME GuardInv, NEW r \in Attempt, LoginWrong(r)
    PROVE  GuardInv'
<1>1. PICK dq : dq = Recent(Append(fails, clock), clock)
    OBVIOUS
<1>2. /\ UNCHANGED clock /\ failed' = Append(failed, clock) /\ request[r].op = "login"
      /\ request' = [request EXCEPT ![r] = Waiting]
      /\ \/ Len(dq) >= MAX_FAILS /\ fails' = <<>> /\ locked' = clock + LOCKOUT_S
         \/ ~(Len(dq) >= MAX_FAILS) /\ fails' = dq /\ UNCHANGED locked
    BY <1>1 DEF LoginWrong, record_failure
<1>3. Times /\ request \in [Attempt -> Doing]
    BY DEF GuardInv
<1>4. Times'
    BY <1>1, <1>2, <1>3, TimesWrong
<1>5. Live'
    BY <1>1, <1>2, LiveWrong
<1>6. request' \in [Attempt -> Doing] /\ Cardinality(LoggingIn') \in Nat
    BY <1>2, <1>3, LoggedOut
<1>7. GuessesBounded'
    BY <1>2, <1>3, <1>4, <1>5, <1>6, GuessesWrong DEF GuardInv
<1>8. LockedForCause'
  <2>1. CASE Len(dq) >= MAX_FAILS /\ locked' = clock + LOCKOUT_S
      BY <1>1, <1>2, <1>3, <2>1, LockHasCause
  <2>2. CASE UNCHANGED locked /\ locked # Never
    <3>1. clock \in Nat
        BY <1>3, TimesFacts
    <3>2. QED
        BY <1>2, <1>3, <2>2, <3>1, LockKeepsCause DEF GuardInv
  <2>3. CASE UNCHANGED locked /\ locked = Never
      BY <2>3 DEF LockedForCause
  <2>4. QED
      BY <1>2, <2>1, <2>2, <2>3
<1>9. QED
    BY <1>4, <1>5, <1>6, <1>7, <1>8 DEF GuardInv

\* Time only frees failures, and nobody else logs in.
LEMMA GuardQuiet ==
    ASSUME GuardInv, request' \in [Attempt -> Doing], LoggingIn' = LoggingIn,
           clock' \in 0 .. MaxClock, clock' >= clock, UNCHANGED <<fails, locked, failed>>
    PROVE  GuardInv'
<1>1. clock \in Nat /\ clock' \in Nat /\ \A i \in 1 .. Len(failed) : failed[i] \in Nat
    BY TimesFacts, GuardConstants DEF GuardInv
<1>2. Times'
  <2>1. \A i \in 1 .. Len(failed) : failed[i] <= clock'
      BY <1>1 DEF GuardInv, Times
  <2>2. QED
      BY <2>1 DEF GuardInv, Times
<1>3. Live'
  <2>1. ASSUME NEW i \in 1 .. Len(failed), clock' - failed[i] < WINDOW_S
        PROVE  \/ Since(i) <= Len(fails)
               \/ /\ locked >= failed[i] + LOCKOUT_S
                  /\ Since(i) + Cardinality(LoggingIn) <= MAX_FAILS + Cardinality(Attempt) - 1
    <3>1. clock - failed[i] < WINDOW_S
        BY <1>1, <2>1, GuardConstants
    <3>2. QED
        BY <3>1 DEF GuardInv, Live
  <2>2. QED
      BY <2>1 DEF Live, Since
<1>4. GuessesBounded' /\ LockedForCause'
    BY DEF GuardInv, GuessesBounded, LockedForCause
<1>5. QED
    BY <1>2, <1>3, <1>4 DEF GuardInv

LEMMA GuardStart ==
    ASSUME GuardInv, NEW r \in Attempt, LoginStart(r)
    PROVE  GuardInv'
<1>1. /\ locked_seconds = 0 /\ locked' = Never /\ UNCHANGED <<clock, fails, failed>>
      /\ request' = [request EXCEPT ![r] = [op |-> "login"]]
    BY DEF LoginStart
<1>2. request' \in [Attempt -> Doing]
    BY <1>1 DEF GuardInv, Doing
<1>3. Times'
    BY <1>1 DEF GuardInv, Times
<1>4. /\ clock \in Nat /\ locked \in Int /\ Len(failed) \in Nat
      /\ \A i \in 1 .. Len(failed) : failed[i] \in Nat
    BY TimesFacts DEF GuardInv
<1>5. locked <= clock
    BY <1>1, <1>4, GuardConstants DEF locked_seconds
<1>6. Live'
  <2>1. ASSUME NEW i \in 1 .. Len(failed), clock - failed[i] < WINDOW_S
        PROVE  Since(i) <= Len(fails)
    <3>1. ~(locked >= failed[i] + LOCKOUT_S)
        BY <1>4, <1>5, <2>1, GuardConstants
    <3>2. QED
        BY <2>1, <3>1 DEF GuardInv, Live
  <2>2. QED
      BY <1>1, <2>1 DEF Live, Since
<1>7. GuessesBounded' /\ LockedForCause'
    BY <1>1 DEF GuardInv, GuessesBounded, LockedForCause
<1>8. QED
    BY <1>2, <1>3, <1>6, <1>7 DEF GuardInv

\* Without a failure, and without a lock, there is nothing to bound.
LEMMA GuardFresh ==
    ASSUME clock \in 0 .. MaxClock, locked = Never, fails = <<>>, failed = <<>>,
           request \in [Attempt -> Doing]
    PROVE  GuardInv
<1>1. <<>> \in Seq(Nat) /\ Len(<<>>) = 0
    BY EmptySeq
<1>2. \A i \in 1 .. 0 : FALSE
    OBVIOUS
<1>3. Times
    BY <1>1, <1>2, GuardConstants DEF Times
<1>4. Live /\ GuessesBounded /\ LockedForCause
    BY <1>1, <1>2 DEF Live, GuessesBounded, LockedForCause
<1>5. QED
    BY <1>3, <1>4 DEF GuardInv

LEMMA GuardFreshNext ==
    (/\ clock \in 0 .. MaxClock /\ locked = Never /\ fails = <<>> /\ failed = <<>>
     /\ request \in [Attempt -> Doing])' => GuardInv'
<1>1. (/\ clock \in 0 .. MaxClock /\ locked = Never /\ fails = <<>> /\ failed = <<>>
       /\ request \in [Attempt -> Doing]) => GuardInv
    BY GuardFresh
<1>2. QED
    BY <1>1, PTL

LEMMA GuardRight ==
    ASSUME GuardInv, NEW r \in Attempt, LoginRight(r)
    PROVE  GuardInv'
<1>1. /\ fails' = <<>> /\ locked' = Never /\ failed' = <<>> /\ UNCHANGED clock
      /\ request' = [request EXCEPT ![r] = Waiting] /\ Waiting \in Doing
    BY DEF LoginRight, Doing
<1>2. request' \in [Attempt -> Doing] /\ clock' \in 0 .. MaxClock
    BY <1>1 DEF GuardInv, Times
<1>3. QED
    BY <1>1, <1>2, GuardFreshNext

\* What deletions do to the requests.
LEMMA OtherRequests ==
    ASSUME request \in [Attempt -> Doing], NEW r \in Attempt, request[r].op # "login",
           NEW v \in Doing, v.op # "login", request' = [request EXCEPT ![r] = v]
    PROVE  request' \in [Attempt -> Doing] /\ LoggingIn' = LoggingIn
BY DEF LoggingIn

LEMMA GuardNext == GuardInv /\ [AccountsNext]_accountVars => GuardInv'
<1> SUFFICES ASSUME GuardInv, [AccountsNext]_accountVars PROVE GuardInv'
    OBVIOUS
<1>1. /\ request \in [Attempt -> Doing] /\ clock \in 0 .. MaxClock /\ clock \in Nat
      /\ Waiting \in Doing /\ Waiting.op # "login"
    BY TimesFacts DEF GuardInv, Times, Doing, Waiting
<1>2. ASSUME UNCHANGED <<clock, fails, locked, failed, request>>
      PROVE  GuardInv'
    BY <1>1, <1>2, GuardQuiet DEF LoggingIn
<1>3. ASSUME NEW r \in Attempt, NEW a \in Boss, NEW u \in User, DeleteCheck(r, a, u)
      PROVE  GuardInv'
  <2>1. [op |-> "delete", user |-> u] \in Doing /\ [op |-> "delete", user |-> u].op # "login"
      BY DEF Doing
  <2>2. /\ request[r].op # "login" /\ UNCHANGED <<clock, fails, locked, failed>>
        /\ request' = [request EXCEPT ![r] = [op |-> "delete", user |-> u]]
      BY <1>1, <1>3 DEF DeleteCheck
  <2>3. request' \in [Attempt -> Doing] /\ LoggingIn' = LoggingIn
      BY <1>1, <2>1, <2>2, OtherRequests
  <2>4. QED
      BY <1>1, <2>2, <2>3, GuardQuiet
<1>4. ASSUME NEW r \in Attempt, DeleteCommit(r)
      PROVE  GuardInv'
  <2>1. /\ request[r].op # "login" /\ UNCHANGED <<clock, fails, locked, failed>>
        /\ request' = [request EXCEPT ![r] = Waiting]
      BY <1>4 DEF DeleteCommit
  <2>2. request' \in [Attempt -> Doing] /\ LoggingIn' = LoggingIn
      BY <1>1, <2>1, OtherRequests
  <2>3. QED
      BY <1>1, <2>1, <2>2, GuardQuiet
<1>5. CASE \E u \in User, role \in {"admin", "officer"} : CreateUser(u, role)
    BY <1>2, <1>5 DEF CreateUser
<1>6. CASE Tick
  <2>1. clock' = clock + 1 /\ clock < MaxClock /\ UNCHANGED <<fails, locked, request, failed>>
      BY <1>6 DEF Tick
  <2>2. clock' \in 0 .. MaxClock /\ clock' >= clock
      BY <1>1, <2>1, GuardConstants
  <2>3. QED
      BY <1>1, <2>1, <2>2, GuardQuiet DEF LoggingIn
<1>7. CASE UNCHANGED accountVars
    BY <1>2, <1>7 DEF accountVars
<1>8. QED
    BY <1>3, <1>4, <1>5, <1>6, <1>7, GuardStart, GuardWrong, GuardRight DEF AccountsNext

-----------------------------------------------------------------------------
(***************************************************************************)
(* Accounts, the administrators.  While deletions do not overlap, the one  *)
(* that is under way leaves an administrator who is not its victim: there  *)
(* were two when it counted, and nobody else deletes.                      *)
(***************************************************************************)

Deleting == {r \in Attempt : request[r].op = "delete"}

RoleInv ==
    /\ request \in [Attempt -> Doing]
    /\ account \in [User -> {"none", "admin", "officer"}]
    /\ overlapped \in BOOLEAN
    /\ ~overlapped =>
          /\ \E u \in User : account[u] = "admin"
          /\ \A r, s \in Deleting : r = s
          /\ \A r \in Deleting : \E u \in User : u # request[r].user /\ account[u] = "admin"

LEMMA OneOfTwo ==
    ASSUME NEW u, Cardinality(Admins) > 1
    PROVE  \E a \in User : a # u /\ account[a] = "admin"
<1>1. PICK S : S = Admins
    OBVIOUS
<1>2. IsFiniteSet(S)
    BY <1>1, AccountsAssumption, FS_Subset DEF Admins
<1>3. /\ IsFiniteSet(S \ {u}) /\ Cardinality(S) \in Nat
      /\ Cardinality(S \ {u}) = IF u \in S THEN Cardinality(S) - 1 ELSE Cardinality(S)
    BY <1>2, FS_RemoveElement, FS_CardinalityType
<1>4. Cardinality(S \ {u}) # 0
    BY <1>1, <1>3
<1>5. S \ {u} # {}
    BY <1>4, FS_EmptySet
<1>6. QED
    BY <1>1, <1>5 DEF Admins

LEMMA RoleInit == AccountsInit => RoleInv
<1> SUFFICES ASSUME AccountsInit PROVE RoleInv
    OBVIOUS
<1>1. /\ account = [u \in User |-> IF u \in Boss THEN "admin" ELSE "none"]
      /\ request = [r \in Attempt |-> Waiting] /\ overlapped = FALSE
      /\ Waiting \in Doing /\ Waiting.op # "delete"
    BY DEF AccountsInit, Doing, Waiting
<1>2. \E u \in User : account[u] = "admin"
    BY <1>1, AccountsAssumption
<1>3. QED
    BY <1>1, <1>2 DEF RoleInv, Deleting

LEMMA RoleQuiet ==
    ASSUME RoleInv, UNCHANGED <<account, overlapped>>, NEW r \in Attempt, NEW v \in Doing,
           v.op # "delete", request' = [request EXCEPT ![r] = v]
    PROVE  RoleInv'
<1>1. request' \in [Attempt -> Doing]
    BY DEF RoleInv
<1>2. \A x \in Deleting' : x \in Deleting /\ request'[x] = request[x]
    BY DEF Deleting, RoleInv
<1>3. QED
    BY <1>1, <1>2 DEF RoleInv

LEMMA RoleNext == RoleInv /\ [AccountsNext]_accountVars => RoleInv'
<1> SUFFICES ASSUME RoleInv, [AccountsNext]_accountVars PROVE RoleInv'
    OBVIOUS
<1>1. /\ Waiting \in Doing /\ Waiting.op # "delete"
      /\ [op |-> "login"] \in Doing /\ [op |-> "login"].op # "delete"
    BY DEF Doing, Waiting
<1>2. ASSUME UNCHANGED <<account, overlapped, request>>
      PROVE  RoleInv'
    BY <1>2 DEF RoleInv, Deleting
<1>3. CASE \E r \in Attempt : LoginStart(r) \/ LoginWrong(r) \/ LoginRight(r)
    BY <1>1, <1>3, RoleQuiet DEF LoginStart, LoginWrong, LoginRight
<1>4. ASSUME NEW r \in Attempt, NEW a \in Boss, NEW u \in User, DeleteCheck(r, a, u)
      PROVE  RoleInv'
  <2>1. PICK v : v = [op |-> "delete", user |-> u]
      OBVIOUS
  <2>2. v \in Doing /\ v.op = "delete" /\ v.user = u
      BY <2>1 DEF Doing
  <2>3. /\ request' = [request EXCEPT ![r] = v] /\ UNCHANGED account
        /\ overlapped' = (overlapped \/ \E s \in Attempt : request[s].op = "delete")
      BY <1>4, <2>1 DEF DeleteCheck
  <2>4. /\ request' \in [Attempt -> Doing] /\ overlapped' \in BOOLEAN
        /\ account' \in [User -> {"none", "admin", "officer"}]
      BY <2>2, <2>3 DEF RoleInv
  <2>5. CASE ~overlapped'
    <3>1. ~overlapped /\ Deleting = {}
        BY <2>3, <2>5 DEF Deleting
    <3>2. \A x \in Deleting' : x = r /\ request'[x] = v
        BY <2>3, <3>1 DEF Deleting, RoleInv
    <3>3. \E x \in User : account[x] = "admin"
        BY <3>1 DEF RoleInv
    <3>4. \E x \in User : x # u /\ account[x] = "admin"
      <4>1. CASE account[u] = "admin"
          BY <1>4, <4>1, OneOfTwo DEF DeleteCheck, MayDelete
      <4>2. CASE account[u] # "admin"
          BY <3>3, <4>2
      <4>3. QED
          BY <4>1, <4>2
    <3>5. QED
        BY <2>2, <2>3, <2>4, <3>2, <3>3, <3>4 DEF RoleInv
  <2>6. CASE overlapped'
      BY <2>4, <2>6 DEF RoleInv
  <2>7. QED
      BY <2>5, <2>6
<1>5. ASSUME NEW r \in Attempt, DeleteCommit(r)
      PROVE  RoleInv'
  <2>1. PICK v : v = request[r].user
      OBVIOUS
  <2>2. /\ account' = [account EXCEPT ![v] = "none"] /\ request[r].op = "delete"
        /\ request' = [request EXCEPT ![r] = Waiting] /\ UNCHANGED overlapped
      BY <1>5, <2>1 DEF DeleteCommit
  <2>3. /\ request' \in [Attempt -> Doing]
        /\ account' \in [User -> {"none", "admin", "officer"}]
      BY <1>1, <2>2 DEF RoleInv
  <2>4. CASE ~overlapped
    <3>1. r \in Deleting /\ \A x \in Deleting : x = r
        BY <2>2, <2>4 DEF RoleInv, Deleting
    <3>2. Deleting' = {}
        BY <1>1, <2>2, <3>1 DEF RoleInv, Deleting
    <3>3. PICK x \in User : x # v /\ account[x] = "admin"
        BY <2>1, <2>4, <3>1 DEF RoleInv
    <3>4. account'[x] = "admin"
        BY <2>2, <3>3 DEF RoleInv
    <3>5. QED
        BY <2>2, <2>3, <3>2, <3>4 DEF RoleInv
  <2>5. CASE overlapped
      BY <2>2, <2>3, <2>5 DEF RoleInv
  <2>6. QED
      BY <2>4, <2>5
<1>6. ASSUME NEW u \in User, NEW role \in {"admin", "officer"}, CreateUser(u, role)
      PROVE  RoleInv'
  <2>1. /\ account[u] = "none" /\ account' = [account EXCEPT ![u] = role]
        /\ UNCHANGED <<request, overlapped>>
      BY <1>6 DEF CreateUser
  <2>2. account' \in [User -> {"none", "admin", "officer"}]
      BY <2>1 DEF RoleInv
  <2>3. \A x \in User : account[x] = "admin" => account'[x] = "admin"
      BY <2>1 DEF RoleInv
  <2>4. QED
      BY <2>1, <2>2, <2>3 DEF RoleInv, Deleting
<1>7. CASE Tick
    BY <1>2, <1>7 DEF Tick
<1>8. CASE UNCHANGED accountVars
    BY <1>2, <1>8 DEF accountVars
<1>9. QED
    BY <1>3, <1>4, <1>5, <1>6, <1>7, <1>8 DEF AccountsNext

LEMMA GuardInit == AccountsInit => GuardInv
<1> SUFFICES ASSUME AccountsInit PROVE GuardInv
    OBVIOUS
<1>1. /\ clock = 0 /\ fails = <<>> /\ locked = Never /\ failed = <<>>
      /\ request = [r \in Attempt |-> Waiting] /\ Waiting \in Doing
    BY DEF AccountsInit, Doing
<1>2. clock \in 0 .. MaxClock
    BY <1>1, GuardConstants
<1>3. QED
    BY <1>1, <1>2, GuardFresh

\* With any threshold, any window no longer than the lock and any number of
\* threads, the guard bounds the guesses and locks for cause only, and while
\* deletions do not overlap some administrator is left.
THEOREM NobodyIsLockedOut == AccountsInit /\ [][AccountsNext]_accountVars => []NobodyLockedOut
<1>1. AccountsInit => GuardInv /\ RoleInv
    BY GuardInit, RoleInit
<1>2. GuardInv /\ RoleInv /\ [AccountsNext]_accountVars => GuardInv' /\ RoleInv'
    BY GuardNext, RoleNext
<1>3. GuardInv /\ RoleInv => NobodyLockedOut
    BY DEF GuardInv, RoleInv, NobodyLockedOut, LockIsFair, AdminLeft, Admins
<1>4. QED
    BY <1>1, <1>2, <1>3, PTL

\* The counted failures stay below the threshold, and roles are roles.
THEOREM AccountsTypeCorrect == AccountsInit /\ [][AccountsNext]_accountVars => []AccountsTypeOK
<1>1. AccountsInit => GuardInv /\ RoleInv
    BY GuardInit, RoleInit
<1>2. GuardInv /\ RoleInv /\ [AccountsNext]_accountVars => GuardInv' /\ RoleInv'
    BY GuardNext, RoleNext
<1>3. GuardInv /\ RoleInv => AccountsTypeOK
    BY DEF GuardInv, Times, RoleInv, AccountsTypeOK
<1>4. QED
    BY <1>1, <1>2, <1>3, PTL

(***************************************************************************)
(* Periods.  Regular windows tile the days, and whatever the windows are,  *)
(* coverage and the tags of an audit tell the truth of them.               *)
(***************************************************************************)

LEMMA GreatestExists ==
    ASSUME NEW S \in SUBSET Int, IsFiniteSet(S), S # {}
    PROVE  \E m \in S : \A k \in S : k <= m
BY MaxFacts

-----------------------------------------------------------------------------
(* The calendar                                                            *)

\* A day that exists, by its year, its month and its day of the month.
Dated(d, y, m, e) ==
    /\ y \in Nat /\ y > 0 /\ m \in 1 .. 12 /\ e \in 1 .. 31 /\ e <= monthrange(y, m)
    /\ d \in Nat /\ d = 10000 * y + 100 * m + e

LEMMA Parts ==
    ASSUME NEW d, NEW y, NEW m, NEW e, Dated(d, y, m, e)
    PROVE  YearOf(d) = y /\ MonthOf(d) = m /\ d % 100 = e
<1>0. y \in Nat /\ m \in 1 .. 12 /\ e \in 1 .. 31 /\ d = 10000 * y + 100 * m + e
    BY DEF Dated
<1>1. PICK b \in 0 .. 9999 : b = 100 * m + e
    BY <1>0
<1>2. d = 10000 * y + b
    BY <1>0, <1>1
<1>3. PICK a \in Nat : a = y
    BY <1>0
<1>4. YearOf(d) = y
  <2>1. (10000 * a + b) \div 10000 = a
      OBVIOUS
  <2>2. QED
      BY <1>2, <1>3, <2>1 DEF YearOf
<1>5. PICK c \in Nat : c = 100 * y + m
    BY <1>0
<1>6. d = 100 * c + e
    BY <1>0, <1>5
<1>7. (100 * c + e) \div 100 = c /\ (100 * c + e) % 100 = e
    BY <1>0
<1>8. (100 * y + m) % 100 = m
    BY <1>0
<1>9. MonthOf(d) = m
    BY <1>5, <1>6, <1>7, <1>8 DEF MonthOf
<1>10. QED
    BY <1>4, <1>6, <1>7, <1>9

LEMMA MonthLength ==
    ASSUME NEW y \in Nat, NEW m \in 1 .. 12
    PROVE  monthrange(y, m) \in 28 .. 31
BY DEF monthrange

LEMMA PartsOf ==
    ASSUME NEW d, IsDate(d)
    PROVE  \E y, m, e : Dated(d, y, m, e)
<1>0. d \in Nat
    BY DEF IsDate
<1>1. PICK q \in Nat, e \in 0 .. 99 : d = 100 * q + e
  <2>1. d = 100 * (d \div 100) + (d % 100) /\ d \div 100 \in Nat /\ d % 100 \in 0 .. 99
      BY <1>0
  <2>2. QED
      BY <2>1
<1>2. PICK y \in Nat, m \in 0 .. 99 : q = 100 * y + m
  <2>1. q = 100 * (q \div 100) + (q % 100) /\ q \div 100 \in Nat /\ q % 100 \in 0 .. 99
      OBVIOUS
  <2>2. QED
      BY <2>1
<1>3. MonthOf(d) = m /\ d % 100 = e
  <2>1. (100 * q + e) \div 100 = q /\ (100 * q + e) % 100 = e
      OBVIOUS
  <2>2. (100 * y + m) % 100 = m
      OBVIOUS
  <2>3. QED
      BY <1>1, <1>2, <2>1, <2>2 DEF MonthOf
<1>4. YearOf(d) = y
  <2>1. PICK b \in 0 .. 9999 : b = 100 * m + e
      OBVIOUS
  <2>2. d = 10000 * y + b
      BY <1>1, <1>2, <2>1
  <2>3. (10000 * y + b) \div 10000 = y
      OBVIOUS
  <2>4. QED
      BY <2>2, <2>3 DEF YearOf
<1>5. y > 0 /\ m \in 1 .. 12 /\ e \in 1 .. monthrange(y, m)
    BY <1>3, <1>4, Zenon DEF IsDate
<1>6. e \in 1 .. 31 /\ e <= monthrange(y, m)
  <2>1. PICK r \in 28 .. 31 : r = monthrange(y, m)
      BY <1>5, MonthLength
  <2>2. QED
      BY <1>5, <2>1
<1>7. d = 10000 * y + 100 * m + e
    BY <1>1, <1>2
<1>8. Dated(d, y, m, e)
    BY <1>0, <1>5, <1>6, <1>7 DEF Dated
<1>9. QED
    BY <1>8

LEMMA DateOf ==
    ASSUME NEW d, NEW y, NEW m, NEW e, Dated(d, y, m, e)
    PROVE  IsDate(d)
<1>1. YearOf(d) = y /\ MonthOf(d) = m /\ d % 100 = e
    BY Parts
<1>2. y \in Nat /\ y > 0 /\ m \in 1 .. 12 /\ e \in 1 .. 31 /\ e <= monthrange(y, m) /\ d \in Nat
    BY DEF Dated
<1>3. PICK r \in 28 .. 31 : r = monthrange(y, m)
    BY <1>2, MonthLength
<1>4. e \in 1 .. monthrange(y, m)
    BY <1>2, <1>3
<1>5. QED
    BY <1>1, <1>2, <1>4, Zenon DEF IsDate

\* Months of dates are numbered, and days follow each other by them.
LEMMA DateFacts ==
    ASSUME NEW d, NEW y, NEW m, NEW e, Dated(d, y, m, e)
    PROVE  /\ YearOf(d) = y /\ MonthOf(d) = m
           /\ y \in Nat /\ y > 0 /\ m \in 1 .. 12 /\ e \in 1 .. 31
           /\ d \in Nat /\ d = 10000 * y + 100 * m + e
           /\ MonthNo(d) = 12 * y + m
BY Parts DEF Dated, MonthNo

LEMMA MonthNumber ==
    ASSUME NEW d, IsDate(d)
    PROVE  d \in Nat /\ d # NoDate /\ MonthNo(d) \in Nat /\ MonthNo(d) >= 13 /\ YearOf(d) \in Nat
<1>1. PICK y, m, e : Dated(d, y, m, e)
    BY PartsOf
<1>2. QED
    BY <1>1, DateFacts DEF NoDate

\* Months never go back from one day to a later one.
LEMMA MonthsInOrder ==
    ASSUME NEW d, IsDate(d), NEW e, IsDate(e), d <= e
    PROVE  MonthNo(d) <= MonthNo(e)
<1>1. PICK y, m, i : Dated(d, y, m, i)
    BY PartsOf
<1>2. PICK z, n, j : Dated(e, z, n, j)
    BY PartsOf
<1>3. /\ y \in Nat /\ m \in 1 .. 12 /\ i \in 1 .. 31
      /\ d = 10000 * y + 100 * m + i /\ MonthNo(d) = 12 * y + m
    BY <1>1, DateFacts
<1>4. /\ z \in Nat /\ n \in 1 .. 12 /\ j \in 1 .. 31
      /\ e = 10000 * z + 100 * n + j /\ MonthNo(e) = 12 * z + n
    BY <1>2, DateFacts
<1>5. QED
    BY <1>3, <1>4

\* A month by its number, and its first and last day.
LEMMA MonthOfNumber ==
    ASSUME NEW n \in Nat, n >= 13
    PROVE  \E y \in Nat, m \in 1 .. 12 :
              /\ y > 0 /\ n = 12 * y + m
              /\ FirstDay(n) = Day(y, m, 1) /\ LastDay(n) = Day(y, m, monthrange(y, m))
<1>1. PICK k \in Nat : k = n - 1 /\ n = k + 1
    OBVIOUS
<1>2. PICK y \in Nat, r \in 0 .. 11 : k = 12 * y + r
  <2>1. k = 12 * (k \div 12) + (k % 12) /\ k \div 12 \in Nat /\ k % 12 \in 0 .. 11
      OBVIOUS
  <2>2. QED
      BY <2>1
<1>3. PICK m \in 1 .. 12 : m = r + 1
    OBVIOUS
<1>4. y > 0 /\ n = 12 * y + m
    BY <1>1, <1>2, <1>3
<1>5. (n - 1) % 12 = r
  <2>1. (12 * y + r) % 12 = r
      OBVIOUS
  <2>2. n - 1 = 12 * y + r
      BY <1>1, <1>2
  <2>3. QED
      BY <2>1, <2>2
<1>6. (n - m) \div 12 = y
  <2>1. n - m = 12 * y
      BY <1>4
  <2>2. (12 * y) \div 12 = y
      OBVIOUS
  <2>3. QED
      BY <2>1, <2>2
<1>7. m = ((n - 1) % 12) + 1
    BY <1>3, <1>5
<1>8. FirstDay(n) = Day(y, m, 1) /\ LastDay(n) = Day(y, m, monthrange(y, m))
    BY <1>6, <1>7, Zenon DEF FirstDay, LastDay
<1>9. QED
    BY <1>4, <1>8

\* Its first and last day are dates of that month.
LEMMA MonthEnds ==
    ASSUME NEW n \in Nat, n >= 13
    PROVE  \E y, m, r :
              /\ Dated(FirstDay(n), y, m, 1) /\ Dated(LastDay(n), y, m, r)
              /\ n = 12 * y + m /\ r = monthrange(y, m)
<1>1. PICK y \in Nat, m \in 1 .. 12 :
          /\ y > 0 /\ n = 12 * y + m
          /\ FirstDay(n) = Day(y, m, 1) /\ LastDay(n) = Day(y, m, monthrange(y, m))
    BY MonthOfNumber
<1>2. PICK r \in 28 .. 31 : r = monthrange(y, m)
    BY MonthLength
<1>3. Day(y, m, 1) = 10000 * y + 100 * m + 1 /\ Day(y, m, r) = 10000 * y + 100 * m + r
    BY DEF Day
<1>4. Dated(Day(y, m, 1), y, m, 1) /\ Dated(Day(y, m, r), y, m, r)
    BY <1>1, <1>2, <1>3 DEF Dated
<1>5. QED
    BY <1>1, <1>2, <1>4, Zenon

LEMMA MonthBounds ==
    ASSUME NEW d, IsDate(d), NEW n \in Nat, n >= 13
    PROVE  /\ FirstDay(n) <= d <=> n <= MonthNo(d)
           /\ d <= LastDay(n) <=> MonthNo(d) <= n
<1>1. PICK y, m, e : Dated(d, y, m, e)
    BY PartsOf
<1>2. PICK z, k, r :
          /\ Dated(FirstDay(n), z, k, 1) /\ Dated(LastDay(n), z, k, r)
          /\ n = 12 * z + k /\ r = monthrange(z, k)
    BY MonthEnds
<1>3. /\ y \in Nat /\ m \in 1 .. 12 /\ e \in 1 .. 31
      /\ d = 10000 * y + 100 * m + e /\ MonthNo(d) = 12 * y + m
    BY <1>1, DateFacts
<1>4. /\ z \in Nat /\ k \in 1 .. 12 /\ r \in 1 .. 31
      /\ FirstDay(n) = 10000 * z + 100 * k + 1 /\ LastDay(n) = 10000 * z + 100 * k + r
    BY <1>2, DateFacts
<1>5. y = z /\ m = k => e <= r
    BY <1>1, <1>2 DEF Dated
<1>6. QED
    BY <1>2, <1>3, <1>4, <1>5

LEMMA MonthDays ==
    ASSUME NEW n \in Nat, n >= 13
    PROVE  /\ IsDate(FirstDay(n)) /\ MonthNo(FirstDay(n)) = n
           /\ IsDate(LastDay(n)) /\ MonthNo(LastDay(n)) = n
<1>1. PICK z, k, r :
          /\ Dated(FirstDay(n), z, k, 1) /\ Dated(LastDay(n), z, k, r)
          /\ n = 12 * z + k /\ r = monthrange(z, k)
    BY MonthEnds
<1>2. QED
    BY <1>1, DateFacts, DateOf

-----------------------------------------------------------------------------
(* Fiscal years                                                            *)

\* The two days of a fiscal year.
LEMMA FiscalEnds ==
    ASSUME NEW y \in Nat, y > 0, NEW f \in 1 .. 12
    PROVE  \E v, w, x, g, r :
              /\ fiscal_bounds(y, f) = <<v, w>>
              /\ Dated(v, y, f, 1) /\ Dated(w, x, g, r) /\ r = monthrange(x, g)
              /\ (x = y /\ f = 1 /\ g = 12) \/ (x = y + 1 /\ f # 1 /\ g = f - 1)
<1>1. PICK x \in Nat, g \in 1 .. 12 :
          /\ x > 0 /\ fiscal_bounds(y, f) = <<Day(y, f, 1), Day(x, g, monthrange(x, g))>>
          /\ (x = y /\ f = 1 /\ g = 12) \/ (x = y + 1 /\ f # 1 /\ g = f - 1)
  <2>1. CASE f = 1
    <3>1. monthrange(y, 12) = 31
        BY DEF monthrange
    <3>2. fiscal_bounds(y, f) = <<Day(y, f, 1), Day(y, 12, monthrange(y, 12))>>
        BY <2>1, <3>1 DEF fiscal_bounds
    <3>3. 12 \in 1 .. 12
        OBVIOUS
    <3>4. QED
        BY <2>1, <3>2, <3>3
  <2>2. CASE f # 1
    <3>1. f - 1 \in 1 .. 12 /\ y + 1 \in Nat /\ y + 1 > 0
        BY <2>2
    <3>2. fiscal_bounds(y, f) = <<Day(y, f, 1), Day(y + 1, f - 1, monthrange(y + 1, f - 1))>>
        BY <2>2 DEF fiscal_bounds
    <3>3. QED
        BY <2>2, <3>1, <3>2
  <2>3. QED
      BY <2>1, <2>2
<1>2. PICK r \in 28 .. 31 : r = monthrange(x, g)
    BY MonthLength
<1>3. PICK v \in Nat, w \in Nat : v = 10000 * y + 100 * f + 1 /\ w = 10000 * x + 100 * g + r
    OBVIOUS
<1>4. v = Day(y, f, 1) /\ w = Day(x, g, r)
    BY <1>3 DEF Day
<1>5. PICK q \in 28 .. 31 : q = monthrange(y, f)
    BY MonthLength
<1>6. Dated(v, y, f, 1) /\ Dated(w, x, g, r)
    BY <1>1, <1>2, <1>3, <1>5 DEF Dated
<1>7. QED
    BY <1>1, <1>2, <1>4, <1>6, Zenon

\* A day is in the fiscal year of its label, and in no other.
LEMMA FiscalYearOf ==
    ASSUME NEW d, IsDate(d), NEW f \in 1 .. 12, NEW y \in Nat, y > 0
    PROVE  Inside(d, fiscal_bounds(y, f)) <=> y = label_year_of(d, f)
<1>1. PICK z, m, e : Dated(d, z, m, e)
    BY PartsOf
<1>2. PICK v, w, x, g, r :
          /\ fiscal_bounds(y, f) = <<v, w>>
          /\ Dated(v, y, f, 1) /\ Dated(w, x, g, r) /\ r = monthrange(x, g)
          /\ (x = y /\ f = 1 /\ g = 12) \/ (x = y + 1 /\ f # 1 /\ g = f - 1)
    BY FiscalEnds
<1>3. /\ z \in Nat /\ m \in 1 .. 12 /\ e \in 1 .. 31 /\ d = 10000 * z + 100 * m + e
      /\ YearOf(d) = z /\ MonthOf(d) = m
    BY <1>1, DateFacts
<1>4. v = 10000 * y + 100 * f + 1
    BY <1>2, DateFacts
<1>5. x \in Nat /\ g \in 1 .. 12 /\ r \in 1 .. 31 /\ w = 10000 * x + 100 * g + r
    BY <1>2, DateFacts
<1>6. z = x /\ m = g => e <= r
    BY <1>1, <1>2 DEF Dated
<1>7. label_year_of(d, f) = IF m >= f THEN z ELSE z - 1
    BY <1>3 DEF label_year_of
<1>8. Inside(d, fiscal_bounds(y, f)) <=> v <= d /\ d <= w
    BY <1>2 DEF Inside
<1>9. v <= d <=> y < z \/ (y = z /\ f <= m)
    BY <1>3, <1>4
<1>10. d <= w <=> z < x \/ (z = x /\ m <= g)
    BY <1>3, <1>5, <1>6
<1>11. PICK label \in Int : label = label_year_of(d, f) /\ label = IF m >= f THEN z ELSE z - 1
    BY <1>3, <1>7
<1>12. (x = y /\ f = 1 /\ g = 12) \/ (x = y + 1 /\ f # 1 /\ g = f - 1)
    BY <1>2
<1>13. y = label <=> (y < z \/ (y = z /\ f <= m)) /\ (z < x \/ (z = x /\ m <= g))
    BY <1>3, <1>5, <1>11, <1>12
<1>14. QED
    BY <1>8, <1>9, <1>10, <1>11, <1>13

LEMMA FiscalYearsInOrder ==
    ASSUME NEW d, IsDate(d), NEW e, IsDate(e), d <= e, NEW f \in 1 .. 12
    PROVE  /\ label_year_of(d, f) \in Nat /\ label_year_of(e, f) \in Nat
           /\ label_year_of(d, f) <= label_year_of(e, f)
<1>1. PICK y, m, i : Dated(d, y, m, i)
    BY PartsOf
<1>2. PICK z, n, j : Dated(e, z, n, j)
    BY PartsOf
<1>3. /\ y \in Nat /\ y > 0 /\ m \in 1 .. 12 /\ i \in 1 .. 31 /\ d = 10000 * y + 100 * m + i
      /\ YearOf(d) = y /\ MonthOf(d) = m
    BY <1>1, DateFacts
<1>4. /\ z \in Nat /\ z > 0 /\ n \in 1 .. 12 /\ j \in 1 .. 31 /\ e = 10000 * z + 100 * n + j
      /\ YearOf(e) = z /\ MonthOf(e) = n
    BY <1>2, DateFacts
<1>5. QED
    BY <1>3, <1>4 DEF label_year_of

LEMMA MonthAndDay ==
    ASSUME NEW d, NEW y, NEW m, NEW e, Dated(d, y, m, e)
    PROVE  d % 10000 = 100 * m + e
<1>1. y \in Nat /\ 100 * m + e \in 0 .. 9999 /\ d = 10000 * y + (100 * m + e)
    BY DEF Dated
<1>2. PICK x \in Nat, b \in 0 .. 9999 : x = y /\ b = 100 * m + e
    BY <1>1
<1>3. (10000 * x + b) % 10000 = b
    OBVIOUS
<1>4. d = 10000 * x + b
    BY <1>1, <1>2
<1>5. QED
    BY <1>2, <1>3, <1>4

\* The first day of an audit is a date, sixty months before the decision.
LEMMA AuditStart ==
    ASSUME NEW d, IsDate(d), YearOf(d) > AUDIT_YEARS + 1
    PROVE  LET a == _minus_years(d, AUDIT_YEARS)
           IN  /\ IsDate(a) /\ a <= d /\ MonthNo(d) = MonthNo(a) + 60 /\ YearOf(a) > 1
<1> DEFINE a == _minus_years(d, AUDIT_YEARS)
<1>1. PICK y, m, e : Dated(d, y, m, e)
    BY PartsOf
<1>2. /\ y \in Nat /\ m \in 1 .. 12 /\ e \in 1 .. 31 /\ d \in Nat
      /\ d = 10000 * y + 100 * m + e /\ YearOf(d) = y /\ MonthNo(d) = 12 * y + m
    BY <1>1, DateFacts
<1>3. e <= monthrange(y, m)
    BY <1>1 DEF Dated
<1>4. PICK z \in Nat : z > 1 /\ z = y - 5 /\ YearOf(d) - AUDIT_YEARS = z
    BY <1>2 DEF AUDIT_YEARS
<1>5. d % 10000 = 100 * m + e
    BY <1>1, MonthAndDay
<1>6. CASE 100 * m + e = 229 /\ ~Leap(z)
  <2>1. a = Day(z, 2, 28)
      BY <1>4, <1>5, <1>6 DEF _minus_years
  <2>2. m = 2 /\ e = 29
      BY <1>2, <1>6
  <2>3. a = 10000 * z + 228 /\ a \in Nat
      BY <2>1 DEF Day
  <2>4. monthrange(z, 2) = 28
      BY <1>6 DEF monthrange
  <2>5. Dated(a, z, 2, 28)
      BY <1>4, <2>3, <2>4 DEF Dated
  <2>6. IsDate(a) /\ YearOf(a) = z /\ MonthNo(a) = 12 * z + 2
      BY <2>5, DateOf, DateFacts
  <2>7. QED
      BY <1>2, <1>4, <2>2, <2>3, <2>6
<1>7. CASE ~(100 * m + e = 229 /\ ~Leap(z))
  <2>1. a = d - 50000
      BY <1>2, <1>4, <1>5, <1>7 DEF _minus_years, AUDIT_YEARS
  <2>2. a = 10000 * z + 100 * m + e /\ a \in Nat
      BY <1>2, <1>4, <2>1
  <2>3. e <= monthrange(z, m)
    <3>1. CASE m = 2
      <4>1. monthrange(y, 2) \in 28 .. 29
          BY DEF monthrange
      <4>2. e <= 29
          BY <1>2, <1>3, <3>1, <4>1
      <4>3. e # 29 \/ Leap(z)
          BY <1>7, <3>1
      <4>4. QED
          BY <1>2, <3>1, <4>2, <4>3 DEF monthrange
    <3>2. CASE m # 2
        BY <1>3, <3>2 DEF monthrange
    <3>3. QED
        BY <3>1, <3>2
  <2>4. Dated(a, z, m, e)
      BY <1>2, <1>4, <2>2, <2>3 DEF Dated
  <2>5. IsDate(a) /\ YearOf(a) = z /\ MonthNo(a) = 12 * z + m
      BY <2>4, DateOf, DateFacts
  <2>6. QED
      BY <1>2, <1>4, <2>1, <2>5
<1>8. QED
    BY <1>6, <1>7

-----------------------------------------------------------------------------
(* Windows                                                                 *)

\* A window a period may have.
IsWindow(y, w) == w \in Nat \X Nat /\ IsDate(w[1]) /\ IsDate(w[2]) /\ Usable(y, w)

LEMMA FiscalIsWindow ==
    ASSUME NEW y \in Nat, y > 0, NEW f \in 1 .. 12
    PROVE  IsWindow(y, fiscal_bounds(y, f))
<1>1. PICK v, w, x, g, r :
          /\ fiscal_bounds(y, f) = <<v, w>>
          /\ Dated(v, y, f, 1) /\ Dated(w, x, g, r) /\ r = monthrange(x, g)
          /\ (x = y /\ f = 1 /\ g = 12) \/ (x = y + 1 /\ f # 1 /\ g = f - 1)
    BY FiscalEnds
<1>2. /\ v \in Nat /\ v = 10000 * y + 100 * f + 1 /\ MonthNo(v) = 12 * y + f
    BY <1>1, DateFacts
<1>3. /\ x \in Nat /\ g \in 1 .. 12 /\ r \in 1 .. 31
      /\ w \in Nat /\ w = 10000 * x + 100 * g + r /\ MonthNo(w) = 12 * x + g
    BY <1>1, DateFacts
<1>4. x = y /\ f = 1 /\ g = 12 => r = 31
    BY <1>1 DEF monthrange
<1>5. (x = y /\ f = 1 /\ g = 12) \/ (x = y + 1 /\ f # 1 /\ g = f - 1)
    BY <1>1
<1>6. v <= w
    BY <1>2, <1>3, <1>4, <1>5
<1>7. w >= 10000 * y + 101 /\ v <= 10000 * y + 1231
    BY <1>2, <1>3, <1>4, <1>5
<1>8. MonthNo(w) - MonthNo(v) + 1 <= 15
    BY <1>2, <1>3, <1>5
<1>9. Day(y, 1, 1) = 10000 * y + 101 /\ Day(y, 12, 31) = 10000 * y + 1231
    BY DEF Day
<1>10. Usable(y, <<v, w>>)
    BY <1>6, <1>7, <1>8, <1>9 DEF Usable, period_span_months, MaxMonths
<1>11. IsDate(v) /\ IsDate(w)
    BY <1>1, DateOf
<1>12. QED
    BY <1>1, <1>2, <1>3, <1>10, <1>11 DEF IsWindow

\* The window of a period is real, and spans at most fifteen months.
LEMMA WindowFacts ==
    ASSUME NEW y, NEW w, IsWindow(y, w)
    PROVE  /\ w # NoWindow /\ w \in Nat \X Nat
           /\ IsDate(w[1]) /\ IsDate(w[2]) /\ w[1] \in Nat /\ w[2] \in Nat /\ w[1] <= w[2]
           /\ MonthNo(w[1]) \in Nat /\ MonthNo(w[2]) \in Nat /\ MonthNo(w[1]) >= 13
           /\ MonthNo(w[2]) <= MonthNo(w[1]) + 14
<1>1. w \in Nat \X Nat /\ IsDate(w[1]) /\ IsDate(w[2]) /\ Usable(y, w)
    BY DEF IsWindow
<1>2. /\ w[1] \in Nat /\ w[1] # NoDate /\ MonthNo(w[1]) \in Nat /\ MonthNo(w[1]) >= 13
      /\ w[2] \in Nat /\ MonthNo(w[2]) \in Nat
    BY <1>1, MonthNumber
<1>3. w # NoWindow
    BY <1>2 DEF NoWindow
<1>4. w[1] <= w[2]
    BY <1>1 DEF Usable
<1>5. MonthNo(w[2]) - MonthNo(w[1]) + 1 <= 15
    BY <1>1 DEF Usable, period_span_months, MaxMonths
<1>6. MonthNo(w[2]) <= MonthNo(w[1]) + 14
    BY <1>2, <1>5
<1>7. QED
    BY <1>1, <1>2, <1>3, <1>4, <1>6

PeriodRow == [window : Nat \X Nat, manual : BOOLEAN, stored : BOOLEAN]

\* Whatever is stored for a period is a window it may have, chosen by hand or
\* not, and a label that has lines has one.
PeriodsInv ==
    /\ fiscal \in FISCAL_START_MONTHS /\ decision \in Decision \cup {NoDate}
    /\ periods \in [Label -> PeriodRow]
    /\ \A y \in Label : /\ periods[y].window = NoWindow \/ IsWindow(y, periods[y].window)
                        /\ periods[y].manual => periods[y].window # NoWindow
    /\ lines \subseteq Label \X LineDate
    /\ \A l \in lines : periods[l[1]].window # NoWindow

LEMMA PeriodsInitially == PeriodsInit => PeriodsInv
<1>1. NoWindow \in Nat \X Nat
    BY DEF NoWindow, NoDate
<1>2. 1 \in FISCAL_START_MONTHS
    BY DEF FISCAL_START_MONTHS
<1>3. NoRow \in PeriodRow /\ NoRow.window = NoWindow /\ NoRow.manual = FALSE
    BY <1>1 DEF NoRow, PeriodRow
<1>4. QED
    BY <1>2, <1>3 DEF PeriodsInit, PeriodsInv

LEMMA LabelsAreYears ==
    ASSUME NEW y \in Label
    PROVE  y \in Nat /\ y > 0
BY PeriodsAssumption

LEMMA DefaultIsWindow ==
    ASSUME fiscal \in FISCAL_START_MONTHS, NEW y \in Label, NEW h \in Window \cup {NoWindow}
    PROVE  IsWindow(y, default_bounds(y, h))
<1>1. IsWindow(y, fiscal_bounds(y, fiscal))
    BY LabelsAreYears, FiscalIsWindow DEF FISCAL_START_MONTHS
<1>2. h # NoWindow /\ Usable(y, h) => IsWindow(y, h)
    BY PeriodsAssumption DEF IsWindow
<1>3. QED
    BY <1>1, <1>2 DEF default_bounds

LEMMA PeriodsStep == PeriodsInv /\ [PeriodsNext]_periodVars => PeriodsInv'
<1> SUFFICES ASSUME PeriodsInv, [PeriodsNext]_periodVars PROVE PeriodsInv'
    OBVIOUS
<1> USE DEF PeriodsInv
<1>1. ASSUME NEW m \in Month, NEW d \in Decision \cup {NoDate}, SetCompanyFields(m, d)
      PROVE  PeriodsInv'
    BY <1>1 DEF SetCompanyFields
<1>2. ASSUME NEW y \in Label, NEW h \in Window \cup {NoWindow}, NEW dates \in SUBSET LineDate,
             LoadLabel(y, h, dates)
      PROVE  PeriodsInv'
  <2>1. PICK r \in PeriodRow :
            /\ r = resolve_period_bounds(y, h)
            /\ IsWindow(y, r.window) /\ r.window # NoWindow
    <3>1. CASE periods[y].manual
      <4>1. resolve_period_bounds(y, h) = periods[y]
          BY <3>1 DEF resolve_period_bounds
      <4>2. periods[y] \in PeriodRow
          OBVIOUS
      <4>3. QED
          BY <3>1, <4>1, <4>2
    <3>2. CASE ~periods[y].manual
      <4>1. PICK w : w = default_bounds(y, h)
          OBVIOUS
      <4>2. IsWindow(y, w) /\ w \in Nat \X Nat /\ w # NoWindow
          BY <4>1, DefaultIsWindow, WindowFacts
      <4>3. resolve_period_bounds(y, h) = [window |-> w, manual |-> FALSE, stored |-> TRUE]
          BY <3>2, <4>1 DEF resolve_period_bounds
      <4>4. [window |-> w, manual |-> FALSE, stored |-> TRUE] \in PeriodRow
          BY <4>2 DEF PeriodRow
      <4>5. QED
          BY <4>2, <4>3, <4>4
    <3>3. QED
        BY <3>1, <3>2
  <2>2. periods' = [periods EXCEPT ![y] = r]
      BY <1>2, <2>1 DEF LoadLabel
  <2>3. UNCHANGED <<fiscal, decision>>
      BY <1>2 DEF LoadLabel
  <2>4. periods' \in [Label -> PeriodRow]
      BY <2>2
  <2>5. \A z \in Label : periods'[z] = IF z = y THEN r ELSE periods[z]
      BY <2>2
  <2>6. \A l \in lines' : l \in Label \X LineDate /\ (l[1] = y \/ l \in lines)
      BY <1>2 DEF LoadLabel
  <2>7. \A z \in Label : /\ periods'[z].window = NoWindow \/ IsWindow(z, periods'[z].window)
                         /\ periods'[z].manual => periods'[z].window # NoWindow
      BY <2>1, <2>5
  <2>8. \A l \in lines' : periods'[l[1]].window # NoWindow
      BY <2>1, <2>5, <2>6
  <2>9. QED
      BY <2>3, <2>4, <2>6, <2>7, <2>8
<1>3. ASSUME NEW y \in Label, NEW w \in Window, SetPeriod(y, w)
      PROVE  PeriodsInv'
  <2>1. PICK r \in PeriodRow : r = [window |-> w, manual |-> TRUE, stored |-> TRUE]
      BY PeriodsAssumption DEF PeriodRow
  <2>2. IsWindow(y, w) /\ w # NoWindow
    <3>1. IsWindow(y, w)
        BY <1>3, PeriodsAssumption DEF SetPeriod, IsWindow
    <3>2. QED
        BY <3>1, WindowFacts
  <2>3. periods' = [periods EXCEPT ![y] = r] /\ UNCHANGED <<fiscal, decision, lines>>
      BY <1>3, <2>1 DEF SetPeriod
  <2>4. periods' \in [Label -> PeriodRow]
      BY <2>3
  <2>5. \A z \in Label : periods'[z] = IF z = y THEN r ELSE periods[z]
      BY <2>3
  <2>6. r.window = w /\ r.manual = TRUE
      BY <2>1
  <2>7. \A z \in Label : /\ periods'[z].window = NoWindow \/ IsWindow(z, periods'[z].window)
                         /\ periods'[z].manual => periods'[z].window # NoWindow
      BY <2>2, <2>5, <2>6
  <2>8. \A l \in lines : periods'[l[1]].window # NoWindow
      BY <2>2, <2>5, <2>6
  <2>9. QED
      BY <2>3, <2>4, <2>7, <2>8
<1>4. ASSUME NEW y \in Label, ResetPeriod(y) \/ BumpBeforeLoad(y)
      PROVE  PeriodsInv'
  <2>1. PICK r \in PeriodRow :
            /\ periods' = [periods EXCEPT ![y] = r] /\ UNCHANGED <<fiscal, decision, lines>>
            /\ r.window = periods[y].window /\ (r.manual => periods[y].manual)
    <3>1. periods[y] \in PeriodRow
        OBVIOUS
    <3>2. CASE ResetPeriod(y)
      <4>1. [periods[y] EXCEPT !.manual = FALSE] \in PeriodRow
          BY <3>1 DEF PeriodRow
      <4>2. /\ [periods[y] EXCEPT !.manual = FALSE].window = periods[y].window
            /\ [periods[y] EXCEPT !.manual = FALSE].manual = FALSE
          BY <3>1 DEF PeriodRow
      <4>3. periods' = [periods EXCEPT ![y] = [periods[y] EXCEPT !.manual = FALSE]]
          BY <3>2 DEF ResetPeriod
      <4>4. QED
          BY <3>2, <4>1, <4>2, <4>3 DEF ResetPeriod
    <3>3. CASE BumpBeforeLoad(y)
      <4>1. [periods[y] EXCEPT !.stored = TRUE] \in PeriodRow
          BY <3>1 DEF PeriodRow
      <4>2. /\ [periods[y] EXCEPT !.stored = TRUE].window = periods[y].window
            /\ [periods[y] EXCEPT !.stored = TRUE].manual = periods[y].manual
          BY <3>1 DEF PeriodRow
      <4>3. periods' = [periods EXCEPT ![y] = [periods[y] EXCEPT !.stored = TRUE]]
          BY <3>3 DEF BumpBeforeLoad
      <4>4. QED
          BY <3>3, <4>1, <4>2, <4>3 DEF BumpBeforeLoad
    <3>4. QED
        BY <1>4, <3>2, <3>3
  <2>2. periods' \in [Label -> PeriodRow]
      BY <2>1
  <2>3. \A z \in Label : periods'[z].window = periods[z].window
                         /\ (periods'[z].manual => periods[z].manual)
      BY <2>1
  <2>4. \A z \in Label : /\ periods'[z].window = NoWindow \/ IsWindow(z, periods'[z].window)
                         /\ periods'[z].manual => periods'[z].window # NoWindow
      BY <2>3
  <2>5. \A l \in lines : periods'[l[1]].window # NoWindow
      BY <2>3
  <2>6. QED
      BY <2>1, <2>2, <2>4, <2>5
<1>5. CASE UNCHANGED periodVars
    BY <1>5 DEF periodVars
<1>6. QED
    BY <1>1, <1>2, <1>3, <1>4, <1>5 DEF PeriodsNext, EditCompany

\* Every window stored is of real dates and usable for its label, and a label
\* that has lines has one.
THEOREM PeriodsInvariant == PeriodsSpec => []PeriodsInv
BY PeriodsInitially, PeriodsStep, PTL DEF PeriodsSpec

-----------------------------------------------------------------------------
(* What the windows in force are                                           *)

LEMMA EffectiveIsWindow ==
    ASSUME PeriodsInv, NEW y \in Label
    PROVE  IsWindow(y, effective_window(y))
<1>1. IsWindow(y, fiscal_bounds(y, fiscal))
    BY LabelsAreYears, FiscalIsWindow DEF PeriodsInv, FISCAL_START_MONTHS
<1>2. QED
    BY <1>1 DEF PeriodsInv, effective_window

\* While the page shows nothing unusual they are the fiscal years.
LEMMA RegularIsFiscal ==
    ASSUME PeriodsInv, Regular, NEW y \in Label
    PROVE  effective_window(y) = fiscal_bounds(y, fiscal)
BY DEF Regular, period_window_conflict, effective_window

\* The dates of the lines.
LEMMA LineDates ==
    ASSUME PeriodsInv, NEW l \in lines
    PROVE  /\ l[1] \in Label /\ l[2] \in LineDate
           /\ l[2] # NoDate => IsDate(l[2]) /\ l[2] \in Nat
BY PeriodsAssumption, MonthNumber DEF PeriodsInv

LEMMA LineInScope ==
    ASSUME NEW y, NEW l \in lines
    PROVE  /\ l[2] # NoDate => (l \in declaration_scope(y) <=> Inside(l[2], effective_window(y)))
           /\ l[2] = NoDate => (l \in declaration_scope(y) <=> l[1] = y)
BY DEF declaration_scope

LEMMA TypeFromInv == PeriodsInv => PeriodsTypeOK
BY DEF PeriodsInv, PeriodsTypeOK, PeriodRow

LEMMA UsableFromInv == PeriodsInv => WindowsUsable
BY DEF PeriodsInv, WindowsUsable, IsWindow

LEMMA ShownFromInv == PeriodsInv => LossAndDoublingShown
<1> SUFFICES ASSUME PeriodsInv PROVE LossAndDoublingShown
    OBVIOUS
<1>1. ASSUME NEW l \in lines, l \notin declaration_scope(l[1])
      PROVE  l \in out_of_window(l[1])
  <2>1. l[2] # NoDate /\ ~Inside(l[2], effective_window(l[1]))
      BY <1>1, LineInScope
  <2>2. periods[l[1]].window # NoWindow
      BY DEF PeriodsInv
  <2>3. QED
      BY <2>1, <2>2 DEF out_of_window, effective_window
<1>2. ASSUME NEW l \in lines, NEW y \in Label, NEW z \in Label,
             y # z, l[2] # NoDate, l \in declaration_scope(y) \cap declaration_scope(z),
             NoWindow \notin {periods[y].window, periods[z].window}
      PROVE  z \in overlapping_periods(y)
  <2>1. PICK v, w : v = periods[y].window /\ w = periods[z].window
      OBVIOUS
  <2>2. v # NoWindow /\ w # NoWindow
      BY <1>2, <2>1
  <2>3. effective_window(y) = v /\ effective_window(z) = w
      BY <2>1, <2>2 DEF effective_window
  <2>4. Inside(l[2], v) /\ Inside(l[2], w)
      BY <1>2, <2>3, LineInScope
  <2>5. v[1] \in Nat /\ v[2] \in Nat /\ w[1] \in Nat /\ w[2] \in Nat
      BY <2>3, EffectiveIsWindow, WindowFacts
  <2>6. PICK d \in Nat : d = l[2]
      BY <1>2, LineDates
  <2>7. Meet(v, w)
      BY <2>4, <2>5, <2>6 DEF Meet, Inside
  <2>8. QED
      BY <1>2, <2>1, <2>2, <2>7 DEF overlapping_periods
<1>3. QED
    BY <1>1, <1>2 DEF LossAndDoublingShown

-----------------------------------------------------------------------------
(* Gaps                                                                    *)

\* A number of a set of numbers is in a run of them that cannot be made longer.
LEMMA RunAround ==
    ASSUME NEW lo \in Nat, NEW hi \in Nat, NEW S \in SUBSET (lo .. hi), NEW n \in S
    PROVE  \E a, b \in S : /\ a <= n /\ n <= b /\ a .. b \subseteq S
                           /\ {a - 1, b + 1} \cap S = {}
<1> DEFINE Up == {k \in 0 .. (hi - n) : n .. (n + k) \subseteq S}
           Down == {k \in 0 .. (n - lo) : (n - k) .. n \subseteq S}
<1>0. n \in Nat /\ lo <= n /\ n <= hi /\ hi - n \in Nat /\ n - lo \in Nat
    OBVIOUS
<1>1. PICK i \in Up : \A k \in Up : k <= i
  <2>1. Up \in SUBSET (0 .. (hi - n)) /\ Up \in SUBSET Int
      OBVIOUS
  <2>2. 0 \in Up
    <3>1. n .. (n + 0) \subseteq S
        BY <1>0
    <3>2. QED
        BY <1>0, <3>1
  <2>3. IsFiniteSet(Up)
    <3>1. PICK c \in Int : c = hi - n
        BY <1>0
    <3>2. IsFiniteSet(0 .. c)
        BY FS_Interval
    <3>3. Up \subseteq 0 .. c
        BY <2>1, <3>1
    <3>4. QED
        BY <3>2, <3>3, FS_Subset
  <2> HIDE DEF Up
  <2>4. QED
      BY <2>1, <2>2, <2>3, GreatestExists
<1>2. PICK j \in Down : \A k \in Down : k <= j
  <2>1. Down \in SUBSET (0 .. (n - lo)) /\ Down \in SUBSET Int
      OBVIOUS
  <2>2. 0 \in Down
    <3>1. (n - 0) .. n \subseteq S
        BY <1>0
    <3>2. QED
        BY <1>0, <3>1
  <2>3. IsFiniteSet(Down)
    <3>1. PICK c \in Int : c = n - lo
        BY <1>0
    <3>2. IsFiniteSet(0 .. c)
        BY FS_Interval
    <3>3. Down \subseteq 0 .. c
        BY <2>1, <3>1
    <3>4. QED
        BY <3>2, <3>3, FS_Subset
  <2> HIDE DEF Down
  <2>4. QED
      BY <2>1, <2>2, <2>3, GreatestExists
<1>3. i \in Nat /\ j \in Nat /\ n .. (n + i) \subseteq S /\ (n - j) .. n \subseteq S
    OBVIOUS
<1>4. PICK a \in Int, b \in Int : a = n - j /\ b = n + i
    BY <1>0, <1>3
<1>5. a \in S /\ b \in S /\ a <= n /\ n <= b
    BY <1>0, <1>3, <1>4
<1>6. a .. b \subseteq S
  <2>1. \A k \in a .. b : k \in (n - j) .. n \/ k \in n .. (n + i)
      BY <1>0, <1>3, <1>4
  <2>2. QED
      BY <1>3, <2>1
<1>7. b + 1 \notin S
  <2>1. SUFFICES ASSUME b + 1 \in S PROVE FALSE
      OBVIOUS
  <2>2. i + 1 \in 0 .. (hi - n)
      BY <1>0, <1>3, <1>4, <2>1
  <2>3. \A k \in n .. (n + (i + 1)) : k \in n .. (n + i) \/ k = b + 1
      BY <1>0, <1>3, <1>4
  <2>4. n .. (n + (i + 1)) \subseteq S
      BY <1>3, <2>1, <2>3
  <2>5. i + 1 \in Up
      BY <2>2, <2>4
  <2>6. QED
      BY <1>1, <1>3, <2>5
<1>8. a - 1 \notin S
  <2>1. SUFFICES ASSUME a - 1 \in S PROVE FALSE
      OBVIOUS
  <2>2. j + 1 \in 0 .. (n - lo)
      BY <1>0, <1>3, <1>4, <2>1
  <2>3. \A k \in (n - (j + 1)) .. n : k \in (n - j) .. n \/ k = a - 1
      BY <1>0, <1>3, <1>4
  <2>4. (n - (j + 1)) .. n \subseteq S
      BY <1>3, <2>1, <2>3
  <2>5. j + 1 \in Down
      BY <2>2, <2>4
  <2>6. QED
      BY <1>2, <1>3, <2>5
<1>9. {a - 1, b + 1} \cap S = {}
    BY <1>7, <1>8
<1>10. QED
    BY <1>5, <1>6, <1>9

\* The gaps of a window with lines in some months.
GapsOf(w, present) ==
    LET missing == MonthsOf(w) \ present
    IN  {<<Later(FirstDay(r[1]), w[1]), Earlier(LastDay(r[2]), w[2])>> : r \in
            {r \in missing \X missing : /\ r[1] <= r[2] /\ r[1] .. r[2] \subseteq missing
                                       /\ {r[1] - 1, r[2] + 1} \cap missing = {}}}

\* A day is in a gap just when it is in the window and its month has no line.
LEMMA GapsTell ==
    ASSUME NEW w, NEW y, IsWindow(y, w), NEW present, NEW gaps, NEW d, IsDate(d),
           gaps = GapsOf(w, present)
    PROVE  (\E g \in gaps : Inside(d, g)) <=> Inside(d, w) /\ MonthNo(d) \notin present
<1> DEFINE missing == MonthsOf(w) \ present
           runs == {r \in missing \X missing :
                       /\ r[1] <= r[2] /\ r[1] .. r[2] \subseteq missing
                       /\ {r[1] - 1, r[2] + 1} \cap missing = {}}
           Gap(r) == <<Later(FirstDay(r[1]), w[1]), Earlier(LastDay(r[2]), w[2])>>
<1>0. PICK lo \in Nat, hi \in Nat, from \in Nat, to \in Nat, n \in Nat :
          /\ lo = MonthNo(w[1]) /\ hi = MonthNo(w[2]) /\ from = w[1] /\ to = w[2]
          /\ n = MonthNo(d)
    BY WindowFacts, MonthNumber
<1>1. MonthsOf(w) = lo .. hi /\ lo >= 13 /\ from <= to
    BY <1>0, WindowFacts DEF MonthsOf
<1>2. d \in Nat
    BY MonthNumber
<1>3. \A k \in lo .. hi : /\ FirstDay(k) \in Nat /\ LastDay(k) \in Nat
                          /\ FirstDay(k) <= d <=> k <= n
                          /\ d <= LastDay(k) <=> n <= k
  <2>1. TAKE k \in lo .. hi
  <2>2. k \in Nat /\ k >= 13
      BY <1>1
  <2>3. FirstDay(k) \in Nat /\ LastDay(k) \in Nat
      BY <2>2, MonthDays, MonthNumber
  <2>4. QED
      BY <1>0, <2>2, <2>3, MonthBounds
<1>4. missing \subseteq lo .. hi
    BY <1>1
<1>5. \A a, b \in missing :
          Inside(d, Gap(<<a, b>>)) <=> a <= n /\ n <= b /\ from <= d /\ d <= to
  <2> HIDE DEF missing
  <2>1. TAKE a, b \in missing
  <2>2. PICK f \in Nat, l \in Nat : f = FirstDay(a) /\ l = LastDay(b)
      BY <1>3, <1>4
  <2>3. (f <= d <=> a <= n) /\ (d <= l <=> n <= b)
      BY <1>3, <1>4, <2>2
  <2>4. Gap(<<a, b>>) = <<Later(f, from), Earlier(l, to)>>
      BY <1>0, <2>2
  <2> HIDE DEF Gap
  <2>5. QED
      BY <1>2, <2>3, <2>4 DEF Inside, Later, Earlier
<1>6. gaps = {Gap(r) : r \in runs}
    BY DEF GapsOf
<1>7. ASSUME NEW g \in gaps, Inside(d, g)
      PROVE  Inside(d, w) /\ n \notin present
  <2>1. PICK r \in runs : g = Gap(r)
      BY <1>6
  <2>2. PICK a \in missing, b \in missing : r = <<a, b>> /\ a .. b \subseteq missing
      OBVIOUS
  <2>3. Inside(d, Gap(<<a, b>>))
      BY <1>7, <2>1, <2>2
  <2> HIDE DEF Gap, runs
  <2>4. a <= n /\ n <= b /\ from <= d /\ d <= to
      BY <1>5, <2>3
  <2>5. a \in Nat /\ b \in Nat
      BY <1>4
  <2>6. n \in a .. b
      BY <2>4, <2>5
  <2>7. QED
      BY <1>0, <2>2, <2>4, <2>6 DEF Inside
<1>8. ASSUME Inside(d, w), n \notin present
      PROVE  \E g \in gaps : Inside(d, g)
  <2>1. from <= d /\ d <= to
      BY <1>0, <1>8 DEF Inside
  <2>2. lo <= n /\ n <= hi
      BY <1>0, <2>1, MonthsInOrder, WindowFacts
  <2>3. n \in missing
      BY <1>1, <1>8, <2>2
  <2>4. PICK a, b \in missing : /\ a <= n /\ n <= b /\ a .. b \subseteq missing
                                /\ {a - 1, b + 1} \cap missing = {}
    <3> HIDE DEF missing
    <3>1. QED
        BY <1>4, <2>3, RunAround
  <2>5. Inside(d, Gap(<<a, b>>))
    <3> HIDE DEF missing, Gap
    <3>1. QED
        BY <1>5, <2>1, <2>4
  <2>6. a <= b
    <3>1. a \in Nat /\ b \in Nat
        BY <1>4, <2>4
    <3>2. QED
        BY <2>4, <3>1
  <2>7. <<a, b>> \in runs
      BY <2>4, <2>6
  <2>8. Gap(<<a, b>>) \in gaps
      BY <1>6, <2>7
  <2>9. QED
      BY <2>5, <2>8
<1>9. QED
    BY <1>0, <1>7, <1>8

LEMMA GapsFromInv == PeriodsInv => GapsAreTheEmptyMonths
<1> SUFFICES ASSUME PeriodsInv PROVE GapsAreTheEmptyMonths
    OBVIOUS
<1>1. SUFFICES
          ASSUME NEW y \in Label, NEW w, w = periods[y].window, w # NoWindow,
                 NEW dated, dated = {l \in declaration_scope(y) : l[2] # NoDate}, dated # {},
                 NEW d, d \in {FirstDay(n) : n \in MonthsOf(w)} \cup {LastDay(n) : n \in MonthsOf(w)}
                                  \cup {w[1], w[2]}
          PROVE  (\E g \in coverage_gaps(y) : Inside(d, g)) <=>
                     Inside(d, w) /\ \A l \in dated : MonthNo(l[2]) # MonthNo(d)
    BY Zenon DEF GapsAreTheEmptyMonths
<1>2. IsWindow(y, w)
    BY <1>1 DEF PeriodsInv
<1>3. IsDate(d)
  <2>1. IsDate(w[1]) /\ IsDate(w[2])
      BY <1>2, WindowFacts
  <2>2. ASSUME NEW n \in MonthsOf(w) PROVE IsDate(FirstDay(n)) /\ IsDate(LastDay(n))
    <3>1. PICK lo \in Nat, hi \in Nat : lo = MonthNo(w[1]) /\ hi = MonthNo(w[2]) /\ lo >= 13
        BY <1>2, WindowFacts
    <3>2. n \in lo .. hi
        BY <3>1 DEF MonthsOf
    <3>3. n \in Nat /\ n >= 13
        BY <3>1, <3>2
    <3>4. QED
        BY <3>3, MonthDays
  <2>3. QED
      BY <1>1, <2>1, <2>2
<1>4. PICK present : present = {MonthNo(l[2]) : l \in dated}
    OBVIOUS
<1>5. present # {}
    BY <1>1, <1>4
<1>6. coverage_gaps(y) = GapsOf(w, present)
  <2>1. present = {MonthNo(l[2]) : l \in {x \in declaration_scope(y) : x[2] # NoDate}}
      BY <1>1, <1>4
  <2>2. QED
      BY <1>1, <1>5, <2>1, Zenon DEF coverage_gaps, GapsOf
<1>7. PICK gaps : gaps = coverage_gaps(y)
    OBVIOUS
<1>8. (\E g \in gaps : Inside(d, g)) <=> Inside(d, w) /\ MonthNo(d) \notin present
    BY <1>2, <1>3, <1>6, <1>7, GapsTell
<1>9. MonthNo(d) \notin present <=> \A l \in dated : MonthNo(l[2]) # MonthNo(d)
    BY <1>4
<1>10. QED
    BY <1>7, <1>8, <1>9

-----------------------------------------------------------------------------
(* The years of an audit                                                   *)

\* The five years before a decision.
LEMMA AuditFacts ==
    ASSUME NEW a, NEW d \in Decision, a = audit_window(d)
    PROVE  /\ a[2] = d /\ IsDate(a[1]) /\ IsDate(a[2]) /\ a[1] \in Nat /\ a[2] \in Nat
           /\ a[1] <= a[2] /\ MonthNo(a[1]) \in Nat /\ MonthNo(a[2]) = MonthNo(a[1]) + 60
           /\ YearOf(a[1]) > 1
<1>1. IsDate(d) /\ YearOf(d) > AUDIT_YEARS + 1
    BY PeriodsAssumption
<1>2. PICK b : b = _minus_years(d, AUDIT_YEARS)
    OBVIOUS
<1>3. IsDate(b) /\ b <= d /\ MonthNo(d) = MonthNo(b) + 60 /\ YearOf(b) > 1
    BY <1>1, <1>2, AuditStart
<1>4. b \in Nat /\ d \in Nat /\ MonthNo(b) \in Nat
    BY <1>1, <1>3, MonthNumber
<1>5. a[1] = b /\ a[2] = d
    BY <1>2 DEF audit_window
<1>6. QED
    BY <1>1, <1>3, <1>4, <1>5

\* A set of dates has a first and a last one.
LEMMA FirstAndLast ==
    ASSUME NEW dates \in SUBSET Nat, IsFiniteSet(dates), dates # {}
    PROVE  /\ \E d \in dates : \A e \in dates : d <= e
           /\ \E d \in dates : \A e \in dates : e <= d
<1>1. PICK last \in dates : \A e \in dates : e <= last
    BY GreatestExists
<1>2. PICK below : below = {last - e : e \in dates}
    OBVIOUS
<1>3. below \in SUBSET Int /\ below # {}
    BY <1>2
<1>4. IsFiniteSet(below)
  <2>1. PICK f : f = [e \in dates |-> last - e]
      OBVIOUS
  <2>2. f \in Surjection(dates, below)
      BY <1>2, <2>1 DEF Surjection
  <2>3. QED
      BY <2>2, FS_Surjection
<1>5. PICK m \in below : \A k \in below : k <= m
    BY <1>3, <1>4, GreatestExists
<1>6. PICK first \in dates : m = last - first
    BY <1>2
<1>7. \A e \in dates : first <= e
  <2>1. TAKE e \in dates
  <2>2. last - e <= m
      BY <1>2, <1>5
  <2>3. first \in Nat /\ e \in Nat /\ last \in Nat
      OBVIOUS
  <2>4. QED
      BY <1>6, <2>2, <2>3
<1>8. QED
    BY <1>1, <1>7

\* How dates stand to the years of an audit, all of them asked.
TrueTag(a, dates) ==
    CASE \A d \in dates : ~Inside(d, a) -> "outside"
      [] \A d \in dates : Inside(d, a) -> "none"
      [] OTHER -> "partial"

\* Dates of fifteen months that are not all inside an audit or all outside
\* it reach over one of its ends, and only one.
LEMMA TagTells ==
    ASSUME NEW a, NEW decided \in Decision, a = audit_window(decided), NEW y, NEW w, IsWindow(y, w),
           NEW dates, IsFiniteSet(dates), dates # {},
           \A d \in dates : IsDate(d) /\ Inside(d, w), NEW status
    PROVE  finding_scope_tag(a, dates, status) = TrueTag(a, dates)
<1>1. dates \in SUBSET Nat
    BY MonthNumber
<1>2. PICK first : first = CHOOSE d \in dates : \A e \in dates : d <= e
    OBVIOUS
<1>3. PICK last : last = CHOOSE d \in dates : \A e \in dates : e <= d
    OBVIOUS
<1>4. first \in dates /\ last \in dates /\ \A e \in dates : first <= e /\ e <= last
    BY <1>1, <1>2, <1>3, FirstAndLast
<1>5. PICK from \in Nat, to \in Nat : from = a[1] /\ to = a[2] /\ from <= to
    BY AuditFacts
<1>6. first \in Nat /\ last \in Nat /\ first <= last
    BY <1>1, <1>4
<1>7. \A d \in dates : d \in Nat /\ first <= d /\ d <= last
    BY <1>1, <1>4
<1>8. \A d \in dates : Inside(d, a) <=> from <= d /\ d <= to
    BY <1>5 DEF Inside
<1>9. ~(first < from /\ to < last)
  <2>1. SUFFICES ASSUME first < from, to < last PROVE FALSE
      OBVIOUS
  <2>2. PICK f \in Nat, l \in Nat, s \in Nat, t \in Nat :
            /\ f = MonthNo(first) /\ l = MonthNo(last) /\ s = MonthNo(a[1]) /\ t = MonthNo(a[2])
      BY <1>4, AuditFacts, MonthNumber
  <2>3. t = s + 60
      BY <2>2, AuditFacts
  <2>4. f <= s /\ t <= l
    <3>1. IsDate(first) /\ IsDate(last) /\ IsDate(a[1]) /\ IsDate(a[2])
        BY <1>4, AuditFacts
    <3>2. first <= a[1] /\ a[2] <= last
        BY <1>5, <1>6, <2>1
    <3>3. QED
        BY <2>2, <3>1, <3>2, MonthsInOrder
  <2>5. PICK b \in Nat, c \in Nat : b = MonthNo(w[1]) /\ c = MonthNo(w[2]) /\ c <= b + 14
      BY WindowFacts
  <2>6. b <= f /\ l <= c
    <3>1. IsDate(first) /\ IsDate(last) /\ IsDate(w[1]) /\ IsDate(w[2])
        BY <1>4, WindowFacts
    <3>2. w[1] <= first /\ last <= w[2]
        BY <1>4 DEF Inside
    <3>3. QED
        BY <2>2, <2>5, <3>1, <3>2, MonthsInOrder
  <2>7. QED
      BY <2>3, <2>4, <2>5, <2>6
<1>10. Meet(a, <<first, last>>) <=> from <= last /\ first <= to
    BY <1>5 DEF Meet
<1>11. finding_scope_tag(a, dates, status) =
           IF ~(from <= last /\ first <= to) THEN "outside"
           ELSE IF first < from \/ last > to THEN "partial" ELSE "none"
    BY <1>2, <1>3, <1>5, <1>10, Zenon DEF finding_scope_tag
<1>12. (\A d \in dates : ~Inside(d, a)) <=> ~(from <= last /\ first <= to)
  <2>1. ASSUME ~(from <= last /\ first <= to), NEW d \in dates PROVE ~Inside(d, a)
      BY <1>5, <1>6, <1>7, <1>8, <2>1
  <2>2. ASSUME from <= last, first <= to PROVE \E d \in dates : Inside(d, a)
    <3>1. from <= first \/ last <= to
        BY <1>5, <1>6, <1>9
    <3>2. Inside(first, a) \/ Inside(last, a)
        BY <1>4, <1>8, <2>2, <3>1
    <3>3. QED
        BY <1>4, <3>2
  <2>3. QED
      BY <2>1, <2>2
<1>13. (\A d \in dates : Inside(d, a)) <=> from <= first /\ last <= to
  <2>1. ASSUME \A d \in dates : Inside(d, a) PROVE from <= first /\ last <= to
      BY <1>4, <1>8, <2>1
  <2>2. ASSUME from <= first, last <= to, NEW d \in dates PROVE Inside(d, a)
      BY <1>5, <1>6, <1>7, <1>8, <2>2
  <2>3. QED
      BY <2>1, <2>2
<1>14. CASE ~(from <= last /\ first <= to)
    BY <1>11, <1>12, <1>14 DEF TrueTag
<1>15. CASE from <= last /\ first <= to
  <2>1. ~(\A d \in dates : ~Inside(d, a))
      BY <1>12, <1>15
  <2>2. CASE from <= first /\ last <= to
    <3>1. finding_scope_tag(a, dates, status) = "none"
        BY <1>5, <1>6, <1>11, <1>15, <2>2
    <3>2. \A d \in dates : Inside(d, a)
        BY <1>13, <2>2
    <3>3. QED
        BY <2>1, <3>1, <3>2 DEF TrueTag
  <2>3. CASE ~(from <= first /\ last <= to)
    <3>1. finding_scope_tag(a, dates, status) = "partial"
        BY <1>5, <1>6, <1>11, <1>15, <2>3
    <3>2. ~(\A d \in dates : Inside(d, a))
        BY <1>13, <2>3
    <3>3. QED
        BY <2>1, <3>1, <3>2 DEF TrueTag
  <2>4. QED
      BY <2>2, <2>3
<1>16. QED
    BY <1>14, <1>15

LEMMA TagsFromInv == PeriodsInv => TagsTellTrue
<1> SUFFICES ASSUME PeriodsInv PROVE TagsTellTrue
    OBVIOUS
<1>1. SUFFICES
          ASSUME decision # NoDate, NEW a, a = audit_window(decision), NEW y \in Label,
                 NEW status, status = classify_period(a, WindowOf(y))
          PROVE  \A dates \in (SUBSET {l[2] : l \in declaration_scope(y)}) \ {{}} :
                     NoDate \notin dates =>
                         finding_scope_tag(a, dates, status) =
                             (CASE \A d \in dates : ~Inside(d, a) -> "outside"
                                [] \A d \in dates : Inside(d, a) -> "none"
                                [] OTHER -> "partial")
    BY DEF TagsTellTrue
<1>2. SUFFICES
          ASSUME NEW dates \in (SUBSET {l[2] : l \in declaration_scope(y)}) \ {{}},
                 NoDate \notin dates
          PROVE  finding_scope_tag(a, dates, status) =
                     (CASE \A d \in dates : ~Inside(d, a) -> "outside"
                        [] \A d \in dates : Inside(d, a) -> "none"
                        [] OTHER -> "partial")
    OBVIOUS
<1>3. decision \in Decision
    BY <1>1 DEF PeriodsInv
<1>4. IsWindow(y, effective_window(y))
    BY EffectiveIsWindow
<1>5. \A d \in dates : d \in LineDate /\ IsDate(d) /\ Inside(d, effective_window(y))
  <2>1. TAKE d \in dates
  <2>2. PICK l \in declaration_scope(y) : d = l[2]
      OBVIOUS
  <2>3. l \in lines
      BY DEF declaration_scope
  <2>4. d # NoDate
      BY <1>2
  <2>5. QED
      BY <2>2, <2>3, <2>4, LineDates, LineInScope
<1>6. IsFiniteSet(dates)
  <2>1. dates \subseteq LineDate /\ IsFiniteSet(LineDate)
      BY <1>5, PeriodsAssumption
  <2>2. QED
      BY <2>1, FS_Subset
<1>7. dates # {} /\ \A d \in dates : IsDate(d) /\ Inside(d, effective_window(y))
    BY <1>2, <1>5
<1>8. finding_scope_tag(a, dates, status) = TrueTag(a, dates)
    BY <1>1, <1>3, <1>4, <1>6, <1>7, TagTells
<1>9. QED
    BY <1>8, Zenon DEF TrueTag

-----------------------------------------------------------------------------
(* Periods tile                                                            *)

LEMMA OnePeriodFromInv == PeriodsInv => LinesInOnePeriod
<1> SUFFICES ASSUME PeriodsInv, Regular, NEW l \in lines, l[2] # NoDate
             PROVE  {y \in Label : l \in declaration_scope(y)}
                        = {label_year_of(l[2], fiscal)} \cap Label
    BY DEF LinesInOnePeriod
<1>1. ASSUME NEW y \in Label
      PROVE  l \in declaration_scope(y) <=> y = label_year_of(l[2], fiscal)
  <2>1. l \in declaration_scope(y) <=> Inside(l[2], fiscal_bounds(y, fiscal))
      BY LineInScope, RegularIsFiscal
  <2>2. IsDate(l[2]) /\ fiscal \in 1 .. 12 /\ y \in Nat /\ y > 0
      BY LineDates, LabelsAreYears DEF PeriodsInv, FISCAL_START_MONTHS
  <2>3. QED
      BY <2>1, <2>2, FiscalYearOf
<1>2. QED
    BY <1>1

LEMMA AuditFromInv == PeriodsInv => AuditYearsCovered
<1> SUFFICES ASSUME PeriodsInv PROVE AuditYearsCovered
    OBVIOUS
<1>1. SUFFICES
          ASSUME Regular, decision # NoDate, NEW a, a = audit_window(decision),
                 NEW d, d \in {a[1], a[2]} \cup {x \in LineDate : Inside(x, a)}
          PROVE  \E w \in {WindowOf(y) : y \in scope_coverage} : Inside(d, w)
    BY Zenon DEF AuditYearsCovered
<1>2. decision \in Decision
    BY <1>1 DEF PeriodsInv
<1>3. PICK from \in Nat, to \in Nat :
          /\ from = a[1] /\ to = a[2] /\ from <= to /\ IsDate(from) /\ IsDate(to)
          /\ YearOf(from) > 1
    BY <1>1, <1>2, AuditFacts
<1>4. IsDate(d) /\ from <= d /\ d <= to
  <2>1. CASE d \in {a[1], a[2]}
      BY <1>3, <2>1
  <2>2. CASE d \in LineDate /\ Inside(d, a)
    <3>1. from <= d /\ d <= to
        BY <1>3, <2>2 DEF Inside
    <3>2. d # NoDate
      <4>1. from # 0
          BY <1>3, MonthNumber DEF NoDate
      <4>2. QED
          BY <1>3, <3>1, <4>1 DEF NoDate
    <3>3. QED
        BY <2>2, <3>1, <3>2, PeriodsAssumption
  <2>3. QED
      BY <1>1, <2>1, <2>2
<1>5. fiscal \in 1 .. 12
    BY DEF PeriodsInv, FISCAL_START_MONTHS
<1>6. PICK y : y = label_year_of(d, fiscal)
    OBVIOUS
<1>7. /\ y \in label_year_of(from, fiscal) .. label_year_of(to, fiscal)
      /\ y \in Nat /\ label_year_of(from, fiscal) <= y /\ label_year_of(from, fiscal) \in Nat
    BY <1>3, <1>4, <1>5, <1>6, FiscalYearsInOrder
<1>8. label_year_of(from, fiscal) > 0
  <2>1. YearOf(from) \in Nat
      BY <1>3, MonthNumber
  <2>2. QED
      BY <1>3, <2>1 DEF label_year_of
<1>9. y > 0
    BY <1>7, <1>8
<1>10. WindowOf(y) = fiscal_bounds(y, fiscal)
    BY <1>1, RegularIsFiscal DEF WindowOf
<1>11. Inside(d, WindowOf(y))
    BY <1>4, <1>5, <1>6, <1>7, <1>9, <1>10, FiscalYearOf
<1>12. classify_period(a, WindowOf(y)) # "outside"
  <2>1. PICK v \in Nat, w \in Nat : v = WindowOf(y)[1] /\ w = WindowOf(y)[2]
      BY <1>5, <1>7, <1>9, <1>10, FiscalIsWindow, WindowFacts
  <2>2. d \in Nat /\ v <= d /\ d <= w
      BY <1>4, <1>11, <2>1, MonthNumber DEF Inside
  <2>3. Meet(a, WindowOf(y))
      BY <1>3, <1>4, <2>1, <2>2 DEF Meet
  <2>4. QED
      BY <2>3 DEF classify_period
<1>13. y \in scope_coverage
  <2>1. scope_coverage =
            {x \in (label_year_of(a[1], fiscal) .. label_year_of(a[2], fiscal))
                       \cup {z \in Label : periods[z].stored} :
                classify_period(a, WindowOf(x)) # "outside"}
      BY <1>1, Zenon DEF scope_coverage
  <2>2. QED
      BY <1>3, <1>7, <1>12, <2>1
<1>14. QED
    BY <1>11, <1>13

\* A period's window is usable for its label, however it came to be stored.
THEOREM WindowsStayUsable == PeriodsSpec => [](PeriodsTypeOK /\ WindowsUsable)
<1>1. PeriodsInv => PeriodsTypeOK /\ WindowsUsable
    BY TypeFromInv, UsableFromInv
<1>2. QED
    BY <1>1, PeriodsInvariant, PTL

\* While the page shows nothing unusual, every dated line counts in the period
\* of its fiscal year and an audit finds a period for every day it covers.
THEOREM PeriodsDoTile == PeriodsSpec => []PeriodsTile
<1>1. PeriodsInv => PeriodsTile
    BY OnePeriodFromInv, AuditFromInv DEF PeriodsTile
<1>2. QED
    BY <1>1, PeriodsInvariant, PTL

\* Whatever the windows are, the coverage panel tells of every line lost or
\* counted twice and of just the months without lines, and tags tell the truth.
THEOREM CoverageIsTrue == PeriodsSpec => []CoverageTellsAll
<1>1. PeriodsInv => CoverageTellsAll
    BY ShownFromInv, GapsFromInv, TagsFromInv DEF CoverageTellsAll
<1>2. QED
    BY <1>1, PeriodsInvariant, PTL

-----------------------------------------------------------------------------
(* The limits of a draft.  Served is a recursive function over the calls of *)
(* a turn: what it does is proved by the least number of calls at which it  *)
(* would fail.                                                              *)

\* Calls spent on exploring and on submitting.
Spent == [explore : Nat, submit : Nat]
Budget == [uses : Spent, refused : BOOLEAN, final : BOOLEAN]

\* Served, with names for its parts: one call, and the calls in order.
Serve(b, call) ==
    LET tool == IF call = "explore" THEN "explore" ELSE "submit"
    IN  IF b.final \/ call = "noise" THEN b
        ELSE IF ~Allowed(b.uses, tool) THEN [b EXCEPT !.refused = TRUE]
        ELSE [b EXCEPT !.uses[tool] = @ + 1, !.final = (call = "submit")]
Fresh(uses) == [uses |-> uses, refused |-> FALSE, final |-> FALSE]
IsServing(g, uses, calls, n) ==
    g = [i \in 0 .. n |-> IF i = 0 THEN Fresh(uses) ELSE Serve(g[i - 1], calls[i])]

LEMMA ServedIs ==
    ASSUME NEW uses, NEW calls
    PROVE  Served(uses, calls) = (CHOOSE g : IsServing(g, uses, calls, Len(calls)))[Len(calls)]
BY Zenon DEF Served, IsServing, Serve, Fresh

\* There is such a function: a least number of calls without one would follow
\* one that has it.
LEMMA ServingExists ==
    ASSUME NEW uses, NEW calls, NEW n \in Nat
    PROVE  \E g : IsServing(g, uses, calls, n)
<1> DEFINE S == {k \in 0 .. n : ~\E g : IsServing(g, uses, calls, k)}
<1>1. SUFFICES ASSUME S # {} PROVE FALSE
    OBVIOUS
<1>2. PICK k \in S : \A j \in S : k <= j
  <2>1. S \in SUBSET (0 .. n)
      OBVIOUS
  <2> HIDE DEF S
  <2>2. QED
      BY <1>1, <2>1, LeastUpTo
<1>3. k \in 0 .. n /\ ~\E g : IsServing(g, uses, calls, k)
    OBVIOUS
<1>4. CASE k = 0
  <2>1. PICK h : h = [i \in 0 .. 0 |-> Fresh(uses)]
      OBVIOUS
  <2>2. h = [i \in 0 .. 0 |-> IF i = 0 THEN Fresh(uses) ELSE Serve(h[i - 1], calls[i])]
      BY <2>1
  <2>3. IsServing(h, uses, calls, k)
      BY <1>4, <2>2 DEF IsServing
  <2>4. QED
      BY <1>3, <2>3
<1>5. CASE k # 0
  <2>1. k - 1 \in 0 .. n /\ ~(k <= k - 1)
      BY <1>3, <1>5
  <2>2. k - 1 \notin S
      BY <1>2, <2>1
  <2>3. PICK h : IsServing(h, uses, calls, k - 1)
      BY <2>1, <2>2
  <2>4. h = [i \in 0 .. k - 1 |-> IF i = 0 THEN Fresh(uses) ELSE Serve(h[i - 1], calls[i])]
      BY <2>3 DEF IsServing
  <2>5. PICK last : last = Serve(h[k - 1], calls[k])
      OBVIOUS
  <2>6. PICK g : g = [i \in 0 .. k |-> IF i = k THEN last ELSE h[i]]
      OBVIOUS
  <2>7. \A i \in 0 .. k - 1 : g[i] = h[i]
      BY <1>3, <2>6
  <2>8. ASSUME NEW i \in 0 .. k
        PROVE  g[i] = IF i = 0 THEN Fresh(uses) ELSE Serve(g[i - 1], calls[i])
    <3>1. CASE i = k
      <4>1. i # 0 /\ i - 1 \in 0 .. k - 1
          BY <1>3, <1>5, <3>1
      <4>2. g[i - 1] = h[k - 1]
          BY <2>7, <3>1, <4>1
      <4>3. QED
          BY <2>5, <2>6, <3>1, <4>1, <4>2
    <3>2. CASE i = 0
        BY <1>3, <1>5, <2>4, <2>7, <3>2
    <3>3. CASE i # k /\ i # 0
      <4>1. i \in 0 .. k - 1 /\ i - 1 \in 0 .. k - 1
          BY <1>3, <2>8, <3>3
      <4>2. h[i] = Serve(h[i - 1], calls[i])
          BY <2>4, <3>3, <4>1
      <4>3. QED
          BY <2>7, <3>3, <4>1, <4>2
    <3>4. QED
        BY <3>1, <3>2, <3>3
  <2>9. DOMAIN g = 0 .. k /\ g = [i \in 0 .. k |-> g[i]]
      BY <2>6
  <2>10. g = [i \in 0 .. k |-> IF i = 0 THEN Fresh(uses) ELSE Serve(g[i - 1], calls[i])]
      BY <2>8, <2>9
  <2>11. IsServing(g, uses, calls, k)
      BY <2>10 DEF IsServing
  <2>12. QED
      BY <1>3, <2>11
<1>6. QED
    BY <1>4, <1>5

LEMMA ServeTyped ==
    ASSUME NEW b \in Budget, NEW call
    PROVE  Serve(b, call) \in Budget
<1>1. b.uses \in Spent /\ b.uses.explore \in Nat /\ b.uses.submit \in Nat
    BY DEF Budget, Spent
<1>2. CASE b.final \/ call = "noise"
    BY <1>2 DEF Serve
<1>3. CASE ~(b.final \/ call = "noise") /\ call = "explore"
  <2>1. Serve(b, call) = IF ~Allowed(b.uses, "explore") THEN [b EXCEPT !.refused = TRUE]
                         ELSE [b EXCEPT !.uses["explore"] = @ + 1, !.final = (call = "submit")]
      BY <1>3 DEF Serve
  <2>2. PICK u : u = [b.uses EXCEPT !["explore"] = @ + 1]
      OBVIOUS
  <2>3. u \in Spent
    <3>1. DOMAIN u = {"explore", "submit"} /\ u = [explore |-> u.explore, submit |-> u.submit]
        BY <1>1, <2>2 DEF Spent
    <3>2. u.explore \in Nat /\ u.submit \in Nat
        BY <1>1, <2>2 DEF Spent
    <3>3. QED
        BY <3>1, <3>2 DEF Spent
  <2>4. Serve(b, call) = IF ~Allowed(b.uses, "explore") THEN [b EXCEPT !.refused = TRUE]
                         ELSE [b EXCEPT !.uses = u, !.final = (call = "submit")]
      BY <2>1, <2>2 DEF Budget
  <2>5. QED
      BY <2>3, <2>4 DEF Budget
<1>4. CASE ~(b.final \/ call = "noise") /\ call # "explore"
  <2>1. Serve(b, call) = IF ~Allowed(b.uses, "submit") THEN [b EXCEPT !.refused = TRUE]
                         ELSE [b EXCEPT !.uses["submit"] = @ + 1, !.final = (call = "submit")]
      BY <1>4 DEF Serve
  <2>2. PICK u : u = [b.uses EXCEPT !["submit"] = @ + 1]
      OBVIOUS
  <2>3. u \in Spent
    <3>1. DOMAIN u = {"explore", "submit"} /\ u = [explore |-> u.explore, submit |-> u.submit]
        BY <1>1, <2>2 DEF Spent
    <3>2. u.explore \in Nat /\ u.submit \in Nat
        BY <1>1, <2>2 DEF Spent
    <3>3. QED
        BY <3>1, <3>2 DEF Spent
  <2>4. Serve(b, call) = IF ~Allowed(b.uses, "submit") THEN [b EXCEPT !.refused = TRUE]
                         ELSE [b EXCEPT !.uses = u, !.final = (call = "submit")]
      BY <2>1, <2>2 DEF Budget
  <2>5. QED
      BY <2>3, <2>4 DEF Budget
<1>5. QED
    BY <1>2, <1>3, <1>4

\* What is left of a budget is a budget, whatever was called.
LEMMA ServedTyped ==
    ASSUME NEW uses \in Spent, NEW calls, Len(calls) \in Nat
    PROVE  Served(uses, calls) \in Budget
<1>1. PICK n \in Nat : n = Len(calls)
    OBVIOUS
<1>2. PICK g : g = CHOOSE h : IsServing(h, uses, calls, n)
    OBVIOUS
<1>3. IsServing(g, uses, calls, n)
    BY <1>2, ServingExists
<1>4. \A i \in 0 .. n : g[i] = IF i = 0 THEN Fresh(uses) ELSE Serve(g[i - 1], calls[i])
    BY <1>3 DEF IsServing
<1> DEFINE S == {k \in 0 .. n : g[k] \notin Budget}
<1>5. S = {}
  <2>1. SUFFICES ASSUME S # {} PROVE FALSE
      OBVIOUS
  <2>2. PICK k \in S : \A j \in S : k <= j
    <3>1. S \in SUBSET (0 .. n)
        OBVIOUS
    <3> HIDE DEF S
    <3>2. QED
        BY <2>1, <3>1, LeastUpTo
  <2>3. k \in 0 .. n /\ g[k] \notin Budget
      OBVIOUS
  <2>4. k # 0
    <3>1. Fresh(uses) \in Budget
        BY DEF Fresh, Budget
    <3>2. QED
        BY <1>4, <2>3, <3>1
  <2>5. k - 1 \in 0 .. n /\ ~(k <= k - 1)
      BY <2>3, <2>4
  <2>6. g[k - 1] \in Budget
      BY <2>2, <2>5
  <2>7. g[k] = Serve(g[k - 1], calls[k])
      BY <1>4, <2>3, <2>4
  <2>8. QED
      BY <2>3, <2>6, <2>7, ServeTyped
<1>6. g[n] \in Budget
    BY <1>5
<1>7. QED
    BY <1>1, <1>2, <1>6, ServedIs

\* What an author has used up of turns, attempts and calls.
Within(w) ==
    /\ w.turn \in Nat /\ w.turn < _MAX_TURNS
    /\ w.attempt \in Nat /\ w.attempt <= _DEFAULT_MAX_RETRIES
    /\ w.uses \in Spent /\ Total(w.uses) <= DEFAULT_TOTAL_MAX

LimitsInv ==
    /\ \A a \in Author : Within(author[a])
    /\ Len(definitions) <= MaxDefinitions
    /\ last_run \in [Client -> {"whole", "broken"}]

LEMMA DefsConstants ==
    /\ DEFAULT_TOTAL_MAX \in Nat /\ _MAX_TURNS \in Nat /\ _MAX_TURNS > 0
    /\ _DEFAULT_MAX_RETRIES \in Nat /\ MaxCalls \in Nat /\ MaxDefinitions \in Nat
BY CheckDefsAssumption

LEMMA NothingUsed == NoUses \in Spent /\ Total(NoUses) = 0 /\ Within(Away)
<1>1. NoUses \in Spent /\ Total(NoUses) = 0
    BY DEF NoUses, Spent, Total
<1>2. Away.turn = 0 /\ Away.attempt = 0 /\ Away.uses = NoUses
    BY DEF Away
<1>3. QED
    BY <1>1, <1>2, DefsConstants DEF Within

\* One author moves on.
LEMMA LimitsSet ==
    ASSUME DefsInv, LimitsInv, NEW a \in Author, NEW w, Set(a, w), Within(w),
           Len(definitions') <= MaxDefinitions, UNCHANGED last_run
    PROVE  LimitsInv'
<1>1. author' = [author EXCEPT ![a] = w] /\ DOMAIN author = Author
    BY DEF Set, DefsInv
<1>2. \A b \in Author : Within(author'[b])
    BY <1>1 DEF LimitsInv
<1>3. QED
    BY <1>2 DEF LimitsInv, Within

LEMMA LimitsTurn ==
    ASSUME DefsInv, LimitsInv, NEW a \in Author, NEW calls \in Answers, NEW s \in Snippet,
           Turn(a, calls, s)
    PROVE  LimitsInv'
<1>1. PICK w : w = author[a]
    OBVIOUS
<1>2. w.pc = "drafting" /\ AtWork(w) /\ Within(w) /\ UNCHANGED <<definitions, last_run>>
    BY <1>1 DEF Turn, DefsInv, LimitsInv
<1>3. DOMAIN w = DOMAIN Away
    BY <1>2 DEF AtWork
<1>4. {"turn", "attempt", "uses", "pc", "snippet"} \subseteq DOMAIN w
    BY <1>3 DEF Away
<1>5. Len(calls) \in Nat
  <2>1. PICK n \in 1 .. MaxCalls : calls \in [1 .. n -> {"explore", "submit", "blank", "noise"}]
      BY DEF Answers
  <2>2. n \in Nat
      BY DefsConstants
  <2>3. calls \in Seq({"explore", "submit", "blank", "noise"})
      BY <2>1, <2>2, SeqDef
  <2>4. QED
      BY <2>3, LenProperties
<1>6. PICK end : end = Served(w.uses, calls)
    OBVIOUS
<1>7. end \in Budget
    BY <1>2, <1>5, <1>6, ServedTyped DEF Within
<1>8. PICK used : used = end.uses
    OBVIOUS
<1>9. used \in Spent /\ Total(used) \in Nat
    BY <1>7, <1>8 DEF Budget, Spent, Total
<1>10. \/ Set(a, [w EXCEPT !.pc = "oracle", !.snippet = s, !.turn = 0, !.uses = NoUses])
       \/ Set(a, Away)
       \/ /\ ~(Total(used) >= DEFAULT_TOTAL_MAX) /\ w.turn + 1 # _MAX_TURNS
          /\ Set(a, [w EXCEPT !.turn = @ + 1, !.uses = used])
    BY <1>1, <1>6, <1>8 DEF Turn
<1>11. Len(definitions') <= MaxDefinitions
    BY <1>2 DEF LimitsInv
<1>12. ASSUME NEW v, v = [w EXCEPT !.pc = "oracle", !.snippet = s, !.turn = 0, !.uses = NoUses]
       PROVE  Within(v)
  <2>1. v.turn = 0 /\ v.attempt = w.attempt /\ v.uses = NoUses
      BY <1>4, <1>12
  <2>2. QED
      BY <1>2, <2>1, NothingUsed, DefsConstants DEF Within
<1>13. ASSUME NEW v, v = [w EXCEPT !.turn = @ + 1, !.uses = used],
              ~(Total(used) >= DEFAULT_TOTAL_MAX), w.turn + 1 # _MAX_TURNS
       PROVE  Within(v)
  <2>1. v.turn = w.turn + 1 /\ v.attempt = w.attempt /\ v.uses = used
      BY <1>4, <1>13
  <2>2. v.turn \in Nat /\ v.turn < _MAX_TURNS
      BY <1>2, <1>13, <2>1, DefsConstants DEF Within
  <2>3. Total(v.uses) <= DEFAULT_TOTAL_MAX
      BY <1>9, <1>13, <2>1, DefsConstants
  <2>4. QED
      BY <1>2, <1>9, <2>1, <2>2, <2>3 DEF Within
<1>14. QED
    BY <1>2, <1>10, <1>11, <1>12, <1>13, NothingUsed, LimitsSet

LEMMA LimitsOracle ==
    ASSUME DefsInv, LimitsInv, NEW a \in Author, Oracle(a)
    PROVE  LimitsInv'
<1>1. PICK w : w = author[a]
    OBVIOUS
<1>2. Within(w) /\ UNCHANGED <<definitions, last_run>>
    BY <1>1 DEF Oracle, LimitsInv
<1>3. \/ Set(a, [Away EXCEPT !.pc = "preview", !.snippet = w.snippet])
      \/ Set(a, Away)
      \/ /\ w.attempt # _DEFAULT_MAX_RETRIES
         /\ Set(a, [Away EXCEPT !.pc = "drafting", !.ref = w.ref, !.attempt = w.attempt + 1])
    BY <1>1 DEF Oracle
<1>4. Len(definitions') <= MaxDefinitions
    BY <1>2 DEF LimitsInv
<1>5. Away.turn = 0 /\ Away.attempt = 0 /\ Away.uses = NoUses
    BY DEF Away
<1>6. ASSUME NEW v, v = [Away EXCEPT !.pc = "preview", !.snippet = w.snippet]
      PROVE  Within(v)
  <2>1. v.turn = 0 /\ v.attempt = 0 /\ v.uses = NoUses
      BY <1>5, <1>6
  <2>2. QED
      BY <2>1, NothingUsed, DefsConstants DEF Within
<1>7. ASSUME NEW v, v = [Away EXCEPT !.pc = "drafting", !.ref = w.ref, !.attempt = w.attempt + 1],
             w.attempt # _DEFAULT_MAX_RETRIES
      PROVE  Within(v)
  <2>1. v.turn = 0 /\ v.attempt = w.attempt + 1 /\ v.uses = NoUses
      BY <1>7 DEF Away
  <2>2. v.attempt \in Nat /\ v.attempt <= _DEFAULT_MAX_RETRIES
      BY <1>2, <1>7, <2>1, DefsConstants DEF Within
  <2>3. QED
      BY <2>1, <2>2, NothingUsed, DefsConstants DEF Within
<1>8. QED
    BY <1>2, <1>3, <1>4, <1>6, <1>7, NothingUsed, LimitsSet

LEMMA LimitsSave ==
    ASSUME DefsInv, LimitsInv, NEW a \in Author, Save(a)
    PROVE  LimitsInv'
<1>1. PICK n \in Nat : n = Len(definitions)
    BY DefinitionFacts
<1>2. n < MaxDefinitions /\ Set(a, Away) /\ UNCHANGED last_run
    BY <1>1 DEF Save
<1>3. Len(definitions') <= n + 1
  <2>1. \/ definitions' = definitions
        \/ \E d : definitions' = Append(definitions, d)
      BY DEF Save
  <2>2. ASSUME NEW d, definitions' = Append(definitions, d)
        PROVE  Len(definitions') = n + 1
    <3>1. PICK D : D = Definition \cup {d}
        OBVIOUS
    <3>2. definitions \in Seq(D) /\ d \in D
      <4>1. \A i \in 1 .. n : definitions[i] \in D
          BY <1>1, <3>1, DefinitionFacts
      <4>2. definitions \in [1 .. n -> D]
        <5>1. definitions \in Seq(Definition)
            BY DEF DefsInv
        <5>2. definitions \in [1 .. n -> Definition]
            BY <1>1, <5>1, LenProperties
        <5>3. QED
            BY <4>1, <5>2
      <4>3. QED
          BY <3>1, <4>2, SeqDef
    <3>3. QED
        BY <1>1, <2>2, <3>2, AppendProperties
  <2>3. QED
      BY <1>1, <2>1, <2>2
<1>4. Len(definitions') <= MaxDefinitions
  <2>1. DefsInv'
      BY DefsSave
  <2>2. Len(definitions') \in Nat
      BY <2>1, LenProperties DEF DefsInv
  <2>3. QED
      BY <1>1, <1>2, <1>3, <2>2, DefsConstants
<1>5. QED
    BY <1>2, <1>4, NothingUsed, LimitsSet

LEMMA LimitsInit == CheckDefsInit => LimitsInv
<1> SUFFICES ASSUME CheckDefsInit PROVE LimitsInv
    OBVIOUS
<1>1. /\ definitions = <<>> /\ author = [a \in Author |-> Away]
      /\ last_run = [k \in Client |-> "whole"]
    BY DEF CheckDefsInit
<1>2. Len(<<>>) = 0
    BY EmptySeq
<1>3. QED
    BY <1>1, <1>2, NothingUsed, DefsConstants DEF LimitsInv

LEMMA LimitsNext == DefsInv /\ LimitsInv /\ [CheckDefsNext]_defVars => LimitsInv'
<1> SUFFICES ASSUME DefsInv, LimitsInv, [CheckDefsNext]_defVars PROVE LimitsInv'
    OBVIOUS
<1>1. ASSUME NEW a \in Author, NEW k \in Client, checks_draft(a, k)
      PROVE  LimitsInv'
  <2>1. PICK v : v = [Away EXCEPT !.pc = "drafting", !.ref = k]
      OBVIOUS
  <2>2. v.turn = Away.turn /\ v.attempt = Away.attempt /\ v.uses = Away.uses
      BY <2>1 DEF Away
  <2>3. Within(v)
      BY <2>2, NothingUsed DEF Within
  <2>4. Set(a, v) /\ UNCHANGED <<definitions, last_run>>
      BY <1>1, <2>1 DEF checks_draft
  <2>5. Len(definitions') <= MaxDefinitions
      BY <2>4 DEF LimitsInv
  <2>6. QED
      BY <2>3, <2>4, <2>5, LimitsSet
<1>2. ASSUME NEW a \in Author, DraftFails(a)
      PROVE  LimitsInv'
  <2>1. Set(a, Away) /\ UNCHANGED <<definitions, last_run>>
      BY <1>2 DEF DraftFails
  <2>2. Len(definitions') <= MaxDefinitions
      BY <2>1 DEF LimitsInv
  <2>3. QED
      BY <2>1, <2>2, NothingUsed, LimitsSet
<1>3. ASSUME NEW a \in Author, Post(a)
      PROVE  LimitsInv'
  <2>1. PICK w : w = author[a]
      OBVIOUS
  <2>2. PICK v : v = [w EXCEPT !.pc = "saving", !.code = next_check_code]
      OBVIOUS
  <2>3. AtWork(w) /\ Within(w) /\ Set(a, v) /\ UNCHANGED <<definitions, last_run>>
      BY <1>3, <2>1, <2>2 DEF Post, DefsInv, LimitsInv
  <2>4. {"turn", "attempt", "uses"} \subseteq DOMAIN w
      BY <2>3 DEF AtWork, Away
  <2>5. v.turn = w.turn /\ v.attempt = w.attempt /\ v.uses = w.uses
      BY <2>2, <2>4
  <2>6. Within(v) /\ Len(definitions') <= MaxDefinitions
      BY <2>3, <2>5 DEF Within, LimitsInv
  <2>7. QED
      BY <2>3, <2>6, LimitsSet
<1>4. ASSUME NEW i, NEW st, SetStatus(i, st)
      PROVE  LimitsInv'
  <2>1. definitions \in Seq(Definition) /\ UNCHANGED <<author, last_run>>
      BY <1>4 DEF SetStatus, DefsInv
  <2>2. PICK d : definitions' = [definitions EXCEPT ![i] = d]
      BY <1>4 DEF SetStatus
  <2>3. PICK n \in Nat : n = Len(definitions) /\ DOMAIN definitions = 1 .. n
      BY DefinitionFacts
  <2>4. Len(definitions') = n
    <3>1. definitions' = [definitions EXCEPT ![i] = d] /\ i \in DOMAIN definitions
        BY <1>4, <2>2 DEF SetStatus
    <3>2. PICK D : D = Definition \cup {d}
        OBVIOUS
    <3>3. \A j \in 1 .. n : definitions'[j] \in D
        BY <2>1, <2>3, <3>1, <3>2, DefinitionFacts
    <3>4. DOMAIN definitions' = 1 .. n /\ definitions' = [j \in 1 .. n |-> definitions'[j]]
        BY <2>3, <3>1
    <3>5. definitions' \in [1 .. n -> D]
        BY <3>3, <3>4
    <3>6. definitions' \in Seq(D)
        BY <2>3, <3>5, SeqDef
    <3>7. QED
        BY <2>3, <3>4, <3>6, LenProperties
  <2>5. QED
      BY <2>1, <2>3, <2>4 DEF LimitsInv, Within
<1>5. ASSUME NEW k, NEW only, run_checks(k, only)
      PROVE  LimitsInv'
  <2>1. /\ UNCHANGED <<definitions, author>>
        /\ \E o \in {"whole", "broken"} : last_run' = [last_run EXCEPT ![k] = o]
      BY <1>5 DEF run_checks
  <2>2. QED
      BY <2>1 DEF LimitsInv, Within
<1>6. CASE UNCHANGED defVars
    BY <1>6 DEF defVars, LimitsInv, Within
<1>7. CASE \E a \in Author : Oracle(a) \/ Post(a) \/ Save(a)
    BY <1>3, <1>7, LimitsOracle, LimitsSave
<1>8. CASE \E a \in Author : \E calls \in Answers, s \in Snippet : Turn(a, calls, s)
    BY <1>8, LimitsTurn
<1>9. QED
    BY <1>1, <1>2, <1>4, <1>5, <1>6, <1>7, <1>8 DEF CheckDefsNext

\* However many calls the model makes in a turn, and whatever becomes of them,
\* a draft stays within its turns, its retries and its budget of tool calls
\* (spec_gen's loop and its Budget), and the list of checks within its size.
THEOREM DraftsEnd == CheckDefsSpec => []CheckDefsTypeOK
<1>1. CheckDefsInit => DefsInv /\ LimitsInv
    BY DefsInit, LimitsInit
<1>2. DefsInv /\ LimitsInv /\ [CheckDefsNext]_defVars => DefsInv' /\ LimitsInv'
    BY DefsNext, LimitsNext
<1>3. DefsInv /\ LimitsInv => CheckDefsTypeOK
  <2>1. SUFFICES ASSUME DefsInv, LimitsInv PROVE CheckDefsTypeOK
      OBVIOUS
  <2>2. PICK n \in Nat : n = Len(definitions) /\ DOMAIN definitions = 1 .. n
      BY DefinitionFacts
  <2>3. n <= MaxDefinitions
      BY <2>1, <2>2 DEF LimitsInv
  <2>4. ASSUME NEW i \in DOMAIN definitions
        PROVE  /\ definitions[i].code \in 1 .. MaxDefinitions /\ definitions[i].snippet \in Snippet
               /\ definitions[i].status \in {"draft", "published", "disabled"}
    <3>1. definitions[i] \in Definition /\ definitions[i].code = i
        BY <2>1, DefinitionFacts DEF DefsInv
    <3>2. i \in 1 .. MaxDefinitions
        BY <2>2, <2>3, <2>4, DefsConstants
    <3>3. QED
        BY <3>1, <3>2 DEF Definition
  <2>5. QED
      BY <2>1, <2>4 DEF LimitsInv, Within, CheckDefsTypeOK
<1>4. QED
    BY <1>1, <1>2, <1>3, PTL DEF CheckDefsSpec

-----------------------------------------------------------------------------
(* The parts beside each other                                             *)

rulesVars == <<topic, periodVars, accountVars, scoringVars, checkVars, defVars, lineVars>>

\* A step of one part leaves the others where they are.
LEMMA PartsMove ==
    [MCNext]_rulesVars =>
        /\ [PeriodsNext]_periodVars /\ [AccountsNext]_accountVars
        /\ [ScoringNext]_scoringVars /\ [ChecksNext]_checkVars
        /\ [CheckDefsNext]_defVars /\ [LineNext]_lineVars
<1> SUFFICES ASSUME [MCNext]_rulesVars
             PROVE  /\ [PeriodsNext]_periodVars /\ [AccountsNext]_accountVars
                    /\ [ScoringNext]_scoringVars /\ [ChecksNext]_checkVars
                    /\ [CheckDefsNext]_defVars /\ [LineNext]_lineVars
    OBVIOUS
<1>1. CASE MCNext
    BY <1>1 DEF MCNext
<1>2. CASE UNCHANGED rulesVars
    BY <1>2 DEF rulesVars
<1>3. QED
    BY <1>1, <1>2

LEMMA PartsSpecs ==
    MCSpec => /\ PeriodsSpec /\ AccountsInit /\ [][AccountsNext]_accountVars
              /\ ScoringSpec /\ ChecksSpec /\ CheckDefsSpec /\ LineSpec
<1>1. MCInit => /\ PeriodsInit /\ AccountsInit /\ ScoringInit
                /\ ChecksInit /\ CheckDefsInit /\ LineInit
    BY DEF MCInit
<1>2. QED
    BY <1>1, PartsMove, PTL
       DEF MCSpec, rulesVars, PeriodsSpec, ScoringSpec, ChecksSpec, CheckDefsSpec, LineSpec

\* Each part keeps its types beside the others: windows end after they begin,
\* accounts, scores, drafts and the line of periods are of the shapes the
\* program gives them.
THEOREM RulesTypes == MCSpec => []RulesTypeOK
<1>1. /\ PeriodsTypeOK /\ WindowsUsable /\ AccountsTypeOK /\ ScoringTypeOK
      /\ ChecksTypeOK /\ CheckDefsTypeOK /\ LineTypeOK
      => RulesTypeOK
    BY DEF RulesTypeOK
<1>2. QED
    BY <1>1, PartsSpecs, WindowsStayUsable, AccountsTypeCorrect, ScoringTypes, ChecksTypes,
       DraftsEnd, LineTypeCorrect, PTL

\* Findings are compared with what could have been found: a rule that could
\* not conclude is in neither side of the mean (compute_company_year_score), and
\* a finding has a severity and, but for the exceptions FindingsCounted names,
\* is about a code that the denominator of its check counts (denominators.py).
THEOREM ExposureIsFair == MCSpec => []ExposureFair
<1>1. GatedIsAbsent /\ FindingsCounted => ExposureFair
    BY DEF ExposureFair
<1>2. QED
    BY <1>1, PartsSpecs, GatedRulesAreAbsent, FindingsAreCounted, PTL

\* C4.1 and C4.3 leave no consumed material between them (c4_norm.py), and a
\* quantity written down again in a second unit is no mismatch (c1_quantity.py):
\* for any rows, books and loads in which no norm is less than zero.
THEOREM QuantitiesAreCounted ==
    ASSUME NormsNotNegative
    PROVE  MCSpec => []QuantitiesCounted
<1>1. NoMaterialUnseen /\ SecondUnitHarmless => QuantitiesCounted
    BY DEF QuantitiesCounted
<1>2. ChecksSpec => []NoMaterialUnseen
    BY MaterialsAreSeen
<1>3. QED
    BY <1>1, <1>2, PartsSpecs, SecondUnitSafe, PTL
=============================================================================
