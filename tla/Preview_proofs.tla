---------------------------- MODULE Preview_proofs -----------------------------
(***************************************************************************)
(* Proofs about Preview: for any files, pages, limits of the cache and     *)
(* uploads in the middle of an extraction, a page shows the file as it was *)
(* when its window was read.                                               *)
(***************************************************************************)
EXTENDS Preview, TLAPS, SequenceTheorems

-----------------------------------------------------------------------------
(* Sequences of stores                                                     *)

LEMMA RemoveAtSeq ==
    ASSUME NEW S, NEW s \in Seq(S), NEW i \in 1 .. Len(s)
    PROVE  /\ RemoveAt(s, i) \in Seq(S) /\ Len(RemoveAt(s, i)) = Len(s) - 1
           /\ \A j \in 1 .. Len(s) - 1 : RemoveAt(s, i)[j] = IF j < i THEN s[j] ELSE s[j + 1]
<1>1. PICK n \in Nat : n = Len(s)
    BY LenProperties
<1>2. PICK a : a = SubSeq(s, 1, i - 1)
    OBVIOUS
<1>3. PICK b : b = SubSeq(s, i + 1, Len(s))
    OBVIOUS
<1>4. a \in Seq(S) /\ Len(a) = i - 1 /\ \A j \in 1 .. i - 1 : a[j] = s[j]
    BY <1>1, <1>2, SubSeqProperties
<1>5. b \in Seq(S) /\ Len(b) = n - i /\ \A j \in 1 .. n - i : b[j] = s[i + j]
    BY <1>1, <1>3, SubSeqProperties
<1>6. RemoveAt(s, i) = a \o b
    BY <1>2, <1>3 DEF RemoveAt
<1>7. /\ a \o b \in Seq(S) /\ Len(a \o b) = Len(a) + Len(b)
      /\ \A j \in 1 .. Len(a) + Len(b) :
            (a \o b)[j] = IF j <= Len(a) THEN a[j] ELSE b[j - Len(a)]
    BY <1>4, <1>5, ConcatProperties
<1>8. ASSUME NEW j \in 1 .. n - 1
      PROVE  (a \o b)[j] = IF j < i THEN s[j] ELSE s[j + 1]
  <2>1. CASE j < i
      BY <1>1, <1>4, <1>5, <1>7, <1>8, <2>1
  <2>2. CASE ~(j < i)
    <3>1. (a \o b)[j] = b[j - (i - 1)]
        BY <1>1, <1>4, <1>5, <1>7, <1>8, <2>2
    <3>2. j - (i - 1) \in 1 .. n - i /\ i + (j - (i - 1)) = j + 1
        BY <1>1, <1>8, <2>2
    <3>3. QED
        BY <1>5, <2>2, <3>1, <3>2
  <2>3. QED
      BY <2>1, <2>2
<1>9. QED
    BY <1>1, <1>4, <1>5, <1>6, <1>7, <1>8

\* No name is that of two stores.
Distinct(ss) == \A i, j \in DOMAIN ss : ss[i].key = ss[j].key => i = j

LEMMA PlaceFound ==
    ASSUME NEW key, Stored(key)
    PROVE  PlaceOf(key) \in DOMAIN stores /\ stores[PlaceOf(key)].key = key
BY DEF Stored, PlaceOf

LEMMA WithoutSeq ==
    ASSUME NEW S, stores \in Seq(S), Distinct(stores), NEW key
    PROVE  /\ Without(key) \in Seq(S) /\ Distinct(Without(key))
           /\ Len(Without(key)) = Len(stores) - (IF Stored(key) THEN 1 ELSE 0)
           /\ \A j \in DOMAIN Without(key) : Without(key)[j].key # key
<1>1. CASE ~Stored(key)
  <2>1. Len(stores) \in Nat
      BY LenProperties
  <2>2. QED
      BY <1>1, <2>1 DEF Without, Stored
<1>2. CASE Stored(key)
  <2>1. PICK n \in Nat : n = Len(stores) /\ DOMAIN stores = 1 .. n
      BY LenProperties
  <2>2. PICK i \in 1 .. n : i = PlaceOf(key) /\ stores[i].key = key
      BY <1>2, <2>1, PlaceFound
  <2>3. PICK w : w = Without(key) /\ w = RemoveAt(stores, i)
      BY <1>2, <2>2 DEF Without
  <2>4. /\ w \in Seq(S) /\ Len(w) = n - 1
        /\ \A j \in 1 .. n - 1 : w[j] = IF j < i THEN stores[j] ELSE stores[j + 1]
      BY <2>1, <2>2, <2>3, RemoveAtSeq
  <2>5. DOMAIN w = 1 .. n - 1
      BY <2>4, LenProperties
  <2>6. ASSUME NEW j \in 1 .. n - 1
        PROVE  \E k \in 1 .. n : w[j] = stores[k] /\ k # i /\ k = IF j < i THEN j ELSE j + 1
      BY <2>4, <2>6
  <2>7. Distinct(w)
    <3>1. ASSUME NEW j \in 1 .. n - 1, NEW k \in 1 .. n - 1, w[j].key = w[k].key
          PROVE  j = k
      <4>1. PICK a \in 1 .. n : w[j] = stores[a] /\ a = IF j < i THEN j ELSE j + 1
          BY <2>6
      <4>2. PICK b \in 1 .. n : w[k] = stores[b] /\ b = IF k < i THEN k ELSE k + 1
          BY <2>6
      <4>3. a = b
          BY <2>1, <3>1, <4>1, <4>2 DEF Distinct
      <4>4. QED
          BY <4>1, <4>2, <4>3
    <3>2. QED
        BY <2>5, <3>1 DEF Distinct
  <2>8. \A j \in DOMAIN w : w[j].key # key
      BY <2>1, <2>2, <2>5, <2>6 DEF Distinct
  <2>9. QED
      BY <1>2, <2>1, <2>3, <2>4, <2>7, <2>8
<1>3. QED
    BY <1>1, <1>2

LEMMA AppendDistinct ==
    ASSUME NEW S, NEW ss \in Seq(S), Distinct(ss), NEW row \in S,
           \A j \in DOMAIN ss : ss[j].key # row.key
    PROVE  /\ Append(ss, row) \in Seq(S) /\ Distinct(Append(ss, row))
           /\ Len(Append(ss, row)) = Len(ss) + 1
<1>1. PICK n \in Nat : n = Len(ss) /\ DOMAIN ss = 1 .. n
    BY LenProperties
<1>2. PICK t : t = Append(ss, row)
    OBVIOUS
<1>3. /\ t \in Seq(S) /\ Len(t) = n + 1 /\ DOMAIN t = 1 .. n + 1
      /\ (\A j \in 1 .. n : t[j] = ss[j]) /\ t[n + 1] = row
    BY <1>1, <1>2, AppendProperties, LenProperties
<1>4. ASSUME NEW i \in 1 .. n + 1, NEW j \in 1 .. n + 1, t[i].key = t[j].key
      PROVE  i = j
  <2>1. i \in 1 .. n \/ i = n + 1
      BY <1>1
  <2>2. j \in 1 .. n \/ j = n + 1
      BY <1>1
  <2>3. QED
      BY <1>1, <1>3, <1>4, <2>1, <2>2 DEF Distinct
<1>5. QED
    BY <1>1, <1>2, <1>3, <1>4 DEF Distinct

LEMMA TouchSeq ==
    ASSUME NEW S, stores \in Seq(S), Distinct(stores), NEW key, Stored(key)
    PROVE  _touch(key) \in Seq(S) /\ Distinct(_touch(key)) /\ Len(_touch(key)) = Len(stores)
<1>1. PICK row \in S : row = stores[PlaceOf(key)] /\ row.key = key
  <2>1. \A i \in DOMAIN stores : stores[i] \in S
      BY ElementOfSeq, LenProperties
  <2>2. QED
      BY <2>1, PlaceFound
<1>2. PICK w : w = Without(key)
    OBVIOUS
<1>3. w \in Seq(S) /\ Distinct(w) /\ Len(w) = Len(stores) - 1 /\ \A j \in DOMAIN w : w[j].key # key
    BY <1>2, WithoutSeq
<1>4. /\ Append(w, row) \in Seq(S) /\ Distinct(Append(w, row))
      /\ Len(Append(w, row)) = Len(w) + 1
    BY <1>1, <1>3, AppendDistinct
<1>5. Len(stores) \in Nat
    BY LenProperties
<1>6. QED
    BY <1>1, <1>2, <1>3, <1>4, <1>5 DEF _touch

LEMMA PruneSeq ==
    ASSUME NEW S, NEW ss \in Seq(S), Distinct(ss)
    PROVE  /\ _prune_cache(ss) \in Seq(S) /\ Distinct(_prune_cache(ss))
           /\ Len(_prune_cache(ss)) <= preview_cache_max
<1>1. PICK n \in Nat : n = Len(ss) /\ DOMAIN ss = 1 .. n
    BY LenProperties
<1>2. PICK max \in Nat \ {0} : max = preview_cache_max
    BY PreviewAssumption
<1>3. CASE n <= max
    BY <1>1, <1>2, <1>3 DEF _prune_cache
<1>4. CASE n > max
  <2>1. PICK d \in Nat : n = d + max
    <3>1. n - max \in Nat /\ n = (n - max) + max
        BY <1>2, <1>4
    <3>2. QED
        BY <3>1
  <2>2. PICK t : t = SubSeq(ss, d + 1, n) /\ t = _prune_cache(ss)
    <3>1. n - max + 1 = d + 1
        BY <1>2, <2>1
    <3>2. QED
        BY <1>1, <1>2, <1>4, <3>1 DEF _prune_cache
  <2>3. /\ t \in Seq(S) /\ Len(t) = max
        /\ \A j \in 1 .. max : t[j] = ss[d + j]
    <3>1. \A k \in d + 1 .. n : ss[k] \in S
      <4>1. \A k \in d + 1 .. n : k \in 1 .. n
          BY <2>1
      <4>2. QED
          BY <1>1, <4>1, ElementOfSeq
    <3>2. /\ t \in Seq(S)
          /\ Len(t) = IF d + 1 <= n THEN n - (d + 1) + 1 ELSE 0
          /\ \A j \in 1 .. n - (d + 1) + 1 : t[j] = ss[d + 1 + j - 1]
        BY <2>2, <3>1, SubSeqProperties
    <3>3. n - (d + 1) + 1 = max /\ d + 1 <= n
        BY <1>2, <2>1
    <3>4. \A j \in 1 .. max : d + 1 + j - 1 = d + j
        OBVIOUS
    <3>5. QED
        BY <3>2, <3>3, <3>4
  <2>4. DOMAIN t = 1 .. max
      BY <2>3, LenProperties
  <2>5. ASSUME NEW i \in 1 .. max, NEW j \in 1 .. max, t[i].key = t[j].key
        PROVE  i = j
    <3>1. PICK a \in 1 .. n, b \in 1 .. n : a = d + i /\ b = d + j
      <4>1. d + i \in 1 .. n /\ d + j \in 1 .. n
          BY <1>2, <2>1
      <4>2. QED
          BY <4>1
    <3>2. t[i] = ss[a] /\ t[j] = ss[b]
        BY <2>3, <3>1
    <3>3. a = b
        BY <1>1, <2>5, <3>2 DEF Distinct
    <3>4. QED
        BY <3>1, <3>3
  <2>6. Distinct(t)
      BY <2>4, <2>5 DEF Distinct
  <2>7. max <= preview_cache_max
      BY <1>2
  <2>8. QED
      BY <2>2, <2>3, <2>6, <2>7
<1>5. QED
    BY <1>2, <1>3, <1>4

-----------------------------------------------------------------------------
(* The invariant                                                           *)

\* Under the name key, with v the versions of the files: nothing newer than
\* the file, and the file itself where the name is that of its version.  A
\* version that has gone by does not come back.
Sound(key, cells, v) ==
    /\ v[key[1]] = 0 \/ key[2] <= v[key[1]]
    /\ v[key[1]] = key[2] => cells = key[2]

Store(v) == {r \in [key : Key, cells : Torn .. MaxVersion] : Sound(r.key, r.cells, v)}

\* A thread that opened the workbook made its name before that.
IsBuild(key, build, v) ==
    /\ DOMAIN build = {"pc", "at", "cells"}
    /\ build.pc \in {"started", "opening", "copying", "done", "error"}
    /\ build.cells \in Torn .. MaxVersion
    /\ build.pc \in {"opening", "copying"} =>
          /\ build.at \in Key /\ build.at[1] = key[1]
          /\ v[build.at[1]] = 0 \/ build.at[2] <= v[build.at[1]]
    /\ build.pc = "copying" => Sound(build.at, build.cells, v)

IsPage(q) ==
    /\ DOMAIN q = {"pc", "key", "thread", "mine", "cells"}
    /\ q.pc \in {"closed", "asking", "waiting", "reading", "shown", "failed"}
    /\ q.pc # "closed" => q.key \in Key
    /\ q.thread # "none" <=> q.pc = "waiting"
    /\ q.pc = "shown" => q.cells = q.key[2]

IInv ==
    /\ version \in [File -> 0 .. MaxVersion]
    /\ stores \in Seq(Store(version)) /\ Distinct(stores) /\ Len(stores) <= preview_cache_max
    /\ DOMAIN _JOBS \subseteq Key /\ \A k \in DOMAIN _JOBS : IsBuild(k, _JOBS[k], version)
    /\ DOMAIN page = Page /\ \A p \in Page : IsPage(page[p])

LEMMA KeyFacts ==
    /\ \A k \in Key : k[1] \in File /\ k[2] \in 1 .. MaxVersion
    /\ \A f \in File, v \in 1 .. MaxVersion :
          cache_file_for(f, v) = <<f, v>> /\ <<f, v>> \in Key
    /\ \A f \in File : version \in [File -> 0 .. MaxVersion] /\ version[f] # 0 =>
          version[f] \in 1 .. MaxVersion
BY PreviewAssumption DEF Key, cache_file_for

\* The name made for a file that is there.
LEMMA NameNow ==
    ASSUME IInv, NEW f \in File, version[f] # 0,
           NEW key, key = cache_file_for(f, version[f])
    PROVE  key \in Key /\ key = <<f, version[f]>> /\ key[1] = f /\ key[2] = version[f]
<1>1. PICK v \in 1 .. MaxVersion : v = version[f]
    BY KeyFacts DEF IInv
<1>2. key = <<f, v>> /\ <<f, v>> \in Key
    BY <1>1, KeyFacts
<1>3. QED
    BY <1>1, <1>2

LEMMA InvInit == PreviewInit => IInv
<1> SUFFICES ASSUME PreviewInit PROVE IInv
    OBVIOUS
<1>1. stores \in Seq(Store(version)) /\ Len(stores) = 0 /\ DOMAIN stores = {}
    BY EmptySeq, LenProperties DEF PreviewInit
<1>2. version \in [File -> 0 .. MaxVersion]
    BY PreviewAssumption DEF PreviewInit
<1>3. DOMAIN _JOBS = {}
    BY DEF PreviewInit
<1>4. IsPage(Closed)
    BY DEF IsPage, Closed
<1>5. QED
    BY <1>1, <1>2, <1>3, <1>4, PreviewAssumption DEF PreviewInit, IInv, Distinct

\* A page goes on by itself.
LEMMA PageStep ==
    ASSUME IInv, NEW p \in Page, NEW q, IsPage(q), page' = [page EXCEPT ![p] = q],
           UNCHANGED <<version, stores, _JOBS>>
    PROVE  IInv'
<1>1. DOMAIN page' = Page /\ \A r \in Page : IsPage(page'[r])
    BY DEF IInv
<1>2. QED
    BY <1>1 DEF IInv

LEMMA ClosedFacts ==
    ASSUME NEW pc \in {"asking", "reading", "failed"}, NEW key \in Key
    PROVE  \A cells : IsPage([Closed EXCEPT !.pc = pc, !.key = key, !.cells = cells])
                      /\ IsPage([Closed EXCEPT !.pc = pc, !.key = key])
BY DEF Closed, IsPage

\* A store that is used becomes the last one.
LEMMA TouchStores ==
    ASSUME IInv, NEW key, Stored(key)
    PROVE  /\ _touch(key) \in Seq(Store(version)) /\ Distinct(_touch(key))
           /\ Len(_touch(key)) <= preview_cache_max
BY TouchSeq DEF IInv

\* A page is told that the thread of a name is over.
LEMMA FinishKeeps ==
    ASSUME IInv, NEW key \in DOMAIN _JOBS, NEW how \in {"done", "error"}, FinishBuild(key, how)
    PROVE  /\ DOMAIN _JOBS' = DOMAIN _JOBS
           /\ \A k \in DOMAIN _JOBS : IsBuild(k, _JOBS'[k], version)
           /\ DOMAIN page' = Page /\ \A p \in Page : IsPage(page'[p])
<1>1. PICK build : build = BuildJob(how, NoKey, Torn)
    OBVIOUS
<1>2. DOMAIN build = {"pc", "at", "cells"} /\ build.pc = how /\ build.cells = Torn
    BY <1>1 DEF BuildJob
<1>3. IsBuild(key, build, version)
    BY <1>2, PreviewAssumption DEF IsBuild, Torn
<1>4. _JOBS' = [_JOBS EXCEPT ![key] = build]
    BY <1>1 DEF FinishBuild, SetJob
<1>5. ASSUME NEW q \in Page
      PROVE  IsPage(page'[q])
  <2>1. IsPage(page[q])
      BY DEF IInv
  <2>2. page'[q] = page[q] \/ (page[q].pc = "waiting" /\ page'[q] = [page[q] EXCEPT !.thread = how])
      BY DEF FinishBuild
  <2>3. QED
      BY <2>1, <2>2 DEF IsPage
<1>6. DOMAIN page' = Page
    BY DEF FinishBuild
<1>7. QED
    BY <1>3, <1>4, <1>5, <1>6 DEF IInv

-----------------------------------------------------------------------------
(* The steps of a page                                                     *)

LEMMA InvAsk ==
    ASSUME IInv, NEW p \in Page, Ask(p)
    PROVE  IInv'
<1>1. IsPage(page[p]) /\ DOMAIN page = Page
    BY DEF IInv
<1>2. CASE AskGone(p)
  <2>1. page[p].key \in Key
      BY <1>1, <1>2 DEF AskGone, IsPage
  <2>2. page' = [page EXCEPT ![p] =
                    [Closed EXCEPT !.pc = "failed", !.key = page[p].key, !.cells = Torn]]
      BY <1>2 DEF AskGone, Become
  <2>3. IsPage([Closed EXCEPT !.pc = "failed", !.key = page[p].key, !.cells = Torn])
      BY <2>1, ClosedFacts
  <2>4. QED
      BY <1>2, <2>2, <2>3, PageStep DEF AskGone
<1>3. CASE AskStored(p)
  <2>1. PICK key : key = cache_file_for(page[p].key[1], version[page[p].key[1]])
      OBVIOUS
  <2>2. /\ page[p].pc = "asking" /\ Stored(key) /\ stores' = _touch(key)
        /\ page' = [page EXCEPT ![p] = [page[p] EXCEPT !.pc = "reading"]]
        /\ UNCHANGED <<version, _JOBS>>
      BY <1>3, <2>1 DEF AskStored
  <2>3. IsPage([page[p] EXCEPT !.pc = "reading"])
      BY <1>1, <2>2 DEF IsPage
  <2>4. DOMAIN page' = Page /\ \A q \in Page : IsPage(page'[q])
      BY <2>2, <2>3 DEF IInv
  <2>5. QED
      BY <2>2, <2>4, TouchStores DEF IInv
<1>4. CASE AskThread(p)
  <2>1. PICK f : f = page[p].key[1]
      OBVIOUS
  <2>2. f \in File /\ version[f] \in 1 .. MaxVersion
    <3>1. page[p].key \in Key
        BY <1>1, <1>4 DEF AskThread, IsPage
    <3>2. QED
        BY <1>4, <2>1, <3>1, KeyFacts DEF AskThread, IInv
  <2>3. PICK key \in Key : key = cache_file_for(f, version[f])
      BY <2>2, KeyFacts
  <2>4. PICK build : build = IF key \in DOMAIN _JOBS THEN _JOBS[key]
                             ELSE BuildJob("started", NoKey, Torn)
      OBVIOUS
  <2>5. PICK thread : thread = IF build.pc \in {"done", "error"} THEN build.pc ELSE "running"
      OBVIOUS
  <2>6. /\ _JOBS' = [k \in DOMAIN _JOBS \cup {key} |-> IF k = key THEN build ELSE _JOBS[k]]
        /\ page' = [page EXCEPT ![p] = [page[p] EXCEPT !.pc = "waiting", !.key = key,
                                                       !.mine = TRUE, !.thread = thread]]
        /\ UNCHANGED <<version, stores>>
      BY <1>4, <2>1, <2>3, <2>4, <2>5 DEF AskThread
  <2>7. IsBuild(key, build, version)
    <3>1. CASE key \in DOMAIN _JOBS
        BY <2>4, <3>1 DEF IInv
    <3>2. CASE key \notin DOMAIN _JOBS
        BY <2>4, <3>2, PreviewAssumption DEF BuildJob, IsBuild, Torn
    <3>3. QED
        BY <3>1, <3>2
  <2>8. IsPage([page[p] EXCEPT !.pc = "waiting", !.key = key, !.mine = TRUE, !.thread = thread])
      BY <1>1, <2>5 DEF IsPage
  <2>9. DOMAIN page' = Page /\ \A q \in Page : IsPage(page'[q])
      BY <2>6, <2>8 DEF IInv
  <2>10. DOMAIN _JOBS' \subseteq Key /\ \A k \in DOMAIN _JOBS' : IsBuild(k, _JOBS'[k], version)
      BY <2>6, <2>7 DEF IInv
  <2>11. QED
      BY <2>6, <2>9, <2>10 DEF IInv
<1>5. CASE WaitDone(p)
  <2>1. PICK key : key = page[p].key
      OBVIOUS
  <2>2. PICK pc : pc = IF page[p].thread = "error" THEN "failed"
                       ELSE IF Stored(key) THEN "reading" ELSE "asking"
      OBVIOUS
  <2>3. /\ page[p].pc = "waiting" /\ _drop_job(p)
        /\ stores' = IF pc = "reading" THEN _touch(key) ELSE stores
        /\ page' = [q \in Page |->
              IF q = p THEN [Closed EXCEPT !.pc = pc, !.key = key]
              ELSE [page[q] EXCEPT !.mine = page[q].mine
                                               /\ ~(page[p].mine /\ page[q].key = key)]]
        /\ UNCHANGED version
      BY <1>5, <2>1, <2>2 DEF WaitDone
  <2>4. key \in Key
      BY <1>1, <2>1, <2>3 DEF IsPage
  <2>5. DOMAIN page' = Page /\ \A q \in Page : IsPage(page'[q])
    <3>1. pc \in {"asking", "reading", "failed"}
        BY <2>2
    <3>2. IsPage(page'[p])
        BY <2>3, <2>4, <3>1, ClosedFacts
    <3>3. ASSUME NEW q \in Page, q # p PROVE IsPage(page'[q])
      <4>1. PICK mine : page'[q] = [page[q] EXCEPT !.mine = mine]
          BY <2>3, <3>3
      <4>2. IsPage(page[q])
          BY DEF IInv
      <4>3. QED
          BY <4>1, <4>2 DEF IsPage
    <3>4. QED
        BY <2>3, <3>2, <3>3
  <2>6. /\ DOMAIN _JOBS' \subseteq DOMAIN _JOBS
        /\ \A k \in DOMAIN _JOBS' : _JOBS'[k] = _JOBS[k]
      BY <2>3 DEF _drop_job
  <2>7. /\ stores' \in Seq(Store(version)) /\ Distinct(stores')
        /\ Len(stores') <= preview_cache_max
    <3>1. pc = "reading" => Stored(key)
        BY <2>2
    <3>2. QED
        BY <2>3, <3>1, TouchStores DEF IInv
  <2>8. QED
      BY <2>3, <2>5, <2>6, <2>7 DEF IInv
<1>6. CASE Read(p)
  <2>1. PICK f : f = page[p].key[1]
      OBVIOUS
  <2>2. page[p].key \in Key /\ f \in File
      BY <1>1, <1>6, <2>1, KeyFacts DEF Read, IsPage
  <2>3. PICK key : key = cache_file_for(f, version[f])
      OBVIOUS
  <2>4. CASE version[f] # 0 /\ Stored(key)
    <3>1. key \in Key /\ key = <<f, version[f]>> /\ key[1] = f /\ key[2] = version[f]
        BY <2>2, <2>3, <2>4, NameNow
    <3>2. CellsOf(key) = key[2]
      <4>1. PICK row : row = stores[PlaceOf(key)]
          OBVIOUS
      <4>2. row \in Store(version) /\ row.key = key
        <5>1. \A i \in DOMAIN stores : stores[i] \in Store(version)
            BY ElementOfSeq, LenProperties DEF IInv
        <5>2. QED
            BY <2>4, <4>1, <5>1, PlaceFound
      <4>3. row.cells = key[2]
          BY <3>1, <4>2 DEF Store, Sound
      <4>4. QED
          BY <4>1, <4>3 DEF CellsOf
    <3>3. page' = [page EXCEPT ![p] = [Closed EXCEPT !.pc = "shown", !.key = key, !.cells = key[2]]]
        BY <1>6, <2>1, <2>3, <2>4, <3>1, <3>2 DEF Read
    <3>4. IsPage([Closed EXCEPT !.pc = "shown", !.key = key, !.cells = key[2]])
        BY <3>1 DEF Closed, IsPage
    <3>5. QED
        BY <1>6, <3>3, <3>4, PageStep DEF Read
  <2>5. CASE ~(version[f] # 0 /\ Stored(key))
    <3>1. page' = [page EXCEPT ![p] =
                      [Closed EXCEPT !.pc = "failed", !.key = page[p].key, !.cells = Torn]]
        BY <1>6, <2>1, <2>3, <2>5 DEF Read, Become
    <3>2. QED
        BY <1>6, <2>2, <3>1, ClosedFacts, PageStep DEF Read
  <2>6. QED
      BY <2>4, <2>5
<1>7. QED
    BY <1>2, <1>3, <1>4, <1>5, <1>6 DEF Ask

LEMMA InvPage ==
    ASSUME IInv, NEW p \in Page, WaitOver(p) \/ Leave(p) \/ \E f \in File : Open(p, f)
    PROVE  IInv'
<1>1. IsPage(page[p])
    BY DEF IInv
<1>2. CASE WaitOver(p)
  <2>1. page[p].key \in Key
      BY <1>1, <1>2 DEF WaitOver, IsPage
  <2>2. page' = [page EXCEPT ![p] =
                    [Closed EXCEPT !.pc = "asking", !.key = page[p].key, !.cells = Torn]]
      BY <1>2 DEF WaitOver, Become
  <2>3. QED
      BY <1>2, <2>1, <2>2, ClosedFacts, PageStep DEF WaitOver
<1>3. CASE Leave(p)
  <2>1. IsPage(Closed)
      BY DEF Closed, IsPage
  <2>2. QED
      BY <1>3, <2>1, PageStep DEF Leave
<1>4. ASSUME NEW f \in File, Open(p, f) PROVE IInv'
  <2>1. PICK key : key = <<f, version[f]>>
      OBVIOUS
  <2>2. key \in Key
      BY <1>4, <2>1, KeyFacts DEF Open, IInv
  <2>3. page' = [page EXCEPT ![p] = [Closed EXCEPT !.pc = "asking", !.key = key]]
      BY <1>4, <2>1 DEF Open
  <2>4. IsPage([Closed EXCEPT !.pc = "asking", !.key = key])
      BY <2>2, ClosedFacts
  <2>5. QED
      BY <1>4, <2>3, <2>4, PageStep DEF Open
<1>5. QED
    BY <1>2, <1>3, <1>4

-----------------------------------------------------------------------------
(* The steps of a thread                                                   *)

LEMMA JobStep ==
    ASSUME IInv, NEW key \in DOMAIN _JOBS, NEW build, IsBuild(key, build, version),
           SetJob(key, build), UNCHANGED <<version, stores, page>>
    PROVE  IInv'
<1>1. DOMAIN _JOBS' = DOMAIN _JOBS /\ \A k \in DOMAIN _JOBS : IsBuild(k, _JOBS'[k], version)
    BY DEF SetJob, IInv
<1>2. QED
    BY <1>1 DEF IInv

LEMMA InvBuild ==
    ASSUME IInv, NEW key \in Key, Build(key)
    PROVE  IInv'
<1>1. key \in DOMAIN _JOBS /\ IsBuild(key, _JOBS[key], version)
    BY DEF Build, IInv
<1>2. key[1] \in File
    BY KeyFacts
<1>3. CASE BuildStart(key)
  <2>1. PICK at : at = cache_file_for(key[1], version[key[1]])
      OBVIOUS
  <2>2. at \in Key /\ at[1] = key[1] /\ at[2] = version[key[1]]
      BY <1>2, <1>3, <2>1, NameNow DEF BuildStart
  <2>3. PICK build : build = BuildJob("opening", at, Torn)
      OBVIOUS
  <2>4. at[2] <= version[at[1]]
      BY <1>2, <2>2 DEF IInv
  <2>5. IsBuild(key, build, version)
      BY <2>2, <2>3, <2>4, PreviewAssumption DEF BuildJob, IsBuild, Torn
  <2>6. QED
      BY <1>1, <1>3, <2>1, <2>3, <2>5, JobStep DEF BuildStart
<1>4. CASE BuildHit(key)
  <2>1. PICK at : at = cache_file_for(key[1], version[key[1]])
      OBVIOUS
  <2>2. Stored(at) /\ stores' = _touch(at) /\ FinishBuild(key, "done") /\ version' = version
      BY <1>4, <2>1 DEF BuildHit
  <2>3. /\ DOMAIN _JOBS' = DOMAIN _JOBS
        /\ \A k \in DOMAIN _JOBS : IsBuild(k, _JOBS'[k], version)
        /\ DOMAIN page' = Page /\ \A p \in Page : IsPage(page'[p])
      BY <1>1, <2>2, FinishKeeps
  <2>4. QED
      BY <2>2, <2>3, TouchStores DEF IInv
<1>5. CASE BuildRead(key)
  <2>1. PICK build : build = [_JOBS[key] EXCEPT !.pc = "copying", !.cells = version[key[1]]]
      OBVIOUS
  <2>2. _JOBS[key].pc = "opening" /\ SetJob(key, build) /\ UNCHANGED <<version, stores, page>>
      BY <1>5, <2>1 DEF BuildRead
  <2>3. /\ DOMAIN build = {"pc", "at", "cells"} /\ build.pc = "copying" /\ build.at = _JOBS[key].at
        /\ build.cells = version[key[1]]
      BY <1>1, <2>1 DEF IsBuild
  <2>4. build.cells \in Torn .. MaxVersion
      BY <1>2, <2>3 DEF IInv, Torn
  <2>5. IsBuild(key, build, version)
      BY <1>1, <2>2, <2>3, <2>4 DEF IsBuild, Sound
  <2>6. QED
      BY <1>1, <2>2, <2>5, JobStep
<1>6. CASE BuildEnd(key)
  <2>1. PICK at, cells : at = _JOBS[key].at /\ cells = _JOBS[key].cells
      OBVIOUS
  <2>2. PICK row : row = [key |-> at, cells |-> cells]
      OBVIOUS
  <2>3. /\ _JOBS[key].pc = "copying" /\ FinishBuild(key, "done") /\ version' = version
        /\ stores' = _prune_cache(Append(Without(at), row))
      BY <1>6, <2>1, <2>2 DEF BuildEnd
  <2>4. row \in Store(version) /\ row.key = at
      BY <1>1, <2>1, <2>2, <2>3 DEF IsBuild, Store
  <2>5. PICK w : w = Without(at)
      OBVIOUS
  <2>6. w \in Seq(Store(version)) /\ Distinct(w) /\ \A j \in DOMAIN w : w[j].key # at
      BY <2>5, WithoutSeq DEF IInv
  <2>7. Append(w, row) \in Seq(Store(version)) /\ Distinct(Append(w, row))
      BY <2>4, <2>6, AppendDistinct
  <2>8. /\ stores' \in Seq(Store(version)) /\ Distinct(stores')
        /\ Len(stores') <= preview_cache_max
      BY <2>3, <2>5, <2>7, PruneSeq
  <2>9. /\ DOMAIN _JOBS' = DOMAIN _JOBS
        /\ \A k \in DOMAIN _JOBS : IsBuild(k, _JOBS'[k], version)
        /\ DOMAIN page' = Page /\ \A p \in Page : IsPage(page'[p])
      BY <1>1, <2>3, FinishKeeps
  <2>10. QED
      BY <2>3, <2>8, <2>9 DEF IInv
<1>7. CASE BuildFail(key)
  <2>1. /\ DOMAIN _JOBS' = DOMAIN _JOBS
        /\ \A k \in DOMAIN _JOBS : IsBuild(k, _JOBS'[k], version)
        /\ DOMAIN page' = Page /\ \A p \in Page : IsPage(page'[p])
      BY <1>1, <1>7, FinishKeeps DEF BuildFail
  <2>2. QED
      BY <1>7, <2>1 DEF BuildFail, IInv
<1>8. QED
    BY <1>3, <1>4, <1>5, <1>6, <1>7 DEF Build

-----------------------------------------------------------------------------
(* Beside them                                                             *)

\* Names and cells stay sound when a version goes by for good.
LEMMA VersionGoes ==
    ASSUME IInv, NEW f \in File, version[f] # 0,
           NEW v \in 0 .. MaxVersion, v = 0 \/ version[f] < v, version' = [version EXCEPT ![f] = v]
    PROVE  /\ version' \in [File -> 0 .. MaxVersion]
           /\ \A key \in Key : \A cells : Sound(key, cells, version) => Sound(key, cells, version')
           /\ \A key \in Key : \A cells : key[1] = f /\ (version[f] = 0 \/ key[2] <= version[f])
                  => Sound(key, cells, version')
           /\ \A key \in Key : (version[key[1]] = 0 \/ key[2] <= version[key[1]])
                  => (version'[key[1]] = 0 \/ key[2] <= version'[key[1]])
           /\ stores \in Seq(Store(version'))
<1>1. version' \in [File -> 0 .. MaxVersion]
    BY DEF IInv
<1>2. PICK u \in 1 .. MaxVersion : u = version[f]
    BY KeyFacts DEF IInv
<1>3. ASSUME NEW key \in Key
      PROVE  /\ key[1] \in File /\ key[2] \in 1 .. MaxVersion
             /\ key[1] # f => version'[key[1]] = version[key[1]]
             /\ key[1] = f => version'[key[1]] = v /\ version[key[1]] = u
    BY <1>2, KeyFacts DEF IInv
<1>4. v \in Int /\ u \in Int /\ u # 0 /\ (v = 0 \/ u < v)
    BY <1>2, PreviewAssumption
<1>5. ASSUME NEW key \in Key, NEW cells, key[1] = f, key[2] <= u
      PROVE  Sound(key, cells, version')
  <2>1. key[2] \in Nat \ {0}
      BY <1>3, PreviewAssumption
  <2>2. v # key[2] /\ (v = 0 \/ key[2] <= v)
      BY <1>4, <1>5, <2>1
  <2>3. QED
      BY <1>3, <1>5, <2>2 DEF Sound
<1>6. ASSUME NEW key \in Key, NEW cells, Sound(key, cells, version)
      PROVE  Sound(key, cells, version')
  <2>1. CASE key[1] = f
      BY <1>3, <1>4, <1>5, <1>6, <2>1 DEF Sound
  <2>2. CASE key[1] # f
      BY <1>3, <1>6, <2>2 DEF Sound
  <2>3. QED
      BY <2>1, <2>2
<1>7. ASSUME NEW key \in Key, version[key[1]] = 0 \/ key[2] <= version[key[1]]
      PROVE  version'[key[1]] = 0 \/ key[2] <= version'[key[1]]
  <2>1. CASE key[1] = f
    <3>1. key[2] <= u
        BY <1>3, <1>4, <1>7, <2>1
    <3>2. QED
        BY <1>3, <1>5, <2>1, <3>1 DEF Sound
  <2>2. CASE key[1] # f
      BY <1>3, <1>7, <2>2
  <2>3. QED
      BY <2>1, <2>2
<1>8. stores \in Seq(Store(version'))
  <2>1. \A r \in Store(version) : r \in Store(version')
      BY <1>6 DEF Store
  <2>2. Store(version) \subseteq Store(version')
      BY <2>1
  <2>3. PICK A, B : A = Store(version) /\ B = Store(version')
      OBVIOUS
  <2>4. stores \in Seq(A) /\ A \subseteq B
      BY <2>2, <2>3 DEF IInv
  <2>5. stores \in Seq(B)
      BY <2>4
  <2>6. QED
      BY <2>3, <2>5
<1>9. QED
    BY <1>1, <1>2, <1>4, <1>5, <1>6, <1>7, <1>8

LEMMA InvFiles ==
    ASSUME IInv, NEW f \in File, Replace(f) \/ RemoveFile(f)
    PROVE  IInv'
<1>1. PICK v \in 0 .. MaxVersion :
          /\ version[f] # 0 /\ (v = 0 \/ version[f] < v)
          /\ version' = [version EXCEPT ![f] = v]
  <2>1. CASE Replace(f)
    <3>1. PICK u \in 1 .. MaxVersion - 1 : u = version[f]
        BY <2>1 DEF Replace
    <3>2. u + 1 \in 0 .. MaxVersion /\ u < u + 1 /\ u # 0
        BY PreviewAssumption
    <3>3. version' = [version EXCEPT ![f] = u + 1]
        BY <2>1, <3>1 DEF Replace
    <3>4. QED
        BY <3>1, <3>2, <3>3
  <2>2. CASE RemoveFile(f)
    <3>1. PICK v \in 0 .. MaxVersion : v = 0
        BY PreviewAssumption
    <3>2. version[f] # 0 /\ version' = [version EXCEPT ![f] = v]
        BY <2>2, <3>1 DEF RemoveFile
    <3>3. QED
        BY <3>1, <3>2
  <2>3. QED
      BY <2>1, <2>2
<1>2. DOMAIN _JOBS' = DOMAIN _JOBS /\ UNCHANGED <<stores, page>>
    BY DEF Replace, RemoveFile
<1>3. ASSUME NEW k \in DOMAIN _JOBS
      PROVE  IsBuild(k, _JOBS'[k], version')
  <2>1. IsBuild(k, _JOBS[k], version)
      BY DEF IInv
  <2>2. CASE _JOBS'[k] = _JOBS[k]
      BY <1>1, <2>1, <2>2, VersionGoes DEF IsBuild
  <2>3. CASE _JOBS'[k] # _JOBS[k]
    <3>1. k[1] = f /\ _JOBS[k].pc = "copying" /\ _JOBS'[k] = [_JOBS[k] EXCEPT !.cells = Torn]
        BY <2>3 DEF Replace, RemoveFile
    <3>2. PICK at \in Key : at = _JOBS[k].at /\ at[1] = f
                            /\ (version[f] = 0 \/ at[2] <= version[f])
        BY <2>1, <3>1 DEF IsBuild
    <3>3. Sound(at, Torn, version') /\ (version'[at[1]] = 0 \/ at[2] <= version'[at[1]])
        BY <1>1, <3>2, VersionGoes
    <3>4. PICK build : build = _JOBS'[k] /\ DOMAIN build = {"pc", "at", "cells"} /\ build.pc = "copying"
                       /\ build.at = at /\ build.cells = Torn
        BY <2>1, <3>1, <3>2 DEF IsBuild
    <3>5. Torn \in Torn .. MaxVersion
        BY PreviewAssumption DEF Torn
    <3>6. QED
        BY <3>1, <3>2, <3>3, <3>4, <3>5 DEF IsBuild
  <2>4. QED
      BY <2>2, <2>3
<1>4. QED
    BY <1>1, <1>2, <1>3, VersionGoes DEF IInv

LEMMA InvRestart ==
    ASSUME IInv, Restart
    PROVE  IInv'
<1>1. ASSUME NEW p \in Page PROVE IsPage(page'[p])
  <2>1. IsPage(page[p])
      BY DEF IInv
  <2>2. CASE page[p].pc \in {"waiting", "reading"}
    <3>1. page[p].key \in Key
        BY <2>1, <2>2 DEF IsPage
    <3>2. IsPage([Closed EXCEPT !.pc = "asking", !.key = page[p].key])
        BY <3>1, ClosedFacts
    <3>3. QED
        BY <2>2, <3>2 DEF Restart
  <2>3. CASE page[p].pc \notin {"waiting", "reading"}
      BY <2>1, <2>3 DEF Restart
  <2>4. QED
      BY <2>2, <2>3
<1>2. DOMAIN page' = Page /\ DOMAIN _JOBS' = {} /\ UNCHANGED <<version, stores>>
    BY DEF Restart
<1>3. QED
    BY <1>1, <1>2 DEF IInv

LEMMA InvNext == IInv /\ [PreviewNext]_previewVars => IInv'
<1>1. ASSUME IInv, PreviewNext PROVE IInv'
    BY <1>1, InvAsk, InvPage, InvBuild, InvFiles, InvRestart DEF PreviewNext
<1>2. ASSUME IInv, UNCHANGED previewVars PROVE IInv'
    BY <1>2 DEF IInv, previewVars
<1>3. QED
    BY <1>1, <1>2

LEMMA Inv == PreviewInit /\ [][PreviewNext]_previewVars => []IInv
BY InvInit, InvNext, PTL

-----------------------------------------------------------------------------
(* Theorems                                                                *)

\* However pages, threads, uploads and restarts follow one another, versions,
\* stores and the registry of threads keep their types, the cache keeps to
\* its limit, and just the pages that wait have a thread to wait for
\* (_prune_cache, _drop_job).
THEOREM TypeCorrect == PreviewInit /\ [][PreviewNext]_previewVars => []PreviewTypeOK
<1>1. IInv => PreviewTypeOK
  <2>1. ASSUME IInv PROVE PreviewTypeOK
    <3>1. \A i \in DOMAIN stores : stores[i] \in Store(version)
        BY <2>1, ElementOfSeq, LenProperties DEF IInv
    <3>2. \A i \in DOMAIN stores : stores[i].key \in Key /\ stores[i].cells \in Torn .. MaxVersion
        BY <3>1 DEF Store
    <3>3. QED
        BY <2>1, <3>2 DEF IInv, IsPage, PreviewTypeOK
  <2>2. QED
      BY <2>1
<1>2. QED
    BY <1>1, Inv, PTL

\* A page never shows cells of two versions of a file, or of another version
\* than the one of the name it reads by, whatever was uploaded between the
\* name being made, the workbook being opened and the store being read
\* (extract_sheet, read_window).
THEOREM PagesShowTheFile == PreviewInit /\ [][PreviewNext]_previewVars => []ShownIsTheFile
<1>1. IInv => ShownIsTheFile
    BY DEF IInv, IsPage, ShownIsTheFile
<1>2. QED
    BY <1>1, Inv, PTL
=============================================================================
