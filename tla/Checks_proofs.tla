---------------------------- MODULE Checks_proofs ----------------------------
(***************************************************************************)
(* Proofs about Scoring and Checks: for any rules, findings and exposures, *)
(* and for whatever rows are loaded. Scores, declared and stated           *)
(* quantities and consumption are sums over finite sets, so a theory of    *)
(* such sums comes first.                                                  *)
(***************************************************************************)
EXTENDS Scoring, Checks, TLAPS, FiniteSetTheorems, WellFoundedInduction

(***************************************************************************)
(* Sums. MapThenSumSet is a CHOOSE of a function that adds up the subsets  *)
(* of a set one element at a time. SumOf says the same of a function of    *)
(* values; that there is such a function of the subsets, and that what it  *)
(* says does not depend on the order, is shown of a least subset that      *)
(* would be an exception.                                                  *)
(***************************************************************************)

First(s) == CHOOSE y \in s : TRUE
IsSum(g, v, S) ==
    g = [s \in SUBSET S |-> IF s = {} THEN 0 ELSE v[First(s)] + g[s \ {First(s)}]]
SumOf(v, S) == (CHOOSE g : IsSum(g, v, S))[S]
\* Every element of S has a value.
Valued(v, S) == IsFiniteSet(S) /\ \A x \in S : v[x] \in Int

\* The element that a sum begins with.
LEMMA FirstIn ==
    ASSUME NEW s, s # {}
    PROVE  First(s) \in s
BY DEF First

\* The least set of a family of subsets of a finite set.
LEMMA LeastSubset ==
    ASSUME NEW S, IsFiniteSet(S), NEW B \in SUBSET (SUBSET S), B # {}
    PROVE  \E T \in B : \A U \in B : U \subseteq T => U = T
<1>1. B \subseteq FiniteSubsetsOf(S)
    BY FS_Subset DEF FiniteSubsetsOf
<1>2. IsWellFoundedOn(StrictSubsetOrdering(S), FiniteSubsetsOf(S))
    BY FS_StrictSubsetOrderingWellFounded
<1>3. PICK T \in B : \A U \in B : <<U, T>> \notin StrictSubsetOrdering(S)
    BY <1>1, <1>2, WFMin
<1>4. QED
    BY <1>3 DEF StrictSubsetOrdering

\* What a sum's function says of a subset.
LEMMA SumValue ==
    ASSUME NEW S, NEW v, NEW g, IsSum(g, v, S), NEW s \in SUBSET S
    PROVE  g[s] = IF s = {} THEN 0 ELSE v[First(s)] + g[s \ {First(s)}]
BY DEF IsSum

\* A sum is of numbers.
LEMMA SumInt ==
    ASSUME NEW S, NEW v, Valued(v, S), NEW g, IsSum(g, v, S), NEW s \in SUBSET S
    PROVE  g[s] \in Int
<1> DEFINE Bad == {t \in SUBSET S : g[t] \notin Int}
<1>1. SUFFICES ASSUME Bad # {} PROVE FALSE
    OBVIOUS
<1>2. PICK T \in Bad : \A U \in Bad : U \subseteq T => U = T
  <2> HIDE DEF Bad
  <2>1. Bad \in SUBSET (SUBSET S)
      BY DEF Bad
  <2>2. QED
      BY <1>1, <2>1, LeastSubset DEF Valued
<1> HIDE DEF Bad
<1>a. T \in SUBSET S /\ g[T] \notin Int
    BY <1>2 DEF Bad
<1>b. g[T] = IF T = {} THEN 0 ELSE v[First(T)] + g[T \ {First(T)}]
    BY <1>a, SumValue
<1>3. CASE T = {}
    BY <1>3, <1>a, <1>b
<1>4. CASE T # {}
  <2>1. PICK x \in T : x = First(T)
      BY <1>4, FirstIn
  <2>2. g[T \ {x}] \in Int
      BY <1>2, <1>a, <2>1 DEF Bad
  <2>3. g[T] = v[x] + g[T \ {x}]
      BY <1>4, <1>b, <2>1
  <2>4. QED
      BY <1>a, <2>1, <2>2, <2>3 DEF Valued
<1>5. QED
    BY <1>3, <1>4

\* There is one sum, whatever larger set it was computed with.
LEMMA SumUnique ==
    ASSUME NEW S, NEW v, IsFiniteSet(S), NEW A, NEW B, NEW g, NEW h,
           IsSum(g, v, A), IsSum(h, v, B), S \subseteq A, S \subseteq B
    PROVE  g[S] = h[S]
<1> DEFINE Bad == {t \in SUBSET S : g[t] # h[t]}
<1>1. SUFFICES ASSUME Bad # {} PROVE FALSE
    OBVIOUS
<1>2. PICK T \in Bad : \A U \in Bad : U \subseteq T => U = T
  <2> HIDE DEF Bad
  <2>1. Bad \in SUBSET (SUBSET S)
      BY DEF Bad
  <2>2. QED
      BY <1>1, <2>1, LeastSubset DEF Valued
<1>3. CASE T = {}
    BY <1>3, SumValue
<1>4. CASE T # {}
  <2>1. PICK x \in T : x = First(T)
      BY <1>4, FirstIn
  <2>2. g[T \ {x}] = h[T \ {x}]
      BY <1>2, <2>1
  <2>3. g[T] = v[x] + g[T \ {x}] /\ h[T] = v[x] + h[T \ {x}]
      BY <1>4, <2>1, SumValue
  <2>4. QED
      BY <1>2, <2>2, <2>3
<1>5. QED
    BY <1>3, <1>4

\* And there is one.
LEMMA SumExists ==
    ASSUME NEW S, NEW v, IsFiniteSet(S)
    PROVE  \E g : IsSum(g, v, S)
<1> DEFINE Bad == {t \in SUBSET S : ~\E g : IsSum(g, v, t)}
<1>1. SUFFICES ASSUME Bad # {} PROVE FALSE
    OBVIOUS
<1>2. PICK T \in Bad : \A U \in Bad : U \subseteq T => U = T
  <2> HIDE DEF Bad
  <2>1. Bad \in SUBSET (SUBSET S)
      BY DEF Bad
  <2>2. QED
      BY <1>1, <2>1, LeastSubset DEF Valued
<1> DEFINE G(t) == (CHOOSE g : IsSum(g, v, t))[t]
<1>3. ASSUME NEW t \in SUBSET T, t # T
      PROVE  G(t) = IF t = {} THEN 0 ELSE v[First(t)] + G(t \ {First(t)})
  <2> DEFINE g == CHOOSE h : IsSum(h, v, t)
  <2>1. IsSum(g, v, t)
    <3>1. \E h : IsSum(h, v, t)
        BY <1>2, <1>3
    <3>2. QED
        BY <3>1
  <2>2. CASE t = {}
      BY <2>1, <2>2, SumValue
  <2>3. CASE t # {}
    <3> DEFINE u == t \ {First(t)}
               h == CHOOSE k : IsSum(k, v, u)
    <3>1. u \in SUBSET T /\ u # T /\ u \subseteq t
        BY <1>3
    <3>2. IsSum(h, v, u)
      <4>1. \E k : IsSum(k, v, u)
          BY <1>2, <3>1
      <4>2. QED
          BY <4>1
    <3>3. g[u] = h[u]
      <4>1. IsFiniteSet(u)
          BY <3>1, FS_Subset
      <4> HIDE DEF g, h, u
      <4>2. QED
          BY <2>1, <3>1, <3>2, <4>1, SumUnique
    <3>4. g[t] = v[First(t)] + g[u]
      <4> HIDE DEF g
      <4>1. QED
          BY <2>1, <2>3, SumValue
    <3>5. QED
        BY <2>3, <3>3, <3>4
  <2>4. QED
      BY <2>2, <2>3
<1> DEFINE f == [t \in SUBSET T |->
                    IF t = T THEN IF T = {} THEN 0 ELSE v[First(T)] + G(T \ {First(T)})
                    ELSE G(t)]
<1> HIDE DEF G
<1>4. ASSUME NEW t \in SUBSET T
      PROVE  f[t] = IF t = {} THEN 0 ELSE v[First(t)] + f[t \ {First(t)}]
  <2>1. CASE t = {}
    <3>1. f[t] = IF t = T THEN 0 ELSE G(t)
        BY <2>1
    <3>2. QED
        BY <1>3, <2>1, <3>1
  <2>2. CASE t # {}
    <3>1. PICK u \in SUBSET T : u = t \ {First(t)}
        OBVIOUS
    <3>2. u # T /\ u # t
        BY <2>2, <3>1, FirstIn
    <3>3. f[u] = G(u)
        BY <3>2
    <3>4. CASE t = T
        BY <2>2, <3>1, <3>3, <3>4
    <3>5. CASE t # T
      <4>1. f[t] = G(t)
          BY <3>5
      <4>2. G(t) = v[First(t)] + G(u)
          BY <1>3, <2>2, <3>1, <3>5
      <4>3. QED
          BY <2>2, <3>1, <3>3, <4>1, <4>2
    <3>6. QED
        BY <3>4, <3>5
  <2>3. QED
      BY <2>1, <2>2
<1>5. IsSum(f, v, T)
  <2>1. f = [t \in SUBSET T |-> f[t]]
      OBVIOUS
  <2> HIDE DEF f
  <2>2. f = [t \in SUBSET T |-> IF t = {} THEN 0 ELSE v[First(t)] + f[t \ {First(t)}]]
      BY <1>4, <2>1
  <2>3. QED
      BY <2>2 DEF IsSum
<1>6. QED
    BY <1>2, <1>5

\* A sum is the value of one element and the sum of the rest.
LEMMA SumOfFacts ==
    ASSUME NEW S, IsFiniteSet(S), NEW v
    PROVE  SumOf(v, S) = IF S = {} THEN 0
                         ELSE v[First(S)] + SumOf(v, S \ {First(S)})
<1> DEFINE g == CHOOSE k : IsSum(k, v, S)
           u == S \ {First(S)}
           h == CHOOSE k : IsSum(k, v, u)
<1>1. IsSum(g, v, S)
    BY SumExists
<1>2. IsFiniteSet(u)
    BY FS_Subset
<1>3. IsSum(h, v, u)
    BY <1>2, SumExists
<1>4. SumOf(v, S) = g[S] /\ SumOf(v, u) = h[u] /\ u \subseteq S
    BY DEF SumOf
<1> HIDE DEF g, h, u
<1>5. h[u] = g[u]
  <2>1. u \subseteq S /\ u \subseteq u
      BY <1>4
  <2>2. QED
      BY <1>1, <1>2, <1>3, <2>1, SumUnique
<1>6. g[S] = IF S = {} THEN 0 ELSE v[First(S)] + g[S \ {First(S)}]
    BY <1>1, SumValue
<1>7. QED
    BY <1>4, <1>5, <1>6 DEF u

LEMMA SumOfInt ==
    ASSUME NEW S, NEW v, Valued(v, S)
    PROVE  SumOf(v, S) \in Int
<1>1. \E g : IsSum(g, v, S)
    BY SumExists DEF Valued
<1>2. IsSum(CHOOSE g : IsSum(g, v, S), v, S)
    BY <1>1
<1>3. QED
    BY <1>2, SumInt DEF SumOf

\* Parts of what has values have them.
LEMMA ValuedPart ==
    ASSUME NEW S, NEW v, Valued(v, S), NEW T \in SUBSET S
    PROVE  Valued(v, T)
BY FS_Subset DEF Valued

\* Any element may be the first.
LEMMA SumOfStep ==
    ASSUME NEW S, NEW v, Valued(v, S), NEW x \in S
    PROVE  SumOf(v, S) = v[x] + SumOf(v, S \ {x})
<1> DEFINE Bad == {t \in SUBSET S : \E y \in t : SumOf(v, t) # v[y] + SumOf(v, t \ {y})}
<1>1. SUFFICES ASSUME Bad # {} PROVE FALSE
    OBVIOUS
<1>2. PICK T \in Bad : \A U \in Bad : U \subseteq T => U = T
  <2> HIDE DEF Bad
  <2>1. Bad \in SUBSET (SUBSET S)
      BY DEF Bad
  <2>2. QED
      BY <1>1, <2>1, LeastSubset DEF Valued
<1> HIDE DEF Bad
<1>3. T \in SUBSET S /\ IsFiniteSet(T)
    BY <1>2, FS_Subset DEF Bad, Valued
<1>4. PICK y \in T : SumOf(v, T) # v[y] + SumOf(v, T \ {y})
    BY <1>2 DEF Bad
<1>5. PICK z \in T : z = First(T)
    BY FirstIn
<1>6. SumOf(v, T) = v[z] + SumOf(v, T \ {z})
    BY <1>3, <1>4, <1>5, SumOfFacts
<1>7. y # z
    BY <1>4, <1>6
<1>8. ASSUME NEW U \in SUBSET T, U # T, NEW x1 \in U
      PROVE  SumOf(v, U) = v[x1] + SumOf(v, U \ {x1})
    BY <1>2, <1>3, <1>8 DEF Bad
<1>9. PICK A, B, C \in SUBSET T : A = T \ {z} /\ B = T \ {y} /\ C = (T \ {z}) \ {y}
    OBVIOUS
<1>10. /\ A # T /\ B # T /\ y \in A /\ z \in B
       /\ C = A \ {y} /\ C = B \ {z}
    BY <1>7, <1>9
<1>11. SumOf(v, A) = v[y] + SumOf(v, C) /\ SumOf(v, B) = v[z] + SumOf(v, C)
    BY <1>8, <1>10
<1>12. SumOf(v, C) \in Int /\ v[y] \in Int /\ v[z] \in Int
  <2>1. Valued(v, C)
      BY <1>3, ValuedPart
  <2>2. QED
      BY <1>3, <2>1, SumOfInt DEF Valued
<1>13. SumOf(v, T) = v[z] + SumOf(v, A) /\ SumOf(v, T) # v[y] + SumOf(v, B)
    BY <1>4, <1>6, <1>9
<1>14. QED
    BY <1>11, <1>12, <1>13

\* A larger value everywhere is a larger sum.
LEMMA SumOfMonotone ==
    ASSUME NEW S, NEW v, NEW w, Valued(v, S), Valued(w, S),
           \A x \in S : v[x] <= w[x]
    PROVE  SumOf(v, S) <= SumOf(w, S)
<1> DEFINE Bad == {t \in SUBSET S : ~(SumOf(v, t) <= SumOf(w, t))}
<1>1. SUFFICES ASSUME Bad # {} PROVE FALSE
    OBVIOUS
<1>2. PICK T \in Bad : \A U \in Bad : U \subseteq T => U = T
  <2> HIDE DEF Bad
  <2>1. Bad \in SUBSET (SUBSET S)
      BY DEF Bad
  <2>2. QED
      BY <1>1, <2>1, LeastSubset DEF Valued
<1> HIDE DEF Bad
<1>3. T \in SUBSET S /\ IsFiniteSet(T) /\ ~(SumOf(v, T) <= SumOf(w, T))
    BY <1>2, FS_Subset DEF Bad, Valued
<1>4. CASE T = {}
    BY <1>3, <1>4, SumOfFacts
<1>5. CASE T # {}
  <2>1. PICK z \in T : z = First(T)
      BY <1>5, FirstIn
  <2>2. PICK U \in SUBSET T : U = T \ {z}
      OBVIOUS
  <2>3. SumOf(v, T) = v[z] + SumOf(v, U) /\ SumOf(w, T) = w[z] + SumOf(w, U)
      BY <1>3, <1>5, <2>1, <2>2, SumOfFacts
  <2>4. SumOf(v, U) <= SumOf(w, U)
      BY <1>2, <1>3, <2>1, <2>2 DEF Bad
  <2>5. Valued(v, U) /\ Valued(w, U)
      BY <1>3, ValuedPart
  <2>6. SumOf(v, U) \in Int /\ SumOf(w, U) \in Int
      BY <2>5, SumOfInt
  <2>7. v[z] \in Int /\ w[z] \in Int /\ v[z] <= w[z]
      BY <1>3, <2>1 DEF Valued
  <2>8. QED
      BY <1>3, <2>3, <2>4, <2>6, <2>7
<1>6. QED
    BY <1>4, <1>5

\* Equal values have equal sums.
LEMMA SumOfSame ==
    ASSUME NEW S, NEW v, NEW w, Valued(v, S), Valued(w, S),
           \A x \in S : v[x] = w[x]
    PROVE  SumOf(v, S) = SumOf(w, S)
<1>1. \A x \in S : v[x] <= w[x] /\ w[x] <= v[x]
    BY DEF Valued
<1>2. SumOf(v, S) <= SumOf(w, S) /\ SumOf(w, S) <= SumOf(v, S)
    BY <1>1, SumOfMonotone
<1>3. SumOf(v, S) \in Int /\ SumOf(w, S) \in Int
    BY SumOfInt
<1>4. QED
    BY <1>2, <1>3

\* No value below zero, no sum below zero.
LEMMA SumOfNat ==
    ASSUME NEW S, NEW v, IsFiniteSet(S), \A x \in S : v[x] \in Nat
    PROVE  SumOf(v, S) \in Nat
<1> DEFINE Bad == {t \in SUBSET S : SumOf(v, t) \notin Nat}
<1>1. SUFFICES ASSUME Bad # {} PROVE FALSE
    OBVIOUS
<1>2. PICK T \in Bad : \A U \in Bad : U \subseteq T => U = T
  <2> HIDE DEF Bad
  <2>1. Bad \in SUBSET (SUBSET S)
      BY DEF Bad
  <2>2. QED
      BY <1>1, <2>1, LeastSubset
<1> HIDE DEF Bad
<1>3. T \in SUBSET S /\ IsFiniteSet(T) /\ SumOf(v, T) \notin Nat
    BY <1>2, FS_Subset DEF Bad
<1>4. CASE T = {}
    BY <1>3, <1>4, SumOfFacts
<1>5. CASE T # {}
  <2>1. PICK z \in T : z = First(T)
      BY <1>5, FirstIn
  <2>2. PICK U \in SUBSET T : U = T \ {z}
      OBVIOUS
  <2>3. SumOf(v, T) = v[z] + SumOf(v, U)
      BY <1>3, <1>5, <2>1, <2>2, SumOfFacts
  <2>4. SumOf(v, U) \in Nat
      BY <1>2, <1>3, <2>1, <2>2 DEF Bad
  <2>5. v[z] \in Nat
      BY <1>3, <2>1
  <2>6. QED
      BY <1>3, <2>3, <2>4, <2>5
<1>6. QED
    BY <1>4, <1>5

\* Elements that count for nothing may be left out.
LEMMA SumOfZeros ==
    ASSUME NEW S, NEW v, Valued(v, S), NEW Z, \A x \in S \cap Z : v[x] = 0
    PROVE  SumOf(v, S) = SumOf(v, S \ Z)
<1> DEFINE Bad == {t \in SUBSET S : SumOf(v, t) # SumOf(v, t \ Z)}
<1>1. SUFFICES ASSUME Bad # {} PROVE FALSE
    OBVIOUS
<1>2. PICK T \in Bad : \A U \in Bad : U \subseteq T => U = T
  <2> HIDE DEF Bad
  <2>1. Bad \in SUBSET (SUBSET S)
      BY DEF Bad
  <2>2. QED
      BY <1>1, <2>1, LeastSubset DEF Valued
<1> HIDE DEF Bad
<1>3. T \in SUBSET S /\ Valued(v, T) /\ SumOf(v, T) # SumOf(v, T \ Z)
    BY <1>2, ValuedPart DEF Bad
<1>4. PICK z \in T : z \in Z
  <2>1. T \cap Z # {}
    <3>1. SUFFICES ASSUME T \cap Z = {} PROVE FALSE
        OBVIOUS
    <3>2. T \ Z = T
        BY <3>1
    <3>3. QED
        BY <1>3, <3>2
  <2>2. QED
      BY <2>1
<1>5. PICK U \in SUBSET T : U = T \ {z}
    OBVIOUS
<1>6. SumOf(v, T) = v[z] + SumOf(v, U)
    BY <1>3, <1>5, SumOfStep
<1>7. U \ Z = T \ Z
    BY <1>4, <1>5
<1>8. SumOf(v, U) = SumOf(v, U \ Z)
    BY <1>2, <1>3, <1>4, <1>5 DEF Bad
<1>9. v[z] = 0
    BY <1>3, <1>4
<1>10. SumOf(v, U) \in Int
    BY <1>3, ValuedPart, SumOfInt
<1>11. SumOf(v, U) = SumOf(v, T \ Z) /\ SumOf(v, T) = 0 + SumOf(v, U)
    BY <1>6, <1>7, <1>8, <1>9
<1>12. SumOf(v, T) = SumOf(v, U)
    BY <1>10, <1>11
<1>13. QED
    BY <1>3, <1>11, <1>12

(***************************************************************************)
(* Scoring. A rule's share is capped, so more findings never lower it, and *)
(* rounding and the ceiling keep the order of what is under them. A rule   *)
(* without exposure is in neither the sum nor the ceiling, and the         *)
(* findings of a gated rule are read by neither.                           *)
(***************************************************************************)

LEMMA MinOfTwo ==
    ASSUME NEW x \in Int, NEW y \in Int
    PROVE  Min({x, y}) = IF x <= y THEN x ELSE y
<1>1. PICK m \in {x, y} : m = IF x <= y THEN x ELSE y
    OBVIOUS
<1>2. \A k \in {x, y} : m <= k
    BY <1>1
<1>3. \A n \in {x, y} : (\A k \in {x, y} : n <= k) => n = m
    BY <1>1
<1>4. QED
    BY <1>1, <1>2, <1>3 DEF Min

\* Division with what is left over.
LEMMA Quotient ==
    ASSUME NEW a \in Nat, NEW b \in Nat \ {0}
    PROVE  /\ a \div b \in Nat /\ a % b \in 0 .. b - 1
           /\ a = b * (a \div b) + (a % b)
OBVIOUS

\* Python's round does not change the order of two rates over one exposure.
LEMMA RoundedFacts ==
    ASSUME NEW a \in Nat, NEW b \in Nat \ {0}
    PROVE  /\ Rounded(a, b) \in Nat
           /\ Rounded(0, b) = 0
           /\ \A c \in Nat : a <= c => Rounded(a, b) <= Rounded(c, b)
<1>1. ASSUME NEW x \in Nat
      PROVE  \E q \in Nat, r \in 0 .. b - 1 :
                /\ x = b * q + r
                /\ Rounded(x, b) = IF 2 * r > b \/ (2 * r = b /\ q % 2 = 1) THEN q + 1 ELSE q
  <2>1. PICK q \in Nat, r \in 0 .. b - 1 : q = x \div b /\ r = (x % b) /\ x = b * q + r
      BY Quotient
  <2>2. QED
      BY <2>1 DEF Rounded
<1>2. PICK q \in Nat, r \in 0 .. b - 1 :
         /\ a = b * q + r
         /\ Rounded(a, b) = IF 2 * r > b \/ (2 * r = b /\ q % 2 = 1) THEN q + 1 ELSE q
    BY <1>1
<1>3. Rounded(a, b) \in Nat
    BY <1>2
<1>4. Rounded(0, b) = 0
  <2>1. PICK q0 \in Nat, r0 \in 0 .. b - 1 :
           /\ 0 = b * q0 + r0
           /\ Rounded(0, b) = IF 2 * r0 > b \/ (2 * r0 = b /\ q0 % 2 = 1) THEN q0 + 1 ELSE q0
      BY <1>1
  <2>2. q0 = 0
    <3>1. CASE q0 >= 1
      <4>1. b * q0 >= b
          BY <3>1
      <4>2. QED
          BY <2>1, <4>1
    <3>2. QED
        BY <3>1
  <2>3. r0 = 0
      BY <2>1, <2>2
  <2>4. QED
      BY <2>1, <2>2, <2>3
<1>5. ASSUME NEW c \in Nat, a <= c
      PROVE  Rounded(a, b) <= Rounded(c, b)
  <2>1. PICK p \in Nat, s \in 0 .. b - 1 :
           /\ c = b * p + s
           /\ Rounded(c, b) = IF 2 * s > b \/ (2 * s = b /\ p % 2 = 1) THEN p + 1 ELSE p
      BY <1>1
  <2>2. q <= p
    <3>1. CASE p + 1 <= q
      <4>1. b * (p + 1) <= b * q
          BY <3>1
      <4>2. b * (p + 1) = b * p + b
          OBVIOUS
      <4>3. b * p \in Int /\ b * q \in Int
          OBVIOUS
      <4>4. QED
          BY <1>2, <1>5, <2>1, <4>1, <4>2, <4>3
    <3>2. QED
        BY <3>1
  <2>3. CASE p = q
    <3>1. r <= s
      <4>1. b * q \in Int
          OBVIOUS
      <4>2. QED
          BY <1>2, <1>5, <2>1, <2>3, <4>1
    <3>2. QED
        BY <1>2, <2>1, <2>3, <3>1
  <2>4. CASE q < p
      BY <1>2, <2>1, <2>4
  <2>5. QED
      BY <2>2, <2>3, <2>4
<1>6. QED
    BY <1>3, <1>4, <1>5

Counted == [Mark -> Nat]
Codes == Builtin \cup Dynamic
Denoms == [{"nvl", "tp"} -> Exposure]

\* What counts in ms counts in ms2 too.
OpenGrows(ms, ms2) == \A k \in Mark : k.status = "new" => ms[k] <= ms2[k]

\* Findings that count, of one rule and severity.
LEMMA StandingFacts ==
    ASSUME NEW ms \in Counted, NEW code \in Codes \cup {Combo}, NEW v \in Severity
    PROVE  /\ Standing(ms, code, v) \in Nat
           /\ \A ms2 \in Counted : OpenGrows(ms, ms2) => Standing(ms, code, v) <= Standing(ms2, code, v)
<1>1. PICK k \in Mark : k = [code |-> code, severity |-> v, status |-> "new"]
    BY DEF Mark, Codes
<1>2. \A m \in Counted : Standing(m, code, v) = m[k]
    BY <1>1 DEF Standing
<1>3. k.status = "new"
    BY <1>1
<1>4. QED
    BY <1>2, <1>3 DEF OpenGrows, Counted

\* Findings and points of a rule grow with its findings that count.
LEMMA CountFacts ==
    ASSUME NEW ms \in Counted, NEW code \in Codes \cup {Combo}
    PROVE  /\ CountOf(ms, code) \in Nat /\ PointsOf(ms, code) \in Nat
           /\ CountOf(ms, code) = 0 => PointsOf(ms, code) = 0
           /\ \A ms2 \in Counted : OpenGrows(ms, ms2) =>
                 /\ CountOf(ms, code) <= CountOf(ms2, code)
                 /\ PointsOf(ms, code) <= PointsOf(ms2, code)
<1>1. "critical" \in Severity /\ "warning" \in Severity /\ "info" \in Severity
    BY DEF Severity
<1>2. \A m \in Counted : /\ Standing(m, code, "critical") \in Nat
                         /\ Standing(m, code, "warning") \in Nat
                         /\ Standing(m, code, "info") \in Nat
    BY <1>1, StandingFacts
<1>3. \A ms2 \in Counted : OpenGrows(ms, ms2) =>
         /\ Standing(ms, code, "critical") <= Standing(ms2, code, "critical")
         /\ Standing(ms, code, "warning") <= Standing(ms2, code, "warning")
         /\ Standing(ms, code, "info") <= Standing(ms2, code, "info")
    BY <1>1, StandingFacts
<1>4. \A m \in Counted :
         PointsOf(m, code) = 10 * Standing(m, code, "critical")
                             + 3 * Standing(m, code, "warning") + Standing(m, code, "info")
    BY <1>2 DEF PointsOf, SEVERITY_POINTS
<1>5. QED
    BY <1>2, <1>3, <1>4 DEF CountOf

\* A rule's share is at most ten, and more findings never lower it.
LEMMA RuleScoreFacts ==
    ASSUME NEW ms \in Counted, NEW code \in Codes, NEW denom \in Nat
    PROVE  /\ compute_rule_score(ms, code, denom) \in Nat
           /\ CountOf(ms, code) = 0 => compute_rule_score(ms, code, denom) = 0
           /\ \A ms2 \in Counted : OpenGrows(ms, ms2) =>
                 compute_rule_score(ms, code, denom) <= compute_rule_score(ms2, code, denom)
<1>1. CASE denom = 0
    BY <1>1 DEF compute_rule_score
<1>2. CASE denom # 0
  <2>1. \A m \in Counted : 1000 * PointsOf(m, code) \in Nat
      BY CountFacts
  <2>2. \A m \in Counted : Rounded(1000 * PointsOf(m, code), denom) \in Nat
      BY <1>2, <2>1, RoundedFacts
  <2>3. \A m \in Counted :
           compute_rule_score(m, code, denom)
           = IF 10000 <= Rounded(1000 * PointsOf(m, code), denom) THEN 10000
             ELSE Rounded(1000 * PointsOf(m, code), denom)
    <3>1. TAKE m \in Counted
    <3>2. PICK x \in Nat : x = Rounded(1000 * PointsOf(m, code), denom)
        BY <2>2
    <3>3. compute_rule_score(m, code, denom) = Min({10000, x})
        BY <1>2, <3>2 DEF compute_rule_score, MAX_RULE_SCORE
    <3>4. QED
        BY <3>2, <3>3, MinOfTwo
  <2>4. ASSUME CountOf(ms, code) = 0
        PROVE  compute_rule_score(ms, code, denom) = 0
    <3>1. 1000 * PointsOf(ms, code) = 0
        BY <2>4, CountFacts
    <3>2. Rounded(1000 * PointsOf(ms, code), denom) = 0
        BY <1>2, <3>1, RoundedFacts
    <3>3. QED
        BY <2>3, <3>2
  <2>5. ASSUME NEW ms2 \in Counted, OpenGrows(ms, ms2)
        PROVE  compute_rule_score(ms, code, denom) <= compute_rule_score(ms2, code, denom)
    <3>1. PointsOf(ms, code) <= PointsOf(ms2, code)
        BY <2>5, CountFacts
    <3>2. PICK x, y \in Nat : x = 1000 * PointsOf(ms, code) /\ y = 1000 * PointsOf(ms2, code)
        BY <2>1
    <3>3. x <= y
        BY <3>1, <3>2, CountFacts
    <3>4. Rounded(x, denom) <= Rounded(y, denom)
        BY <1>2, <3>3, RoundedFacts
    <3>5. Rounded(x, denom) \in Nat /\ Rounded(y, denom) \in Nat
        BY <1>2, RoundedFacts
    <3>6. QED
        BY <2>3, <3>2, <3>4, <3>5
  <2>6. QED
      BY <2>2, <2>3, <2>4, <2>5
<1>3. QED
    BY <1>1, <1>2

\* The rate of each rule of a set, as a function that can be summed.
RuleScores(ms, denoms, rated, S) ==
    [c \in S |-> compute_rule_score(ms, c, denoms[scope_of(c, rated)])]

Bonus(ms) == IF CountOf(ms, Combo) > 0 THEN 20000 ELSE 0
Ceiling(rated) == 10 * Cardinality(rated) + 20

\* The shares of the rules are values that can be summed.
LEMMA RuleScoresFacts ==
    ASSUME NEW ms \in Counted, NEW denoms \in Denoms, NEW rated \in SUBSET Codes,
           NEW S \in SUBSET Codes
    PROVE  /\ Valued(RuleScores(ms, denoms, rated, S), S)
           /\ \A c \in S : /\ denoms[scope_of(c, rated)] \in Nat
                           /\ RuleScores(ms, denoms, rated, S)[c]
                              = compute_rule_score(ms, c, denoms[scope_of(c, rated)])
                           /\ RuleScores(ms, denoms, rated, S)[c] \in Nat
<1>1. IsFiniteSet(S)
    BY ScoringAssumption, FS_Subset DEF Codes
<1>2. ASSUME NEW c \in S
      PROVE  denoms[scope_of(c, rated)] \in Nat
  <2>1. scope_of(c, rated) \in {"nvl", "tp"}
      BY ScoringAssumption DEF scope_of, Codes
  <2>2. QED
      BY <2>1, ScoringAssumption DEF Denoms
<1>3. QED
    BY <1>1, <1>2, RuleScoreFacts DEF RuleScores, Valued

\* The score in terms of a sum of a function.
LEMMA ScoreIs ==
    ASSUME NEW ms \in Counted, NEW denoms \in Denoms, NEW scope \in SUBSET Codes, NEW gated
    PROVE  compute_company_year_score(ms, denoms, scope, gated)
           = Min({1000, Rounded(SumOf(RuleScores(ms, denoms, scope \ gated, Codes \ gated),
                                      Codes \ gated) + Bonus(ms),
                                Ceiling(scope \ gated))})
<1> DEFINE S == Codes \ gated
           rated == scope \ gated
           v == RuleScores(ms, denoms, rated, S)
<1>1. rule_scores(ms, denoms, rated, S) = SumOf(v, S)
  <2> DEFINE Sc(c) == compute_rule_score(ms, c, denoms[scope_of(c, rated)])
  <2>1. \A c \in S : v[c] = Sc(c)
      BY DEF RuleScores
  <2>2. rule_scores(ms, denoms, rated, S)
        = (CHOOSE g : g = [s \in SUBSET S |->
              IF s = {} THEN 0
              ELSE Sc(CHOOSE x \in s : TRUE) + g[s \ {CHOOSE x \in s : TRUE}]])[S]
      BY DEF rule_scores, MapThenSumSet, MapThenFoldSet
  <2> HIDE DEF v, S, Sc
  <2>3. rule_scores(ms, denoms, rated, S)
        = (CHOOSE g : g = [s \in SUBSET S |->
              IF s = {} THEN 0 ELSE Sc(First(s)) + g[s \ {First(s)}]])[S]
      BY <2>2 DEF First
  <2>4. ASSUME NEW g
        PROVE  [s \in SUBSET S |-> IF s = {} THEN 0 ELSE Sc(First(s)) + g[s \ {First(s)}]]
               = [s \in SUBSET S |-> IF s = {} THEN 0 ELSE v[First(s)] + g[s \ {First(s)}]]
    <3>1. ASSUME NEW s \in SUBSET S, s # {}
          PROVE  v[First(s)] = Sc(First(s))
        BY <2>1, <3>1, FirstIn
    <3>2. QED
        BY <3>1
  <2>5. \A g : IsSum(g, v, S) <=>
           g = [s \in SUBSET S |-> IF s = {} THEN 0 ELSE Sc(First(s)) + g[s \ {First(s)}]]
      BY <2>4 DEF IsSum
  <2>6. QED
      BY <2>3, <2>5 DEF SumOf
<1>2. QED
    BY <1>1 DEF compute_company_year_score, Bonus, Ceiling, MAX_RULE_SCORE, COMBO_BONUS, Codes

\* The ceiling is never zero, not even with no rule rated.
LEMMA CeilingPositive ==
    ASSUME NEW rated \in SUBSET Codes
    PROVE  Ceiling(rated) \in Nat \ {0}
<1>1. IsFiniteSet(rated)
    BY ScoringAssumption, FS_Subset DEF Codes
<1>2. Cardinality(rated) \in Nat
    BY <1>1, FS_CardinalityType
<1>3. QED
    BY <1>2 DEF Ceiling

LEMMA BonusFacts ==
    ASSUME NEW ms \in Counted
    PROVE  /\ Bonus(ms) \in Nat
           /\ \A ms2 \in Counted : OpenGrows(ms, ms2) => Bonus(ms) <= Bonus(ms2)
<1>1. \A m \in Counted : CountOf(m, Combo) \in Nat
    BY CountFacts
<1>2. \A ms2 \in Counted : OpenGrows(ms, ms2) => CountOf(ms, Combo) <= CountOf(ms2, Combo)
    BY CountFacts
<1>3. QED
    BY <1>1, <1>2 DEF Bonus

\* The score of a year is between none and all and grows with the findings.
LEMMA ScoreFacts ==
    ASSUME NEW ms \in Counted, NEW denoms \in Denoms, NEW scope \in SUBSET Codes, NEW gated
    PROVE  /\ compute_company_year_score(ms, denoms, scope, gated) \in 0 .. 1000
           /\ \A ms2 \in Counted : OpenGrows(ms, ms2) =>
                 compute_company_year_score(ms, denoms, scope, gated)
                 <= compute_company_year_score(ms2, denoms, scope, gated)
<1> DEFINE S == Codes \ gated
           rated == scope \ gated
           Raw(m) == SumOf(RuleScores(m, denoms, rated, S), S) + Bonus(m)
           Mean(m) == Rounded(Raw(m), Ceiling(rated))
<1>1. S \in SUBSET Codes /\ rated \in SUBSET Codes /\ IsFiniteSet(S)
    BY ScoringAssumption, FS_Subset DEF Codes
<1>2. Ceiling(rated) \in Nat \ {0}
    BY <1>1, CeilingPositive
<1>3. \A m \in Counted : compute_company_year_score(m, denoms, scope, gated) = Min({1000, Mean(m)})
    BY ScoreIs
<1> HIDE DEF S, rated
<1>4. ASSUME NEW m \in Counted
      PROVE  /\ SumOf(RuleScores(m, denoms, rated, S), S) \in Nat
             /\ Raw(m) \in Nat /\ Mean(m) \in Nat
  <2>1. SumOf(RuleScores(m, denoms, rated, S), S) \in Nat
    <3>1. \A c \in S : RuleScores(m, denoms, rated, S)[c] \in Nat
        BY <1>1, RuleScoresFacts
    <3>2. QED
        BY <1>1, <3>1, SumOfNat
  <2>2. Raw(m) \in Nat
      BY <2>1, BonusFacts
  <2>3. QED
      BY <1>2, <2>1, <2>2, RoundedFacts
<1>5. ASSUME NEW m \in Counted
      PROVE  compute_company_year_score(m, denoms, scope, gated)
             = IF 1000 <= Mean(m) THEN 1000 ELSE Mean(m)
  <2>1. PICK x \in Nat : x = Mean(m)
      BY <1>4
  <2>2. compute_company_year_score(m, denoms, scope, gated) = Min({1000, x})
      BY <1>3, <2>1
  <2>3. QED
      BY <2>1, <2>2, MinOfTwo
<1>6. ASSUME NEW ms2 \in Counted, OpenGrows(ms, ms2)
      PROVE  Mean(ms) <= Mean(ms2)
  <2>1. \A c \in S : RuleScores(ms, denoms, rated, S)[c] <= RuleScores(ms2, denoms, rated, S)[c]
    <3>1. TAKE c \in S
    <3>2. c \in Codes /\ denoms[scope_of(c, rated)] \in Nat
        BY <1>1, RuleScoresFacts
    <3>3. compute_rule_score(ms, c, denoms[scope_of(c, rated)])
          <= compute_rule_score(ms2, c, denoms[scope_of(c, rated)])
        BY <1>6, <3>2, RuleScoreFacts
    <3>4. QED
        BY <3>3 DEF RuleScores
  <2>2. SumOf(RuleScores(ms, denoms, rated, S), S) <= SumOf(RuleScores(ms2, denoms, rated, S), S)
    <3>1. /\ Valued(RuleScores(ms, denoms, rated, S), S)
          /\ Valued(RuleScores(ms2, denoms, rated, S), S)
        BY <1>1, RuleScoresFacts
    <3>2. QED
        BY <2>1, <3>1, SumOfMonotone
  <2>3. Bonus(ms) <= Bonus(ms2) /\ Bonus(ms) \in Nat /\ Bonus(ms2) \in Nat
      BY <1>6, BonusFacts
  <2>4. Raw(ms) <= Raw(ms2)
      BY <1>4, <2>2, <2>3
  <2>5. Raw(ms) \in Nat /\ Raw(ms2) \in Nat
      BY <1>4
  <2> HIDE DEF Raw
  <2>6. QED
      BY <1>2, <2>4, <2>5, RoundedFacts
<1> HIDE DEF Mean
<1>7. QED
    BY <1>4, <1>5, <1>6

ScoringTyped ==
    /\ marks \in [Mark -> Nat]
    /\ denominators \in [{"nvl", "tp"} -> Exposure]
    /\ skipped \subseteq Builtin \cup Dynamic
    /\ published \subseteq Dynamic

LEMMA ScoringInitTyped == ScoringInit => ScoringTyped
BY DEF ScoringInit, ScoringTyped

LEMMA ScoringStepTyped == ScoringTyped /\ [ScoringNext]_scoringVars => ScoringTyped'
<1> SUFFICES ASSUME ScoringTyped, [ScoringNext]_scoringVars
             PROVE  ScoringTyped'
    OBVIOUS
<1> USE DEF ScoringTyped
<1>1. ASSUME NEW k \in Mark, Find(k)
      PROVE  ScoringTyped'
    BY <1>1 DEF Find
<1>2. ASSUME NEW k \in Mark, NEW to \in {"new", "rejected"}, Judge(k, to)
      PROVE  ScoringTyped'
  <2>1. marks[k] - 1 \in Nat /\ marks[k] > 0
      BY <1>2 DEF Judge
  <2>2. PICK r \in Mark : r = [k EXCEPT !.status = to]
      BY DEF Mark
  <2>3. r # k
    <3>1. r.status = to /\ to # k.status
        BY <1>2, <2>2 DEF Judge, Mark
    <3>2. QED
        BY <3>1
  <2>4. marks' = [marks EXCEPT ![k] = marks[k] - 1, ![r] = marks[r] + 1]
      BY <1>2, <2>2, <2>3 DEF Judge
  <2>5. QED
      BY <1>2, <2>1, <2>4 DEF Judge
<1>3. ASSUME NEW c \in Builtin \cup published, Rerun(c)
      PROVE  ScoringTyped'
    BY <1>3 DEF Rerun
<1>4. ASSUME NEW c \in Dynamic, Publish(c)
      PROVE  ScoringTyped'
    BY <1>4 DEF Publish
<1>5. CASE UNCHANGED scoringVars
    BY <1>5 DEF scoringVars
<1>6. QED
    BY <1>1, <1>2, <1>3, <1>4, <1>5 DEF ScoringNext

LEMMA ScopeFacts ==
    ASSUME ScoringTyped
    PROVE  extended_rule_scope \in SUBSET Codes /\ marks \in Counted /\ denominators \in Denoms
BY DEF ScoringTyped, extended_rule_scope, Codes, Counted, Denoms

\* The score has its range, whatever was found, gated or published.
LEMMA ScoreTyped == ScoringTyped => ScoringTypeOK
<1> SUFFICES ASSUME ScoringTyped PROVE ScoringTypeOK
    OBVIOUS
<1>1. score_now \in 0 .. 1000
    BY ScopeFacts, ScoreFacts DEF score_now
<1>2. QED
    BY <1>1 DEF ScoringTypeOK, ScoringTyped

\* Scores stay scores: the counts, the gates and what is published are of
\* their types in every state and the score is from 0 to 1000 (scoring.py).
THEOREM ScoringTypes == ScoringSpec => []ScoringTypeOK
<1>1. ScoringSpec => []ScoringTyped
    BY ScoringInitTyped, ScoringStepTyped, PTL DEF ScoringSpec
<1>2. QED
    BY <1>1, ScoreTyped, PTL

\* Where exposure and gates stay, the score follows the findings that count.
LEMMA MonotoneStep ==
    ASSUME ScoringTyped, ScoringTyped'
    PROVE  UNCHANGED <<denominators, skipped, published>> =>
             LET open == {k \in Mark : k.status = "new"}
                 now == score_now
             IN  /\ (\A k \in open : marks[k] <= marks'[k]) => now <= score_now'
                 /\ (\A k \in open : marks[k] >= marks'[k]) => now >= score_now'
<1> SUFFICES ASSUME UNCHANGED <<denominators, skipped, published>>
             PROVE  /\ (\A k \in Mark : k.status = "new" => marks[k] <= marks'[k])
                          => score_now <= score_now'
                    /\ (\A k \in Mark : k.status = "new" => marks[k] >= marks'[k])
                          => score_now >= score_now'
    OBVIOUS
<1> DEFINE Sc(m) == compute_company_year_score(m, denominators, extended_rule_scope, skipped)
<1>1. score_now = Sc(marks) /\ score_now' = Sc(marks')
    BY DEF score_now, extended_rule_scope
<1>2. /\ extended_rule_scope \in SUBSET Codes /\ denominators \in Denoms
      /\ marks \in Counted /\ marks' \in Counted
    BY ScopeFacts DEF ScoringTyped, Counted
<1>3. /\ OpenGrows(marks, marks') => Sc(marks) <= Sc(marks')
      /\ OpenGrows(marks', marks) => Sc(marks') <= Sc(marks)
      /\ Sc(marks) \in 0 .. 1000 /\ Sc(marks') \in 0 .. 1000
    BY <1>2, ScoreFacts
<1> HIDE DEF Sc
<1>4. ASSUME \A k \in Mark : k.status = "new" => marks[k] <= marks'[k]
      PROVE  score_now <= score_now'
    BY <1>1, <1>3, <1>4 DEF OpenGrows
<1>5. ASSUME \A k \in Mark : k.status = "new" => marks[k] >= marks'[k]
      PROVE  score_now >= score_now'
  <2>1. OpenGrows(marks', marks)
      BY <1>2, <1>5 DEF OpenGrows, Counted
  <2>2. QED
      BY <1>1, <1>3, <2>1
<1>6. QED
    BY <1>4, <1>5

\* A score never falls as findings are added and never rises as officers put
\* them aside, whatever the number of rules (scoring.py), though each share is
\* rounded, capped and divided by a common ceiling.
THEOREM AVerdictNeverHelps == ScoringSpec => ScoreMonotone
<1>1. ScoringSpec => []ScoringTyped
    BY ScoringInitTyped, ScoringStepTyped, PTL DEF ScoringSpec
<1>2. ScoringTyped /\ ScoringTyped' =>
        [marks' # marks /\ UNCHANGED <<denominators, skipped, published>> =>
          LET open == {k \in Mark : k.status = "new"}
              now == score_now
          IN  /\ (\A k \in open : marks[k] <= marks'[k]) => now <= score_now'
              /\ (\A k \in open : marks[k] >= marks'[k]) => now >= score_now']_scoringVars
    BY MonotoneStep
<1>3. QED
    BY <1>1, <1>2, PTL DEF ScoreMonotone

\* Without the findings of the gated rules.
Ungated == [k \in Mark |-> IF k.code \in skipped THEN 0 ELSE marks[k]]

\* It has what marks has of the rules that concluded, and nothing of the rest.
LEMMA UngatedFacts ==
    ASSUME ScoringTyped
    PROVE  /\ Ungated \in Counted
           /\ \A c \in (Codes \cup {Combo}) \ skipped :
                 CountOf(Ungated, c) = CountOf(marks, c) /\ PointsOf(Ungated, c) = PointsOf(marks, c)
           /\ \A c \in Codes \cap skipped : CountOf(Ungated, c) = 0
<1>1. Ungated \in Counted
    BY DEF Ungated, Counted, ScoringTyped
<1>2. ASSUME NEW c \in Codes \cup {Combo}, NEW v \in Severity
      PROVE  Standing(Ungated, c, v) = IF c \in skipped THEN 0 ELSE Standing(marks, c, v)
  <2>1. PICK k \in Mark : k = [code |-> c, severity |-> v, status |-> "new"]
      BY DEF Mark, Codes
  <2>2. Ungated[k] = IF k.code \in skipped THEN 0 ELSE marks[k]
      BY DEF Ungated
  <2>3. k.code = c
      BY <2>1
  <2>4. QED
      BY <2>1, <2>2, <2>3 DEF Standing
<1>3. "critical" \in Severity /\ "warning" \in Severity /\ "info" \in Severity
    BY DEF Severity
<1>4. ASSUME NEW c \in (Codes \cup {Combo}) \ skipped
      PROVE  CountOf(Ungated, c) = CountOf(marks, c) /\ PointsOf(Ungated, c) = PointsOf(marks, c)
    BY <1>2, <1>3 DEF CountOf, PointsOf
<1>5. ASSUME NEW c \in Codes \cap skipped
      PROVE  CountOf(Ungated, c) = 0
    BY <1>2, <1>3 DEF CountOf
<1>6. QED
    BY <1>1, <1>4, <1>5

\* The score is the one of a company without the gated rules.
LEMMA GatedScoreTheSame ==
    ASSUME ScoringTyped
    PROVE  score_now = compute_company_year_score(Ungated, denominators,
                                                  extended_rule_scope \ skipped, {})
<1> DEFINE rated == extended_rule_scope \ skipped
           S == Codes \ skipped
           v == RuleScores(marks, denominators, rated, S)
           w == RuleScores(Ungated, denominators, rated, Codes)
           u == RuleScores(Ungated, denominators, rated, S)
<1>1. /\ marks \in Counted /\ Ungated \in Counted /\ denominators \in Denoms
      /\ extended_rule_scope \in SUBSET Codes /\ rated \in SUBSET Codes
      /\ S \in SUBSET Codes /\ Codes \in SUBSET Codes
    BY ScopeFacts, UngatedFacts
<1>2. score_now = Min({1000, Rounded(SumOf(v, S) + Bonus(marks), Ceiling(rated))})
    BY <1>1, ScoreIs DEF score_now
<1>3. compute_company_year_score(Ungated, denominators, rated, {})
      = Min({1000, Rounded(SumOf(w, Codes) + Bonus(Ungated), Ceiling(rated))})
  <2>1. rated \ {} = rated /\ Codes \ {} = Codes
      OBVIOUS
  <2> HIDE DEF rated
  <2>2. QED
      BY <1>1, <2>1, ScoreIs
<1> HIDE DEF rated, S
<1>4. /\ Valued(v, S) /\ Valued(w, Codes) /\ Valued(u, S)
      /\ \A c \in Codes : /\ w[c] = compute_rule_score(Ungated, c, denominators[scope_of(c, rated)])
                          /\ denominators[scope_of(c, rated)] \in Nat
      /\ \A c \in S : /\ v[c] = compute_rule_score(marks, c, denominators[scope_of(c, rated)])
                      /\ u[c] = compute_rule_score(Ungated, c, denominators[scope_of(c, rated)])
    BY <1>1, RuleScoresFacts
<1>5. \A c \in Codes \cap skipped : w[c] = 0
    BY <1>1, <1>4, UngatedFacts, RuleScoreFacts
<1>6. \A c \in S : v[c] = w[c]
  <2>1. TAKE c \in S
  <2>2. c \in Codes /\ c \in (Codes \cup {Combo}) \ skipped
      BY DEF S
  <2>3. CountOf(Ungated, c) = CountOf(marks, c) /\ PointsOf(Ungated, c) = PointsOf(marks, c)
      BY <2>2, UngatedFacts
  <2>4. PICK d : d = denominators[scope_of(c, rated)]
      OBVIOUS
  <2>5. compute_rule_score(Ungated, c, d) = compute_rule_score(marks, c, d)
      BY <2>3 DEF compute_rule_score
  <2> HIDE DEF v, w
  <2>6. QED
      BY <1>4, <2>2, <2>4, <2>5
<1>7. SumOf(w, Codes) = SumOf(w, S)
  <2> HIDE DEF w
  <2>1. SumOf(w, Codes) = SumOf(w, Codes \ skipped)
      BY <1>4, <1>5, SumOfZeros
  <2>2. QED
      BY <2>1 DEF S
<1>8. SumOf(w, S) = SumOf(v, S)
  <2> HIDE DEF w, v
  <2>1. Valued(w, S)
      BY <1>1, <1>4, ValuedPart
  <2>2. QED
      BY <1>4, <1>6, <2>1, SumOfSame
<1>9. Bonus(Ungated) = Bonus(marks)
  <2>1. Combo \notin skipped
      BY ScoringAssumption DEF ScoringTyped
  <2>2. QED
      BY <2>1, UngatedFacts DEF Bonus
<1>10. QED
    BY <1>2, <1>3, <1>7, <1>8, <1>9 DEF rated

\* What the breakdown says of coverage agrees with what is rated.
LEMMA CoverageFacts ==
    ASSUME ScoringTyped
    PROVE  LET b == breakdown(extended_rule_scope, skipped)
           IN  /\ score_coverage(b) = old_score_coverage(b)
               /\ score_coverage(b)[1] = Cardinality(extended_rule_scope \ skipped)
<1>1. IsFiniteSet(extended_rule_scope \ skipped) /\ IsFiniteSet(skipped)
    BY ScoringAssumption, ScopeFacts, FS_Subset DEF ScoringTyped, Codes
<1>2. PICK n, k \in Nat : n = Cardinality(extended_rule_scope \ skipped) /\ k = Cardinality(skipped)
    BY <1>1, FS_CardinalityType
<1>3. PICK b : b = [max_raw |-> 10 * n + 20, not_evaluable |-> skipped, rule_count |-> n + k]
    OBVIOUS
<1>4. breakdown(extended_rule_scope, skipped) = b
    BY <1>2, <1>3 DEF breakdown, MAX_RULE_SCORE, COMBO_BONUS
<1>5. ((10 * n + 20) - 20) \div 10 = n
    OBVIOUS
<1>6. old_score_coverage(b) = <<(n + k) - k, n + k>>
    BY <1>2, <1>3, <1>5 DEF old_score_coverage, MAX_RULE_SCORE, COMBO_BONUS
<1>7. score_coverage(b) = <<(n + k) - k, n + k>>
    BY <1>2, <1>3 DEF score_coverage
<1>8. (n + k) - k = n
    OBVIOUS
<1>9. QED
    BY <1>2, <1>4, <1>6, <1>7, <1>8

LEMMA GatedStep == ScoringTyped => GatedIsAbsent
BY GatedScoreTheSame, CoverageFacts DEF GatedIsAbsent, Ungated

\* A rule that could not conclude counts on neither side of the mean: neither
\* its findings nor its exposure move the score (scoring.py).
THEOREM GatedRulesAreAbsent == ScoringSpec => []GatedIsAbsent
<1>1. ScoringSpec => []ScoringTyped
    BY ScoringInitTyped, ScoringStepTyped, PTL DEF ScoringSpec
<1>2. QED
    BY <1>1, GatedStep, PTL

(***************************************************************************)
(* Checks: what the tables hold, and what the findings of a check are      *)
(* about. A finding's subject is a code of the rows or of the declarations *)
(* that the check read, and the denominator of the check counts those,     *)
(* whatever type the declarations vote for.                                *)
(***************************************************************************)

\* A finite set of numbers has a greatest and a least.
LEMMA MaxFacts ==
    ASSUME NEW S, IsFiniteSet(S), \A x \in S : x \in Int, S # {}
    PROVE  Max(S) \in S /\ \A x \in S : x <= Max(S)
<1> DEFINE Bad == {T \in SUBSET S : T # {} /\ ~\E m \in T : \A k \in T : m >= k}
<1>1. SUFFICES Bad = {}
  <2>1. ASSUME Bad = {} PROVE \E m \in S : \A k \in S : m >= k
      BY <2>1
  <2>2. QED
      BY <2>1 DEF Max
<1>2. SUFFICES ASSUME Bad # {} PROVE FALSE
    OBVIOUS
<1>3. PICK T \in Bad : \A U \in Bad : U \subseteq T => U = T
  <2> HIDE DEF Bad
  <2>1. Bad \in SUBSET (SUBSET S)
      BY DEF Bad
  <2>2. QED
      BY <1>2, <2>1, LeastSubset
<1>4. PICK x \in T : TRUE
    OBVIOUS
<1>5. PICK U \in SUBSET T : U = T \ {x}
    OBVIOUS
<1>6. U \notin Bad
    BY <1>3, <1>4, <1>5
<1>7. CASE U = {}
    BY <1>4, <1>5, <1>7
<1>8. CASE U # {}
  <2>1. PICK m \in U : \A k \in U : m >= k
      BY <1>5, <1>6, <1>8
  <2>2. m \in Int /\ x \in Int /\ \A k \in U : k \in Int
      BY <1>4
  <2>3. CASE m >= x
      BY <1>5, <2>1, <2>2, <2>3
  <2>4. CASE x > m
      BY <1>5, <2>1, <2>2, <2>4
  <2>5. QED
      BY <2>2, <2>3, <2>4
<1>9. QED
    BY <1>7, <1>8

\* Of finitely many rows one is the last.
LEMMA LastRowIn ==
    ASSUME NEW rows, IsFiniteSet(rows), rows # {}, \A r \in rows : r.no \in Int
    PROVE  LastRow(rows) \in rows
<1> DEFINE Bad == {T \in SUBSET rows : T # {} /\ ~\E r \in T : \A s \in T : s.no <= r.no}
<1>1. SUFFICES Bad = {}
  <2>1. ASSUME Bad = {} PROVE \E r \in rows : \A s \in rows : s.no <= r.no
      BY <2>1
  <2>2. QED
      BY <2>1 DEF LastRow
<1>2. SUFFICES ASSUME Bad # {} PROVE FALSE
    OBVIOUS
<1>3. PICK T \in Bad : \A U \in Bad : U \subseteq T => U = T
  <2> HIDE DEF Bad
  <2>1. Bad \in SUBSET (SUBSET rows)
      BY DEF Bad
  <2>2. QED
      BY <1>2, <2>1, LeastSubset
<1>4. PICK x \in T : TRUE
    OBVIOUS
<1>5. PICK U \in SUBSET T : U = T \ {x}
    OBVIOUS
<1>6. U \notin Bad
    BY <1>3, <1>4, <1>5
<1>7. CASE U = {}
    BY <1>4, <1>5, <1>7
<1>8. CASE U # {}
  <2>1. PICK m \in U : \A k \in U : k.no <= m.no
      BY <1>5, <1>6, <1>8
  <2>2. m.no \in Int /\ x.no \in Int /\ \A k \in U : k.no \in Int
      BY <1>4
  <2>3. CASE x.no <= m.no
      BY <1>5, <2>1, <2>2, <2>3
  <2>4. CASE m.no < x.no
      BY <1>5, <2>1, <2>2, <2>4
  <2>5. QED
      BY <2>2, <2>3, <2>4
<1>9. QED
    BY <1>7, <1>8

(* types *)
ChecksTyped ==
    /\ m15 = [y \in Period |-> m15[y]] /\ m15a = [y \in Period |-> m15a[y]]
    /\ m16 = [y \in Period |-> m16[y]] /\ bcct = [y \in Period |-> bcct[y]]
    /\ absent_fields = [y \in Period |-> absent_fields[y]]
    /\ ChecksTypeOK

LEMMA ChecksInitTyped == ChecksInit => ChecksTyped
BY DEF ChecksInit, ChecksTyped, ChecksTypeOK

LEMMA ChecksStepTyped == ChecksTyped /\ [ChecksNext]_checkVars => ChecksTyped'
<1> SUFFICES ASSUME ChecksTyped, [ChecksNext]_checkVars
             PROVE  ChecksTyped'
    OBVIOUS
<1> USE DEF ChecksTyped, ChecksTypeOK
<1>1. CASE SetFirstYear
    BY <1>1 DEF SetFirstYear
<1>2. ASSUME NEW y \in Period, LoadM15(y)
      PROVE  ChecksTyped'
    BY <1>2 DEF LoadM15
<1>3. ASSUME NEW y \in Period, LoadM15a(y)
      PROVE  ChecksTyped'
    BY <1>3 DEF LoadM15a
<1>4. ASSUME NEW y \in Period, LoadM16(y)
      PROVE  ChecksTyped'
    BY <1>4 DEF LoadM16
<1>5. ASSUME NEW y \in Period, LoadDeclarations(y)
      PROVE  ChecksTyped'
    BY <1>5 DEF LoadDeclarations
<1>6. ASSUME NEW y \in Period, ConfirmAbsent(y)
      PROVE  ChecksTyped'
    BY <1>6 DEF ConfirmAbsent
<1>7. CASE UNCHANGED checkVars
    BY <1>7 DEF checkVars
<1>8. QED
    BY <1>1, <1>2, <1>3, <1>4, <1>5, <1>6, <1>7 DEF ChecksNext

LEMMA ChecksAlways == ChecksSpec => []ChecksTyped
BY ChecksInitTyped, ChecksStepTyped, PTL DEF ChecksSpec

\* Every row of a period is one that its ingest may load.
THEOREM ChecksTypes == ChecksSpec => []ChecksTypeOK
<1>1. ChecksTyped => ChecksTypeOK
    BY DEF ChecksTyped
<1>2. QED
    BY <1>1, ChecksAlways, PTL

LEMMA RowFacts ==
    ASSUME ChecksTyped, NEW y \in Period
    PROVE  /\ IsFiniteSet(m15[y]) /\ IsFiniteSet(m15a[y])
           /\ IsFiniteSet(m16[y]) /\ IsFiniteSet(bcct[y])
           /\ \A r \in m15[y] : r.no \in Int /\ r.production_out_qty \in Int
           /\ \A r \in m15a[y] : r.no \in Int /\ r.intake_qty \in Int
           /\ \A n \in m16[y] : n.no \in Int /\ n.qty \in Int
           /\ \A l \in bcct[y] : l.quantity \in Int
<1>1. /\ m15[y] \in M15Load[y] \cup {{}} /\ m15a[y] \in M15aLoad[y] \cup {{}}
      /\ m16[y] \in M16Load[y] \cup {{}} /\ bcct[y] \in BcctLoad[y] \cup {{}}
    BY DEF ChecksTyped, ChecksTypeOK
<1>2. IsFiniteSet({})
    BY FS_EmptySet
<1>3. /\ \A rows \in M15Load[y] \cup M15aLoad[y] \cup M16Load[y] \cup BcctLoad[y] :
                IsFiniteSet(rows) /\ \A r \in rows : r.no \in Int
      /\ \A r \in UNION M15Load[y] : r.production_out_qty \in Int
      /\ \A r \in UNION M15aLoad[y] : r.intake_qty \in Int
      /\ \A n \in UNION M16Load[y] : n.qty \in Int
      /\ \A l \in UNION BcctLoad[y] : l.quantity \in Int
    BY ChecksAssumption
<1>4. QED
    BY <1>1, <1>2, <1>3

(* the vote *)
Votes(L, t) == Cardinality({l \in L : l.customs \in _DETECT_CODES(t)})

\* The lines speak for some type just when one of them has its code.
LEMMA VoteFacts ==
    ASSUME NEW L, IsFiniteSet(L)
    PROVE  _vote(L) # UNKNOWN <=> \E t \in DOMAIN PAIRING : Votes(L, t) # 0
<1> DEFINE C == {Votes(L, t) : t \in DOMAIN PAIRING}
           best == Max(C)
           J == {j \in DOMAIN TypeOrder : Votes(L, TypeOrder[j]) = best}
<1>1. \A t : Votes(L, t) \in Nat
  <2>1. TAKE t
  <2>2. IsFiniteSet({l \in L : l.customs \in _DETECT_CODES(t)})
      BY FS_Subset
  <2>3. QED
      BY <2>2, FS_CardinalityType DEF Votes
<1>2. DOMAIN PAIRING = {"DNCX", "GIA_CONG", "SXXK", "GIA_CONG_NN"}
    BY DEF PAIRING
<1>3. /\ DOMAIN TypeOrder = 1 .. 4
      /\ TypeOrder[1] = "DNCX" /\ TypeOrder[2] = "GIA_CONG"
      /\ TypeOrder[3] = "SXXK" /\ TypeOrder[4] = "GIA_CONG_NN"
    BY DEF TypeOrder
<1>4. best \in C /\ \A x \in C : x <= best
  <2>1. C = {Votes(L, "DNCX"), Votes(L, "GIA_CONG"), Votes(L, "SXXK"), Votes(L, "GIA_CONG_NN")}
      BY <1>2
  <2>2. C \in SUBSET Int /\ C # {}
      BY <1>1, <2>1
  <2>3. IsFiniteSet(C)
    <3>1. IsFiniteSet({Votes(L, "DNCX")}) /\ IsFiniteSet({Votes(L, "GIA_CONG")})
          /\ IsFiniteSet({Votes(L, "SXXK")}) /\ IsFiniteSet({Votes(L, "GIA_CONG_NN")})
        BY FS_Singleton
    <3>2. IsFiniteSet({Votes(L, "DNCX")} \cup {Votes(L, "GIA_CONG")})
        BY <3>1, FS_Union
    <3>3. IsFiniteSet({Votes(L, "SXXK")} \cup {Votes(L, "GIA_CONG_NN")})
        BY <3>1, FS_Union
    <3>4. IsFiniteSet(({Votes(L, "DNCX")} \cup {Votes(L, "GIA_CONG")})
                      \cup ({Votes(L, "SXXK")} \cup {Votes(L, "GIA_CONG_NN")}))
        BY <3>2, <3>3, FS_Union
    <3>5. C = ({Votes(L, "DNCX")} \cup {Votes(L, "GIA_CONG")})
                      \cup ({Votes(L, "SXXK")} \cup {Votes(L, "GIA_CONG_NN")})
        BY <2>1
    <3>6. QED
        BY <3>4, <3>5
  <2> HIDE DEF C
  <2>4. QED
      BY <2>2, <2>3, MaxFacts
<1>5. best = 0 <=> \A t \in DOMAIN PAIRING : Votes(L, t) = 0
    BY <1>1, <1>4
<1>6. J # {}
    BY <1>2, <1>3, <1>4
<1>7. _vote(L) = IF best = 0 THEN UNKNOWN ELSE TypeOrder[Min(J)]
    BY DEF _vote, Votes
<1>8. Min(J) \in J
  <2>1. \E x \in J : \A z \in J : x <= z
    <3>1. J \subseteq 1 .. 4
        BY <1>3
    <3> HIDE DEF J
    <3>2. CASE 1 \in J
        BY <3>1, <3>2
    <3>3. CASE 1 \notin J /\ 2 \in J
        BY <3>1, <3>3
    <3>4. CASE 1 \notin J /\ 2 \notin J /\ 3 \in J
        BY <3>1, <3>4
    <3>5. CASE 1 \notin J /\ 2 \notin J /\ 3 \notin J
      <4>1. \A j \in J : j = 1 \/ j = 2 \/ j = 3 \/ j = 4
          BY <3>1
      <4>2. \A j \in J : j = 4
          BY <3>5, <4>1
      <4>3. QED
          BY <1>6, <4>2
    <3>6. QED
        BY <3>2, <3>3, <3>4, <3>5
  <2>2. QED
      BY <2>1 DEF Min
<1>9. TypeOrder[Min(J)] # UNKNOWN
  <2>1. Min(J) \in 1 .. 4
      BY <1>3, <1>8
  <2>2. \A j \in 1 .. 4 : TypeOrder[j] # UNKNOWN
      BY <1>3 DEF UNKNOWN
  <2>3. QED
      BY <2>1, <2>2
<1>10. QED
    BY <1>5, <1>7, <1>9

\* Who speaks in a part speaks in the whole.
LEMMA VoteGrows ==
    ASSUME NEW M, IsFiniteSet(M), NEW L \in SUBSET M, _vote(L) # UNKNOWN
    PROVE  _vote(M) # UNKNOWN
<1>1. IsFiniteSet(L)
    BY FS_Subset
<1>2. PICK t \in DOMAIN PAIRING : Votes(L, t) # 0
    BY <1>1, VoteFacts
<1>3. {l \in L : l.customs \in _DETECT_CODES(t)} # {}
    BY <1>2, FS_EmptySet DEF Votes
<1>4. {l \in M : l.customs \in _DETECT_CODES(t)} # {}
    BY <1>3
<1>5. IsFiniteSet({l \in M : l.customs \in _DETECT_CODES(t)})
    BY FS_Subset
<1>6. Votes(M, t) # 0
    BY <1>4, <1>5, FS_EmptySet DEF Votes
<1>7. QED
    BY <1>6, VoteFacts

LEMMA RangeFinite ==
    ASSUME NEW S, IsFiniteSet(S), NEW f, DOMAIN f = S, f = [x \in S |-> f[x]]
    PROVE  IsFiniteSet({f[x] : x \in S})
<1>1. PICK R : R = {f[x] : x \in S}
    OBVIOUS
<1>2. f \in [S -> R] /\ \A r \in R : \E x \in S : f[x] = r
    BY <1>1
<1>3. f \in Surjection(S, R)
    BY <1>2 DEF Surjection
<1>4. QED
    BY <1>1, <1>3, FS_Surjection

\* Sets with more than one element have two.
LEMMA MoreThanOne ==
    ASSUME NEW S, IsFiniteSet(S)
    PROVE  /\ Cardinality(S) \in Nat
           /\ Cardinality(S) > 1 => \E a, b \in S : a # b
           /\ (\E a, b \in S : a # b) => Cardinality(S) > 1
<1>1. Cardinality(S) \in Nat
    BY FS_CardinalityType
<1>2. Cardinality(S) = 0 <=> S = {}
    BY FS_EmptySet
<1>3. Cardinality(S) = 1 <=> \E x : S = {x}
    BY FS_Singleton
<1>4. ASSUME Cardinality(S) > 1
      PROVE  \E a, b \in S : a # b
  <2>1. S # {} /\ ~\E x : S = {x}
      BY <1>2, <1>3, <1>4
  <2>2. PICK a \in S : TRUE
      BY <2>1
  <2>3. S # {a}
      BY <2>1
  <2>4. QED
      BY <2>2, <2>3
<1>5. ASSUME NEW a \in S, NEW b \in S, a # b
      PROVE  Cardinality(S) > 1
  <2>1. Cardinality(S) # 0 /\ Cardinality(S) # 1
      BY <1>2, <1>3, <1>5
  <2>2. QED
      BY <1>1, <2>1
<1>6. QED
    BY <1>1, <1>4, <1>5

(* scopes *)
Mixed(y) ==
    Cardinality({detect_book_types(y)[b] : b \in DOMAIN detect_book_types(y)}) > 1

Known(y) == {b \in DOMAIN detect_book_types(y) : detect_book_types(y)[b] # UNKNOWN}

\* Books of one type are examined together.
LEMMA ScopesOne ==
    ASSUME NEW y, ~Mixed(y)
    PROVE  Scopes(y) = {[books |-> DOMAIN detect_book_types(y), book |-> NoBook,
                         pairing |-> PAIRING[t]] : t \in {detect_company_type(y)} \ {UNKNOWN}}
BY DEF Scopes, Mixed

\* Books of different types are examined each on its own.
LEMMA ScopesMany ==
    ASSUME NEW y, Mixed(y)
    PROVE  Scopes(y) = {[books |-> {b}, book |-> b,
                         pairing |-> PAIRING[detect_book_types(y)[b]]] : b \in Known(y)}
<1>1. \A b : (CHOOSE x \in {b} : TRUE) = b
    OBVIOUS
<1>2. Scopes(y) = {[books |-> {b}, book |-> CHOOSE x \in {b} : TRUE,
                    pairing |-> PAIRING[detect_book_types(y)[b]]] : b \in Known(y)}
    BY DEF Scopes, Mixed, Known
<1>3. QED
    BY <1>1, <1>2

\* A scope is known by its book.
LEMMA ScopeByBook ==
    ASSUME NEW y, NEW s \in Scopes(y), NEW t \in Scopes(y), s.book = t.book
    PROVE  s = t
<1>1. CASE ~Mixed(y)
    BY <1>1, ScopesOne
<1>2. CASE Mixed(y)
  <2>1. PICK b \in Known(y) :
          s = [books |-> {b}, book |-> b, pairing |-> PAIRING[detect_book_types(y)[b]]]
      BY <1>2, ScopesMany
  <2>2. PICK c \in Known(y) :
          t = [books |-> {c}, book |-> c, pairing |-> PAIRING[detect_book_types(y)[c]]]
      BY <1>2, ScopesMany
  <2>3. b = c
      BY <2>1, <2>2
  <2>4. QED
      BY <2>1, <2>2, <2>3
<1>3. QED
    BY <1>1, <1>2

LEMMA BooksFinite ==
    ASSUME ChecksTyped, NEW y \in Period
    PROVE  IsFiniteSet(DOMAIN detect_book_types(y))
<1>1. PICK S : S = m15[y] \cup m15a[y]
    OBVIOUS
<1>2. IsFiniteSet(S)
    BY <1>1, RowFacts, FS_Union
<1>3. IsFiniteSet({r.book : r \in S})
  <2>1. PICK f : f = [r \in S |-> r.book]
      OBVIOUS
  <2>2. DOMAIN f = S /\ f = [x \in S |-> f[x]] /\ {f[x] : x \in S} = {r.book : r \in S}
      BY <2>1
  <2>3. QED
      BY <1>2, <2>2, RangeFinite
<1>4. IsFiniteSet({NoBook})
    BY FS_Singleton
<1>5. \/ DOMAIN detect_book_types(y) = {r.book : r \in S}
      \/ DOMAIN detect_book_types(y) = {NoBook}
    BY <1>1 DEF detect_book_types
<1>6. QED
    BY <1>3, <1>4, <1>5

\* Books of different types are of known ones.
LEMMA TypesKnown ==
    ASSUME ChecksTyped, NEW y \in Period, NEW a \in DOMAIN detect_book_types(y),
           NEW b \in DOMAIN detect_book_types(y),
           detect_book_types(y)[a] # detect_book_types(y)[b]
    PROVE  detect_book_types(y)[a] # UNKNOWN
<1> DEFINE books == {r.book : r \in m15[y] \cup m15a[y]}
           OfBook(x) == {r.code : r \in {z \in m15[y] \cup m15a[y] : z.book = x}}
           voted(x) == _vote({l \in bcct[y] : l.item \in OfBook(x)})
           detect == detect_company_type(y)
<1>1. detect_book_types(y) =
        IF books \subseteq {NoBook} THEN [x \in {NoBook} |-> detect]
        ELSE [x \in books |-> IF voted(x) = UNKNOWN THEN detect ELSE voted(x)]
    BY DEF detect_book_types
<1>2. \A x : voted(x) # UNKNOWN => detect # UNKNOWN
  <2>1. TAKE x
  <2>2. IsFiniteSet(bcct[y]) /\ {l \in bcct[y] : l.item \in OfBook(x)} \in SUBSET bcct[y]
      BY RowFacts
  <2>3. PICK L \in SUBSET bcct[y] : L = {l \in bcct[y] : l.item \in OfBook(x)}
      BY <2>2
  <2>4. _vote(L) # UNKNOWN => _vote(bcct[y]) # UNKNOWN
      BY <2>2, VoteGrows
  <2>5. QED
      BY <2>3, <2>4 DEF detect_company_type
<1> HIDE DEF voted, detect, books
<1>3. CASE books \subseteq {NoBook}
    BY <1>1, <1>3
<1>4. CASE ~(books \subseteq {NoBook})
  <2>1. /\ detect_book_types(y)[a] = IF voted(a) = UNKNOWN THEN detect ELSE voted(a)
        /\ detect_book_types(y)[b] = IF voted(b) = UNKNOWN THEN detect ELSE voted(b)
      BY <1>1, <1>4
  <2>2. QED
      BY <1>2, <2>1
<1>5. QED
    BY <1>3, <1>4

\* With one scope, it is the company's type that counts.
LEMMA ScopesKnown ==
    ASSUME ChecksTyped, NEW y \in Period, NEW s \in Scopes(y)
    PROVE  \/ Cardinality(Scopes(y)) > 1
           \/ /\ detect_company_type(y) # UNKNOWN
              /\ s.pairing = PAIRING[detect_company_type(y)]
<1>1. CASE ~Mixed(y)
    BY <1>1, ScopesOne
<1>2. CASE Mixed(y)
  <2> DEFINE types == detect_book_types(y)
             V == {types[b] : b \in DOMAIN types}
             Rec(b) == [books |-> {b}, book |-> b, pairing |-> PAIRING[types[b]]]
  <2>1. IsFiniteSet(DOMAIN types)
      BY BooksFinite
  <2>2. IsFiniteSet(V)
    <3>1. types = [b \in DOMAIN types |-> types[b]]
        BY DEF detect_book_types
    <3> HIDE DEF types
    <3>2. QED
        BY <2>1, <3>1, RangeFinite
  <2>3. PICK a, b \in DOMAIN types : types[a] # types[b]
    <3>1. Cardinality(V) > 1
        BY <1>2 DEF Mixed
    <3> HIDE DEF types
    <3>2. PICK v, w \in V : v # w
        BY <2>2, <3>1, MoreThanOne
    <3>3. QED
        BY <3>2
  <2>4. types[a] # UNKNOWN /\ types[b] # UNKNOWN
      BY <2>3, TypesKnown
  <2>5. a \in Known(y) /\ b \in Known(y) /\ a # b
      BY <2>3, <2>4 DEF Known
  <2>6. Rec(a) \in Scopes(y) /\ Rec(b) \in Scopes(y) /\ Rec(a) # Rec(b)
    <3>1. Rec(a) \in Scopes(y) /\ Rec(b) \in Scopes(y)
        BY <1>2, <2>5, ScopesMany
    <3>2. Rec(a).book = a /\ Rec(b).book = b
        OBVIOUS
    <3>3. QED
        BY <2>5, <3>1, <3>2
  <2>7. IsFiniteSet(Scopes(y))
    <3>1. IsFiniteSet(Known(y))
        BY <2>1, FS_Subset DEF Known
    <3>2. PICK f : f = [x \in Known(y) |-> Rec(x)]
        OBVIOUS
    <3>3. DOMAIN f = Known(y) /\ f = [x \in Known(y) |-> f[x]]
          /\ {f[x] : x \in Known(y)} = Scopes(y)
        BY <1>2, <3>2, ScopesMany
    <3>4. QED
        BY <3>1, <3>3, RangeFinite
  <2> HIDE DEF Rec
  <2>8. QED
      BY <2>6, <2>7, MoreThanOne
<1>3. QED
    BY <1>1, <1>2

(* effective norms *)
NormRows(b, p, z) == {n \in m16[z] : n.book = b /\ n.product = p}
NormYears(b, p, y) == {z \in Period : z <= y /\ NormRows(b, p, z) # {}}
InForce(n, y) == NormRows(n.book, n.product, Max(NormYears(n.book, n.product, y)))
PairOf(n, y) == {o \in InForce(n, y) : o.material = n.material}
LargestNorm(S) == Max({o.qty : o \in S})
NotedBy(o, S) == o.domestic /\ LET sofar == {x \in S : x.no < o.no}
                               IN  sofar = {} \/ o.qty # LargestNorm(sofar)
DomesticBy(S) == \E o \in S : NotedBy(o, S)
NormFor(n, y) ==
    [book |-> n.book, product |-> n.product, material |-> n.material,
     qty |-> LargestNorm(PairOf(n, y)), domestic |-> DomesticBy(PairOf(n, y))]
Declared16(y) == UNION {m16[z] : z \in {x \in Period : x <= y}}

\* effective_norms, with names for its parts.
LEMMA NormsAre ==
    ASSUME NEW y
    PROVE  effective_norms(y) = {NormFor(n, y) : n \in {o \in Declared16(y) : o \in InForce(o, y)}}
BY Zenon DEF effective_norms, NormFor, Declared16, InForce, PairOf, LargestNorm, NotedBy,
             DomesticBy, NormRows, NormYears

LEMMA NormForFields ==
    ASSUME NEW n, NEW y
    PROVE  /\ NormFor(n, y).book = n.book /\ NormFor(n, y).product = n.product
           /\ NormFor(n, y).material = n.material
           /\ NormFor(n, y).qty = LargestNorm(PairOf(n, y))
           /\ NormFor(n, y).domestic = DomesticBy(PairOf(n, y))
BY DEF NormFor

\* The last declaration of a product is in force.
LEMMA LastInForce ==
    ASSUME NEW y \in Period, NEW z \in Period, z <= y, NEW n \in m16[z],
           \A x \in Period : z < x /\ x <= y => NormRows(n.book, n.product, x) = {}
    PROVE  /\ InForce(n, y) = NormRows(n.book, n.product, z)
           /\ n \in InForce(n, y)
           /\ NormFor(n, y) \in effective_norms(y)
<1>1. PICK Y : Y = NormYears(n.book, n.product, y)
    OBVIOUS
<1>2. n \in NormRows(n.book, n.product, z)
    BY DEF NormRows
<1>3. y \in Int /\ z \in Int /\ \A x \in Y : x \in Int
    BY <1>1, ChecksAssumption DEF NormYears
<1>4. z \in Y
    BY <1>1, <1>2 DEF NormYears
<1>5. \A x \in Y : x <= z
  <2>1. TAKE x \in Y
  <2>2. x \in Period /\ x <= y /\ NormRows(n.book, n.product, x) # {}
      BY <1>1 DEF NormYears
  <2>3. ~(z < x)
      BY <2>2
  <2>4. QED
      BY <1>3, <2>3
<1>6. Max(Y) = z
  <2>1. \A m \in Y : (\A x \in Y : m >= x) => m = z
      BY <1>3, <1>4, <1>5
  <2>2. \A x \in Y : z >= x
      BY <1>3, <1>5
  <2>3. QED
      BY <1>4, <2>1, <2>2 DEF Max
<1>7. InForce(n, y) = NormRows(n.book, n.product, z)
    BY <1>1, <1>6 DEF InForce
<1>8. n \in Declared16(y)
    BY DEF Declared16
<1>9. QED
    BY <1>2, <1>7, <1>8, NormsAre

\* Every material that y's norms declare has a norm in force.
LEMMA OwnNorms ==
    ASSUME NEW y \in Period, NEW n \in m16[y]
    PROVE  \E e \in effective_norms(y) : e.book = n.book /\ e.material = n.material
<1>1. \A x \in Period : y < x /\ x <= y => NormRows(n.book, n.product, x) = {}
    BY ChecksAssumption
<1>2. y <= y
    BY ChecksAssumption
<1>3. NormFor(n, y) \in effective_norms(y)
    BY <1>1, <1>2, LastInForce
<1>4. QED
    BY <1>3, NormForFields

(* the findings *)
LEMMA SeverityRange ==
    ASSUME NEW num, NEW den
    PROVE  /\ severity_for("C1_1", num, den) \in {"info", "warning", "critical"}
           /\ severity_for("C1_4", num, den) \in {"info", "warning", "critical"}
           /\ severity_for("C1_7", num, den) \in {"none", "warning", "critical"}
           /\ severity_for("C4_3", num, den) \in {"none", "warning", "critical"}
BY DEF severity_for, Bands

Fair(f, y) ==
    /\ f.severity \in {"info", "warning", "critical"}
    /\ \/ f.check \in {"C3.1", "C3.2"}
       \/ f.subject \in Exposed(ScopeOf(f.check), y)
       \/ Cardinality(Scopes(y)) > 1

\* What makes a finding fair.
LEMMA FoundFair ==
    ASSUME NEW y, NEW check, NEW severity \in {"info", "warning", "critical"},
           NEW subject, NEW book,
           \/ check \in {"C3.1", "C3.2"} \/ subject \in Exposed(ScopeOf(check), y)
           \/ Cardinality(Scopes(y)) > 1
    PROVE  Fair(Found(check, severity, subject, book), y)
BY DEF Fair, Found

\* The codes that the rows of a period bring into the denominators.
LEMMA CodesExposed ==
    ASSUME NEW y \in Period
    PROVE  /\ \A r \in m15[y] : r.code \in Exposed("nvl", y)
           /\ \A r \in m15a[y] : r.code \in Exposed("tp", y)
           /\ \A e \in effective_norms(y) : e.material \in Exposed("m16", y)
           /\ \A n \in m16[y] : n.material \in Exposed("m16", y)
<1>1. \A r \in m15[y] : r.code \in Exposed("nvl", y)
    BY DEF Exposed
<1>2. \A r \in m15a[y] : r.code \in Exposed("tp", y)
    BY DEF Exposed
<1>3. \A e \in effective_norms(y) : e.material \in Exposed("m16", y)
    BY DEF Exposed
<1>4. \A n \in m16[y] : n.material \in Exposed("m16", y)
    BY <1>3, OwnNorms
<1>5. QED
    BY <1>1, <1>2, <1>3, <1>4

LEMMA ScopesOfChecks ==
    /\ \A c \in {"C1.1", "C1.2", "C1.3", "C1.6", "C1.7", "C2.1", "C2.3", "C3.3", "C5.1", "C6.1"} :
          ScopeOf(c) = "nvl"
    /\ \A c \in {"C1.4", "C2.2", "C2.4", "C4.9", "C6.2"} : ScopeOf(c) = "tp"
    /\ \A c \in {"C4.1", "C4.3"} : ScopeOf(c) = "m16"
BY DEF ScopeOf

KeyOf(r) == <<r.code, _unit_key(r.unit)>>
SliceRec(rows, column, k) ==
    [code |-> k[1], unit |-> k[2], qty |-> Stated({x \in rows : KeyOf(x) = k}, column)]

\* Slices, with names for its parts.
LEMMA SlicesAre ==
    ASSUME NEW rows, NEW column
    PROVE  Slices(rows, column)
           = {s \in {SliceRec(rows, column, k) : k \in {KeyOf(r) : r \in rows}} : s.qty > 0}
BY Zenon DEF Slices, KeyOf, SliceRec

\* Slices are of codes that rows have.
LEMMA SlicesCodes ==
    ASSUME NEW rows, NEW column, NEW x \in Slices(rows, column)
    PROVE  x.code \in {r.code : r \in rows}
<1>1. PICK k \in {KeyOf(r) : r \in rows} : x = SliceRec(rows, column, k)
    BY SlicesAre
<1>2. PICK r \in rows : k = KeyOf(r)
    OBVIOUS
<1>3. x.code = k[1] /\ k[1] = r.code
    BY <1>1, <1>2 DEF SliceRec, KeyOf
<1>4. QED
    BY <1>3

\* A mismatch is about a code of the rows in scope, and has a severity.
LEMMA QuantityFindings ==
    ASSUME NEW check, NEW scale, NEW s, NEW rows, NEW column, NEW lines_, NEW floor,
           NEW f \in QuantityMismatch(check, scale, s, rows, column, lines_, floor)
    PROVE  \E r \in rows : \E num, den : f = Found(check, severity_for(scale, num, den), r.code, s.book)
<1> DEFINE slices == Slices(InScope(rows, s), column)
           of(code) == _unit_targets({x \in slices : x.code = code},
                                     {l \in lines_ : l.item = code})
           off(t) == Abs(t[2] - t[1])
           found(code) == {Found(check, severity_for(scale, off(t), t[1]), code, s.book) :
                            t \in {x \in of(code) : 1000 * off(x) >= floor * x[1]}}
<1>1. f \in UNION {found(c) : c \in {x.code : x \in slices}}
    BY DEF QuantityMismatch
<1>2. PICK x \in slices : f \in found(x.code)
    BY <1>1
<1>3. PICK t : f = Found(check, severity_for(scale, off(t), t[1]), x.code, s.book)
    BY <1>2
<1>4. PICK r \in rows : x.code = r.code
  <2>1. x.code \in {r.code : r \in InScope(rows, s)}
      BY SlicesCodes
  <2>2. QED
      BY <2>1 DEF InScope
<1>5. QED
    BY <1>3, <1>4

LEMMA FairQuantities ==
    ASSUME NEW y \in Period
    PROVE  /\ \A f \in check_c1_1(y) : Fair(f, y)
           /\ \A f \in check_c1_4(y) : Fair(f, y)
<1>1. ASSUME NEW f \in check_c1_1(y)
      PROVE  Fair(f, y)
  <2>1. PICK s \in Scopes(y) :
          f \in QuantityMismatch("C1.1", "C1_1", s, m15[y], s.pairing.nvl_column,
                                 LinesOf(y, s.pairing.nvl), 5)
      BY DEF check_c1_1
  <2>2. PICK r \in m15[y] : \E sev \in {"info", "warning", "critical"} :
          f = Found("C1.1", sev, r.code, s.book)
      BY <2>1, QuantityFindings, SeverityRange
  <2>3. QED
      BY <2>2, FoundFair, CodesExposed, ScopesOfChecks
<1>2. ASSUME NEW f \in check_c1_4(y)
      PROVE  Fair(f, y)
  <2>1. PICK s \in Scopes(y) :
          f \in QuantityMismatch("C1.4", "C1_4", s, m15a[y], s.pairing.sp_column,
                                 LinesOf(y, s.pairing.sp), 1)
      BY DEF check_c1_4
  <2>2. PICK r \in m15a[y] : \E sev \in {"info", "warning", "critical"} :
          f = Found("C1.4", sev, r.code, s.book)
      BY <2>1, QuantityFindings, SeverityRange
  <2>3. QED
      BY <2>2, FoundFair, CodesExposed, ScopesOfChecks
<1>3. QED
    BY <1>1, <1>2

LEMMA FairCritical ==
    ASSUME NEW y, NEW check, NEW rows, NEW f \in Critical(check, rows),
           \A r \in rows : r.code \in Exposed(ScopeOf(check), y)
    PROVE  Fair(f, y)
<1>1. PICK r \in rows : f = Found(check, "critical", r.code, r.book)
    BY DEF Critical
<1>2. QED
    BY <1>1, FoundFair

\* Declared and not in a balance: of the company's own type, if it has one.
LEMMA FairUnknown ==
    ASSUME ChecksTyped, NEW y \in Period, NEW f \in check_c1_2(y)
    PROVE  Fair(f, y)
<1>1. PICK s \in Scopes(y) : \E l \in LinesOf(y, s.pairing.nvl) :
          f = Found("C1.2", "critical", l.item, NoBook)
    BY DEF check_c1_2
<1>2. PICK l \in LinesOf(y, s.pairing.nvl) : f = Found("C1.2", "critical", l.item, NoBook)
    BY <1>1
<1>3. \/ Cardinality(Scopes(y)) > 1
      \/ l.item \in Exposed("nvl", y)
  <2>1. SUFFICES ASSUME ~(Cardinality(Scopes(y)) > 1)
                 PROVE  l.item \in Exposed("nvl", y)
      OBVIOUS
  <2>2. /\ detect_company_type(y) # UNKNOWN
        /\ s.pairing = PAIRING[detect_company_type(y)]
      BY <2>1, ScopesKnown
  <2>3. l \in LinesOf(y, PAIRING[detect_company_type(y)].nvl)
      BY <2>2
  <2>4. QED
      BY <2>2, <2>3 DEF Exposed
<1>4. QED
    BY <1>2, <1>3, FoundFair, ScopesOfChecks

LEMMA FairBalances ==
    ASSUME NEW y \in Period
    PROVE  /\ \A f \in check_c1_3(y) : Fair(f, y)
           /\ \A f \in check_c1_6(y) : Fair(f, y)
           /\ \A f \in check_c1_7(y) : Fair(f, y)
           /\ \A f \in check_c3_3(y) : Fair(f, y)
           /\ \A f \in check_c4_9(y) : Fair(f, y)
<1>1. ASSUME NEW f \in check_c1_3(y)
      PROVE  Fair(f, y)
  <2>1. PICK r \in m15[y] : f = Found("C1.3", "critical", r.code, r.book)
      BY <1>1 DEF check_c1_3, InScope
  <2>2. QED
      BY <2>1, FoundFair, CodesExposed, ScopesOfChecks
<1>2. ASSUME NEW f \in check_c1_6(y)
      PROVE  Fair(f, y)
  <2>1. PICK r \in m15[y] : f = Found("C1.6", "critical", r.code, r.book)
      BY <1>2 DEF check_c1_6
  <2>2. QED
      BY <2>1, FoundFair, CodesExposed, ScopesOfChecks
<1>3. ASSUME NEW f \in check_c1_7(y)
      PROVE  Fair(f, y)
  <2>1. \E r \in m15[y] : \E sev \in {"info", "warning", "critical"} :
           f = Found("C1.7", sev, r.code, r.book)
    <3>1. \E r \in m15[y] : \E num, den :
             /\ f = Found("C1.7", severity_for("C1_7", num, den), r.code, r.book)
             /\ severity_for("C1_7", num, den) # "none"
        BY <1>3, Zenon DEF check_c1_7
    <3>2. QED
        BY <3>1, SeverityRange
  <2>2. QED
      BY <2>1, FoundFair, CodesExposed, ScopesOfChecks
<1>4. ASSUME NEW f \in check_c3_3(y)
      PROVE  Fair(f, y)
  <2>1. \E r \in m15[y] : \E sev \in {"info", "warning", "critical"} :
           f = Found("C3.3", sev, r.code, r.book)
    <3>1. PICK r \in m15[y] : \E n : f = Found("C3.3",
                IF n = DIFFERENT THEN "critical" ELSE IF n = UNRESOLVED THEN "warning" ELSE "info",
                r.code, r.book)
        BY <1>4, Zenon DEF check_c3_3
    <3>2. QED
        BY <3>1
  <2>2. QED
      BY <2>1, FoundFair, CodesExposed, ScopesOfChecks
<1>5. ASSUME NEW f \in check_c4_9(y)
      PROVE  Fair(f, y)
  <2>1. PICK k \in products_without_norm(y) : f = Found("C4.9", "warning", k[2], k[1])
      BY <1>5 DEF check_c4_9
  <2>2. PICK r \in m15a[y] : k = <<r.book, r.code>>
      BY DEF products_without_norm, produced_products
  <2>3. k[2] = r.code
      BY <2>2
  <2>4. QED
      BY <2>1, <2>3, FoundFair, CodesExposed, ScopesOfChecks
<1>6. QED
    BY <1>1, <1>2, <1>3, <1>4, <1>5

LEMMA FairRows ==
    ASSUME NEW y \in Period
    PROVE  /\ \A f \in check_c2_1(y) : Fair(f, y)
           /\ \A f \in check_c2_2(y) : Fair(f, y)
           /\ \A f \in check_c2_3(y) : Fair(f, y)
           /\ \A f \in check_c2_4(y) : Fair(f, y)
           /\ \A f \in check_c5_1(y) : Fair(f, y)
           /\ \A f \in check_c6_1(y) : Fair(f, y)
           /\ \A f \in check_c6_2(y) : Fair(f, y)
<1>1. ASSUME NEW check \in {"C2.1", "C2.3", "C5.1", "C6.1"}, NEW rows \in SUBSET m15[y],
             NEW f \in Critical(check, rows)
      PROVE  Fair(f, y)
    BY FairCritical, CodesExposed, ScopesOfChecks
<1>2. ASSUME NEW check \in {"C2.2", "C2.4", "C6.2"}, NEW rows \in SUBSET m15a[y],
             NEW f \in Critical(check, rows)
      PROVE  Fair(f, y)
    BY FairCritical, CodesExposed, ScopesOfChecks
<1>3. /\ \E rows \in SUBSET m15[y] : check_c2_1(y) = Critical("C2.1", rows)
      /\ \E rows \in SUBSET m15[y] : check_c2_3(y) = Critical("C2.3", rows)
      /\ \E rows \in SUBSET m15[y] : check_c5_1(y) = Critical("C5.1", rows)
      /\ \E rows \in SUBSET m15[y] : check_c6_1(y) = Critical("C6.1", rows)
  <2>1. \E rows \in SUBSET m15[y] : check_c2_1(y) = Critical("C2.1", rows)
      BY DEF check_c2_1
  <2>2. \E rows \in SUBSET m15[y] : check_c2_3(y) = Critical("C2.3", rows)
      BY DEF check_c2_3
  <2>3. \E rows \in SUBSET m15[y] : check_c5_1(y) = Critical("C5.1", rows)
      BY DEF check_c5_1
  <2>4. \E rows \in SUBSET m15[y] : check_c6_1(y) = Critical("C6.1", rows)
      BY DEF check_c6_1, Carried
  <2>5. QED
      BY <2>1, <2>2, <2>3, <2>4
<1>4. /\ \E rows \in SUBSET m15a[y] : check_c2_2(y) = Critical("C2.2", rows)
      /\ \E rows \in SUBSET m15a[y] : check_c2_4(y) = Critical("C2.4", rows)
      /\ \E rows \in SUBSET m15a[y] : check_c6_2(y) = Critical("C6.2", rows)
  <2>1. \E rows \in SUBSET m15a[y] : check_c2_2(y) = Critical("C2.2", rows)
      BY DEF check_c2_2
  <2>2. \E rows \in SUBSET m15a[y] : check_c2_4(y) = Critical("C2.4", rows)
      BY DEF check_c2_4
  <2>3. \E rows \in SUBSET m15a[y] : check_c6_2(y) = Critical("C6.2", rows)
      BY DEF check_c6_2, Carried
  <2>4. QED
      BY <2>1, <2>2, <2>3
<1>5. QED
    BY <1>1, <1>2, <1>3, <1>4

LEMMA FairTariffs ==
    ASSUME NEW y \in Period
    PROVE  /\ \A f \in check_c3_1(y) : Fair(f, y)
           /\ \A f \in check_c3_2(y) : Fair(f, y)
<1>1. ASSUME NEW f \in check_c3_1(y)
      PROVE  Fair(f, y)
  <2>1. PICK c : f = Found("C3.1", "warning", c, NoBook)
      BY <1>1 DEF check_c3_1
  <2>2. QED
      BY <2>1, FoundFair
<1>2. ASSUME NEW f \in check_c3_2(y)
      PROVE  Fair(f, y)
  <2>1. PICK c : \E sev \in {"critical", "warning", "info"} : f = Found("C3.2", sev, c, NoBook)
      BY <1>2 DEF check_c3_2
  <2>2. QED
      BY <2>1, FoundFair
<1>3. QED
    BY <1>1, <1>2

LEMMA FairNorms ==
    ASSUME NEW y \in Period
    PROVE  /\ \A f \in check_c4_1(y) : Fair(f, y)
           /\ \A f \in check_c4_3(y) : Fair(f, y)
<1>1. ASSUME NEW f \in check_c4_1(y)
      PROVE  Fair(f, y)
  <2>1. PICK n \in NormScope(y) : f = Found("C4.1", "critical", n.material, n.book)
    <3>1. PICK k \in {<<n.book, n.material>> : n \in NormScope(y)} :
             f = Found("C4.1", "critical", k[2], k[1])
        BY <1>1 DEF check_c4_1
    <3>2. PICK n \in NormScope(y) : k = <<n.book, n.material>>
        OBVIOUS
    <3>3. k[1] = n.book /\ k[2] = n.material
        BY <3>2
    <3>4. QED
        BY <3>1, <3>3
  <2>2. n \in m16[y] \/ n \in effective_norms(y)
      BY DEF NormScope, consumed_materials
  <2>3. n.material \in Exposed("m16", y)
      BY <2>2, CodesExposed
  <2>4. QED
      BY <2>1, <2>3, FoundFair, ScopesOfChecks
<1>2. ASSUME NEW f \in check_c4_3(y)
      PROVE  Fair(f, y)
  <2>1. PICK k \in {<<n.book, n.material>> : n \in effective_norms(y)} :
           \E sev \in {"warning", "critical"} : f = Found("C4.3", sev, k[2], k[1])
    <3>1. PICK k \in {<<n.book, n.material>> : n \in effective_norms(y)} : \E num, den, b :
             LET sev == IF b THEN severity_for("C4_3", 1, 1)
                        ELSE severity_for("C4_3", num, den)
             IN  f = Found("C4.3", sev, k[2], k[1]) /\ sev # "none"
        BY <1>2, Zenon DEF check_c4_3
    <3>2. QED
        BY <3>1, SeverityRange
  <2>2. PICK n \in effective_norms(y) : k = <<n.book, n.material>>
      OBVIOUS
  <2>3. k[2] = n.material
      BY <2>2
  <2>4. QED
      BY <2>1, <2>3, FoundFair, CodesExposed, ScopesOfChecks
<1>3. QED
    BY <1>1, <1>2

LEMMA FairFindings ==
    ASSUME ChecksTyped, NEW y \in Period, NEW f \in RunFindings(y)
    PROVE  Fair(f, y)
<1>1. PICK c \in ALL_CHECKS : f \in FindingsOf(c, y)
    BY DEF RunFindings
<1>2. \/ f \in check_c1_1(y) \/ f \in check_c1_2(y) \/ f \in check_c1_3(y) \/ f \in check_c1_4(y)
      \/ f \in check_c1_6(y) \/ f \in check_c1_7(y) \/ f \in check_c2_1(y) \/ f \in check_c2_2(y)
      \/ f \in check_c2_3(y) \/ f \in check_c2_4(y) \/ f \in check_c3_1(y) \/ f \in check_c3_2(y)
      \/ f \in check_c3_3(y) \/ f \in check_c4_1(y) \/ f \in check_c4_3(y) \/ f \in check_c4_9(y)
      \/ f \in check_c5_1(y) \/ f \in check_c6_1(y) \/ f \in check_c6_2(y)
    BY <1>1 DEF FindingsOf, ALL_CHECKS
<1>3. QED
    BY <1>2, FairQuantities, FairUnknown, FairBalances, FairRows, FairTariffs, FairNorms

LEMMA FairStep == ChecksTyped => FindingsCounted
BY FairFindings DEF FindingsCounted, Fair, LoadedPeriods

\* Every finding of a run is about a code that the denominator of its check
\* counts, but for those that FindingsCounted excepts: no exposure is left out
\* of the mean that the finding raises (denominators.py).
THEOREM FindingsAreCounted == ChecksSpec => []FindingsCounted
BY FairStep, ChecksAlways, PTL

\* The data screen asks the same gates as the run, so this is so in every state.
LEMMA PredictionStep == PredictionTrue
BY DEF PredictionTrue, predict_check, RunStatus, NEED_FILE

(***************************************************************************)
(* Checks: quantities. The rows in the unit of the declarations are one    *)
(* slice, which is compared with all that is declared in that unit; so     *)
(* what other units state is left out. Between them C4.1 and C4.3 report a *)
(* material that a norm in force consumes: where the balance issues        *)
(* nothing to production the consumption is more than none, as one norm    *)
(* counts and none takes away.                                             *)
(***************************************************************************)

\* What is declared, and what norms say is consumed, are sums of functions.
LEMMA DeclaredIs ==
    ASSUME NEW L
    PROVE  Declared(L) = SumOf([l \in L |-> l.quantity], L)
<1> DEFINE v == [l \in L |-> l.quantity]
           Term(l) == l.quantity
<1>1. \A l \in L : v[l] = Term(l)
    OBVIOUS
<1>2. Declared(L) = (CHOOSE g : g = [s \in SUBSET L |->
            IF s = {} THEN 0
            ELSE Term(CHOOSE x \in s : TRUE) + g[s \ {CHOOSE x \in s : TRUE}]])[L]
    BY DEF Declared, Sum, MapThenSumSet, MapThenFoldSet
<1> HIDE DEF v, Term
<1>3. Declared(L) = (CHOOSE g : g = [s \in SUBSET L |->
            IF s = {} THEN 0 ELSE Term(First(s)) + g[s \ {First(s)}]])[L]
    BY <1>2 DEF First
<1>4. ASSUME NEW g
      PROVE  [s \in SUBSET L |-> IF s = {} THEN 0 ELSE Term(First(s)) + g[s \ {First(s)}]]
             = [s \in SUBSET L |-> IF s = {} THEN 0 ELSE v[First(s)] + g[s \ {First(s)}]]
  <2>1. ASSUME NEW s \in SUBSET L, s # {}
        PROVE  v[First(s)] = Term(First(s))
      BY <1>1, <2>1, FirstIn
  <2>2. QED
      BY <2>1
<1>5. \A g : IsSum(g, v, L) <=>
         g = [s \in SUBSET L |-> IF s = {} THEN 0 ELSE Term(First(s)) + g[s \ {First(s)}]]
    BY <1>4 DEF IsSum
<1>6. QED
    BY <1>3, <1>5 DEF SumOf, v

\* Consumption is a sum of values.
LEMMA ConsumptionIs ==
    ASSUME NEW y, NEW N
    PROVE  Consumption(y, N) = SumOf([n \in N |-> n.qty * Made(y, n)], N)
<1> DEFINE v == [n \in N |-> n.qty * Made(y, n)]
           Term(n) == n.qty * Made(y, n)
<1>1. \A n \in N : v[n] = Term(n)
    OBVIOUS
<1>2. Consumption(y, N) = (CHOOSE g : g = [s \in SUBSET N |->
            IF s = {} THEN 0
            ELSE Term(CHOOSE x \in s : TRUE) + g[s \ {CHOOSE x \in s : TRUE}]])[N]
    BY DEF Consumption, Sum, MapThenSumSet, MapThenFoldSet
<1> HIDE DEF v, Term
<1>3. Consumption(y, N) = (CHOOSE g : g = [s \in SUBSET N |->
            IF s = {} THEN 0 ELSE Term(First(s)) + g[s \ {First(s)}]])[N]
    BY <1>2 DEF First
<1>4. ASSUME NEW g
      PROVE  [s \in SUBSET N |-> IF s = {} THEN 0 ELSE Term(First(s)) + g[s \ {First(s)}]]
             = [s \in SUBSET N |-> IF s = {} THEN 0 ELSE v[First(s)] + g[s \ {First(s)}]]
  <2>1. ASSUME NEW s \in SUBSET N, s # {}
        PROVE  v[First(s)] = Term(First(s))
      BY <1>1, <2>1, FirstIn
  <2>2. QED
      BY <2>1
<1>5. \A g : IsSum(g, v, N) <=>
         g = [s \in SUBSET N |-> IF s = {} THEN 0 ELSE Term(First(s)) + g[s \ {First(s)}]]
    BY <1>4 DEF IsSum
<1>6. QED
    BY <1>3, <1>5 DEF SumOf, v

LEMMA DeclaredInt ==
    ASSUME NEW L, IsFiniteSet(L), \A l \in L : l.quantity \in Int
    PROVE  Declared(L) \in Int
<1>1. PICK v : v = [l \in L |-> l.quantity]
    OBVIOUS
<1>2. Valued(v, L)
    BY <1>1 DEF Valued
<1>3. QED
    BY <1>1, <1>2, DeclaredIs, SumOfInt

\* Finitely many rows make finitely many slices.
LEMMA SlicesFinite ==
    ASSUME NEW rows, IsFiniteSet(rows), NEW column
    PROVE  IsFiniteSet(Slices(rows, column))
<1>1. PICK f : f = [r \in rows |-> SliceRec(rows, column, KeyOf(r))]
    OBVIOUS
<1>2. DOMAIN f = rows /\ f = [x \in rows |-> f[x]]
    BY <1>1
<1>3. IsFiniteSet({f[x] : x \in rows})
    BY <1>2, RangeFinite
<1>4. ASSUME NEW s \in Slices(rows, column)
      PROVE  s \in {f[x] : x \in rows}
  <2>2. PICK r \in rows : s = SliceRec(rows, column, KeyOf(r))
      BY SlicesAre
  <2>3. QED
      BY <1>1, <2>2
<1>5. Slices(rows, column) \in SUBSET {f[x] : x \in rows}
    BY <1>4
<1>6. QED
    BY <1>3, <1>5, FS_Subset

\* The rows of an item in a unit, and the lines of an item.
ItemRows(rows, item, u) == {r \in rows : r.code = item /\ _unit_key(r.unit) = u}
ItemLines(lines_, item) == {x \in lines_ : x.item = item}

\* With all lines in one unit, of which there is a slice, that slice is compared.
LEMMA OneUnitTarget ==
    ASSUME NEW rows, IsFiniteSet(rows), NEW column, NEW item, NEW u,
           NEW L, L # {}, \A x \in L : _unit_key(x.unit) = u,
           NEW d \in Int, d > 0, Stated(ItemRows(rows, item, u), column) = d,
           ItemRows(rows, item, u) # {}, Declared(L) = d,
           NEW t \in _unit_targets({x \in Slices(rows, column) : x.code = item}, L)
    PROVE  t = <<d, d>>
<1> DEFINE S == {x \in Slices(rows, column) : x.code = item}
           InUnit(v) == {x \in L : _unit_key(x.unit) = v}
           matched == {s \in S : InUnit(s.unit) # {}}
           largest == CHOOSE s \in S : \A o \in S : o.qty <= s.qty
<1>1. PICK k : k = <<item, u>>
    OBVIOUS
<1>2. PICK a : a = SliceRec(rows, column, k)
    OBVIOUS
<1>3. {x \in rows : KeyOf(x) = k} = ItemRows(rows, item, u)
    BY <1>1 DEF KeyOf, ItemRows
<1>4. a = [code |-> item, unit |-> u, qty |-> d]
    BY <1>1, <1>2, <1>3 DEF SliceRec
<1>5. a \in S
  <2>1. k \in {KeyOf(r) : r \in rows}
      BY <1>3
  <2>2. a.qty > 0 /\ a.code = item
      BY <1>4
  <2>3. a \in Slices(rows, column)
      BY <1>2, <2>1, <2>2, SlicesAre
  <2>4. QED
      BY <2>2, <2>3
<1>6. \A x \in S : x.unit = u => x = a
  <2>1. TAKE x \in S
  <2>2. PICK j \in {KeyOf(r) : r \in rows} : x = SliceRec(rows, column, j)
      BY SlicesAre
  <2>3. PICK r \in rows : j = <<r.code, _unit_key(r.unit)>>
      BY DEF KeyOf
  <2>4. x.code = r.code /\ x.unit = _unit_key(r.unit) /\ x.code = item
      BY <2>2, <2>3 DEF SliceRec
  <2>5. x.unit = u => j = k
      BY <1>1, <2>3, <2>4
  <2>6. QED
      BY <1>2, <2>2, <2>5
<1>7. InUnit(u) = L /\ \A v : InUnit(v) # {} => v = u
    OBVIOUS
<1>8. matched = {a}
    BY <1>4, <1>5, <1>6, <1>7
<1>9. IsFiniteSet(S)
    BY SlicesFinite, FS_Subset
<1>10. _unit_targets(S, L) =
          IF Cardinality(S) > 1 /\ matched # {}
          THEN {<<s.qty, Declared(InUnit(s.unit))>> : s \in matched}
          ELSE {<<largest.qty, Declared(L)>>}
    BY DEF _unit_targets
<1> HIDE DEF S, matched, InUnit, largest
<1>11. CASE Cardinality(S) > 1
  <2>1. t \in {<<s.qty, Declared(InUnit(s.unit))>> : s \in matched}
      BY <1>8, <1>10, <1>11 DEF S
  <2>2. t = <<a.qty, Declared(InUnit(a.unit))>>
      BY <1>8, <2>1
  <2>3. QED
      BY <1>4, <1>7, <2>2
<1>12. CASE ~(Cardinality(S) > 1)
  <2>1. \A x \in S : x = a
      BY <1>5, <1>9, <1>12, MoreThanOne
  <2>2. largest = a
    <3>1. \A o \in S : o.qty <= a.qty
        BY <1>4, <2>1
    <3>2. largest \in S
        BY <1>5, <3>1 DEF largest
    <3>3. QED
        BY <2>1, <3>2
  <2>3. t = <<largest.qty, Declared(L)>>
      BY <1>10, <1>12 DEF S
  <2>4. QED
      BY <1>4, <2>2, <2>3
<1>13. QED
    BY <1>11, <1>12

\* The slice in the declarations' unit states what was declared: no mismatch.
LEMMA SecondUnitStep ==
    ASSUME ChecksTyped, NEW y \in Period, NEW s \in Scopes(y), NEW l \in LinesOf(y, s.pairing.nvl),
           NEW L, L = ItemLines(LinesOf(y, s.pairing.nvl), l.item),
           NEW rows, rows = ItemRows(InScope(m15[y], s), l.item, _unit_key(l.unit)),
           \A x \in L : _unit_key(x.unit) = _unit_key(l.unit),
           rows # {}, Declared(L) > 0, Stated(rows, s.pairing.nvl_column) = Declared(L),
           NEW f \in check_c1_1(y), f.subject = l.item, f.book = s.book
    PROVE  FALSE
<1>1. PICK q \in Scopes(y) :
          f \in QuantityMismatch("C1.1", "C1_1", q, m15[y], q.pairing.nvl_column,
                                 LinesOf(y, q.pairing.nvl), 5)
    BY DEF check_c1_1
<1>2. q = s
  <2>1. PICK r \in m15[y] : \E num, den :
           f = Found("C1.1", severity_for("C1_1", num, den), r.code, q.book)
      BY <1>1, QuantityFindings
  <2>2. f.book = q.book
      BY <2>1 DEF Found
  <2>3. QED
      BY <2>2, ScopeByBook
<1> DEFINE column == s.pairing.nvl_column
           R == InScope(m15[y], s)
           A == LinesOf(y, s.pairing.nvl)
           slices == Slices(R, column)
           of(code) == _unit_targets({x \in slices : x.code = code},
                                     {x \in A : x.item = code})
           off(t) == Abs(t[2] - t[1])
           found(code) == {Found("C1.1", severity_for("C1_1", off(t), t[1]), code, s.book) :
                            t \in {x \in of(code) : 1000 * off(x) >= 5 * x[1]}}
<1>3. f \in UNION {found(c) : c \in {x.code : x \in slices}}
    BY <1>1, <1>2 DEF QuantityMismatch
<1>4. PICK c : f \in found(c)
    BY <1>3
<1>5. PICK t \in of(c) : /\ f = Found("C1.1", severity_for("C1_1", off(t), t[1]), c, s.book)
                         /\ 1000 * off(t) >= 5 * t[1]
    BY <1>4
<1>6. c = l.item
    BY <1>5 DEF Found
<1>7. t \in _unit_targets({x \in slices : x.code = l.item}, L)
    BY <1>5, <1>6 DEF ItemLines
<1>8. IsFiniteSet(R) /\ IsFiniteSet(L) /\ \A x \in L : x.quantity \in Int
  <2>1. IsFiniteSet(R)
      BY RowFacts, FS_Subset DEF InScope
  <2>2. L \in SUBSET bcct[y]
      BY DEF ItemLines, LinesOf
  <2>3. QED
      BY <2>1, <2>2, RowFacts, FS_Subset
<1>9. PICK d \in Int : d = Declared(L)
    BY <1>8, DeclaredInt
<1>10. l \in L
    BY DEF ItemLines
<1>11. t = <<d, d>>
  <2>1. L # {} /\ d > 0 /\ Stated(ItemRows(R, l.item, _unit_key(l.unit)), column) = d
        /\ ItemRows(R, l.item, _unit_key(l.unit)) # {}
      BY <1>9, <1>10
  <2> HIDE DEF R, column
  <2>2. QED
      BY <1>7, <1>8, <1>9, <2>1, OneUnitTarget
<1>12. t[1] = d /\ off(t) = 0
    BY <1>11 DEF Abs
<1>13. QED
    BY <1>5, <1>9, <1>12

LEMMA SecondUnitAlways == ChecksTyped => SecondUnitHarmless
<1> SUFFICES ASSUME ChecksTyped, NEW y \in LoadedPeriods, NEW s \in Scopes(y),
                    NEW l \in LinesOf(y, s.pairing.nvl),
                    NEW L, L = {x \in LinesOf(y, s.pairing.nvl) : x.item = l.item},
                    NEW rows, rows = {r \in InScope(m15[y], s) :
                                 r.code = l.item /\ _unit_key(r.unit) = _unit_key(l.unit)},
                    \A x \in L : _unit_key(x.unit) = _unit_key(l.unit),
                    rows # {}, Declared(L) > 0,
                    Stated(rows, s.pairing.nvl_column) = Declared(L),
                    NEW f \in check_c1_1(y), f.subject = l.item, f.book = s.book
             PROVE  FALSE
    BY DEF SecondUnitHarmless
<1>1. y \in Period
    BY DEF LoadedPeriods
<1>2. QED
    BY <1>1, SecondUnitStep DEF ItemLines, ItemRows

\* No load states that a product consumes less than nothing.
NormsNotNegative == \A y \in Period : \A n \in UNION M16Load[y] : n.qty >= 0

\* No norm takes away.
LEMMA NormQuantities ==
    ASSUME ChecksTyped, NormsNotNegative, NEW z \in Period
    PROVE  \A n \in m16[z] : n.qty \in Nat
<1>1. \A n \in m16[z] : n.qty \in Int
    BY RowFacts
<1>2. m16[z] \in M16Load[z] \cup {{}}
    BY DEF ChecksTyped, ChecksTypeOK
<1>3. \A n \in m16[z] : n.qty >= 0
    BY <1>2 DEF NormsNotNegative
<1>4. QED
    BY <1>1, <1>3

\* The norms in force were declared in some period.
LEMMA InForcePeriod ==
    ASSUME NEW y \in Period, NEW n \in Declared16(y)
    PROVE  \E z \in Period : InForce(n, y) = NormRows(n.book, n.product, z)
<1>1. PICK Y : Y = NormYears(n.book, n.product, y)
    OBVIOUS
<1>2. PICK x \in Period : x <= y /\ n \in m16[x]
    BY DEF Declared16
<1>3. x \in Y
    BY <1>1, <1>2 DEF NormYears, NormRows
<1>4. Y \in SUBSET Period
    BY <1>1 DEF NormYears
<1>5. IsFiniteSet(Y) /\ \A z \in Y : z \in Int
    BY <1>4, ChecksAssumption, FS_Subset
<1>6. Max(Y) \in Y
    BY <1>3, <1>5, MaxFacts
<1>7. QED
    BY <1>1, <1>4, <1>6 DEF InForce

\* A pair stated more than once has its largest norm.
LEMMA LargestNormFacts ==
    ASSUME ChecksTyped, NormsNotNegative, NEW z \in Period, NEW S \in SUBSET m16[z], NEW n \in S
    PROVE  LargestNorm(S) \in Nat /\ n.qty <= LargestNorm(S)
<1>1. PICK Q : Q = {o.qty : o \in S}
    OBVIOUS
<1>2. IsFiniteSet(S)
    BY RowFacts, FS_Subset
<1>3. IsFiniteSet(Q)
  <2>1. PICK f : f = [o \in S |-> o.qty]
      OBVIOUS
  <2>2. DOMAIN f = S /\ f = [x \in S |-> f[x]] /\ Q = {f[x] : x \in S}
      BY <1>1, <2>1
  <2>3. QED
      BY <1>2, <2>2, RangeFinite
<1>4. \A q \in Q : q \in Nat
    BY <1>1, NormQuantities
<1>5. n.qty \in Q /\ \A q \in Q : q \in Int
    BY <1>1, <1>4
<1>6. Max(Q) \in Q /\ \A q \in Q : q <= Max(Q)
    BY <1>3, <1>5, MaxFacts
<1>7. QED
    BY <1>1, <1>4, <1>5, <1>6 DEF LargestNorm

\* What the norms in force are.
LEMMA NormFacts ==
    ASSUME ChecksTyped, NormsNotNegative, NEW y \in Period, NEW e \in effective_norms(y)
    PROVE  /\ e.qty \in Nat
           /\ e.domestic => \E o \in UNION {m16[z] : z \in Period} :
                 o.domestic /\ o.book = e.book /\ o.material = e.material
<1>1. PICK n \in Declared16(y) : n \in InForce(n, y) /\ e = NormFor(n, y)
    BY NormsAre
<1>2. PICK z \in Period : InForce(n, y) = NormRows(n.book, n.product, z)
    BY InForcePeriod
<1>3. PairOf(n, y) \in SUBSET m16[z] /\ n \in PairOf(n, y)
    BY <1>1, <1>2 DEF PairOf, NormRows
<1>4. e.qty \in Nat
    BY <1>1, <1>3, NormForFields, LargestNormFacts
<1>5. ASSUME e.domestic
      PROVE  \E o \in UNION {m16[x] : x \in Period} :
                 o.domestic /\ o.book = e.book /\ o.material = e.material
  <2>1. PICK o \in PairOf(n, y) : o.domestic
      BY <1>1, <1>5, NormForFields DEF DomesticBy, NotedBy
  <2>2. o \in m16[z] /\ o.book = n.book /\ o.material = n.material
      BY <1>2, <2>1 DEF PairOf, NormRows
  <2>3. e.book = n.book /\ e.material = n.material
      BY <1>1, NormForFields
  <2>4. QED
      BY <2>1, <2>2, <2>3
<1>6. QED
    BY <1>4, <1>5

\* Finitely many norms are in force.
LEMMA NormsFinite ==
    ASSUME ChecksTyped, NEW y \in Period
    PROVE  IsFiniteSet(effective_norms(y))
<1>1. PICK P : P = {x \in Period : x <= y}
    OBVIOUS
<1>2. IsFiniteSet(P)
    BY <1>1, ChecksAssumption, FS_Subset
<1>3. PICK T : T = {m16[z] : z \in P}
    OBVIOUS
<1>4. IsFiniteSet(T)
  <2>1. PICK f : f = [z \in P |-> m16[z]]
      OBVIOUS
  <2>2. DOMAIN f = P /\ f = [x \in P |-> f[x]] /\ T = {f[x] : x \in P}
      BY <1>3, <2>1
  <2>3. QED
      BY <1>2, <2>2, RangeFinite
<1>5. \A S \in T : IsFiniteSet(S)
    BY <1>1, <1>3, RowFacts
<1>6. IsFiniteSet(UNION T)
    BY <1>4, <1>5, FS_UNION
<1>7. PICK D : D = {o \in Declared16(y) : o \in InForce(o, y)}
    OBVIOUS
<1>8. IsFiniteSet(D)
  <2>1. Declared16(y) = UNION T
      BY <1>1, <1>3 DEF Declared16
  <2>2. D \in SUBSET (UNION T)
      BY <1>7, <2>1
  <2>3. QED
      BY <1>6, <2>2, FS_Subset
<1>9. PICK f : f = [n \in D |-> NormFor(n, y)]
    OBVIOUS
<1>10. DOMAIN f = D /\ f = [x \in D |-> f[x]] /\ effective_norms(y) = {f[x] : x \in D}
    BY <1>7, <1>9, NormsAre
<1>11. QED
    BY <1>8, <1>10, RangeFinite

LEMMA MaxOfTwo ==
    ASSUME NEW x \in Int
    PROVE  Max({0, x}) \in Nat /\ x <= Max({0, x})
<1>1. PICK m \in {0, x} : m = IF x <= 0 THEN 0 ELSE x
    OBVIOUS
<1>2. \A k \in {0, x} : m >= k
    BY <1>1
<1>3. \A n \in {0, x} : (\A k \in {0, x} : n >= k) => n = m
    BY <1>1
<1>4. Max({0, x}) = m
    BY <1>1, <1>2, <1>3 DEF Max
<1>5. QED
    BY <1>1, <1>4

MadeRows(y, b, p) == {r \in m15a[y] : r.book = b /\ r.code = p}

\* What a product took in counts only if it is more than nothing.
LEMMA MadeFacts ==
    ASSUME ChecksTyped, NEW y \in Period, NEW n
    PROVE  /\ Made(y, n) \in Nat
           /\ \A r \in MadeRows(y, n.book, n.product) :
                 /\ r.intake_qty > 0
                 /\ ~(Cardinality(MadeRows(y, n.book, n.product)) > 1)
                 => Made(y, n) > 0
<1>1. PICK R : R = MadeRows(y, n.book, n.product)
    OBVIOUS
<1>2. Made(y, n) = IF R = {} THEN 0 ELSE Max({0, LastRow(R).intake_qty})
    BY <1>1 DEF Made, MadeRows
<1>3. R \in SUBSET m15a[y] /\ IsFiniteSet(R) /\ \A r \in R : r.no \in Int /\ r.intake_qty \in Int
  <2>1. R \in SUBSET m15a[y]
      BY <1>1 DEF MadeRows
  <2>2. QED
      BY <2>1, RowFacts, FS_Subset
<1>4. CASE R = {}
    BY <1>1, <1>2, <1>4
<1>5. CASE R # {}
  <2>1. PICK q \in R : q = LastRow(R)
      BY <1>3, <1>5, LastRowIn
  <2>2. PICK m : m = Max({0, q.intake_qty})
      OBVIOUS
  <2>3. m \in Nat /\ q.intake_qty <= m
      BY <1>3, <2>2, MaxOfTwo
  <2>4. Made(y, n) = m
      BY <1>2, <1>5, <2>1, <2>2
  <2>5. ASSUME NEW r \in R, r.intake_qty > 0, ~(Cardinality(R) > 1)
        PROVE  Made(y, n) > 0
    <3>1. r = q
        BY <1>3, <2>5, MoreThanOne
    <3>2. q.intake_qty \in Int
        BY <1>3
    <3>3. QED
        BY <2>3, <2>4, <2>5, <3>1, <3>2
  <2>6. QED
      BY <1>1, <2>3, <2>4, <2>5
<1>6. QED
    BY <1>4, <1>5

\* One norm that consumes is enough: none consumes less than nothing.
LEMMA ConsumptionPositive ==
    ASSUME ChecksTyped, NormsNotNegative, NEW y \in Period, NEW N \in SUBSET effective_norms(y),
           NEW e \in N, e.qty > 0, Made(y, e) > 0
    PROVE  Consumption(y, N) > 0
<1>1. PICK v : v = [n \in N |-> n.qty * Made(y, n)]
    OBVIOUS
<1>2. IsFiniteSet(N)
    BY NormsFinite, FS_Subset
<1>3. \A n \in N : v[n] \in Nat
  <2>1. TAKE n \in N
  <2>2. n.qty \in Nat /\ Made(y, n) \in Nat
      BY NormFacts, MadeFacts
  <2>3. PICK a, b \in Nat : a = n.qty /\ b = Made(y, n)
      BY <2>2
  <2>4. a * b \in Nat
      OBVIOUS
  <2>5. QED
      BY <1>1, <2>3, <2>4
<1>4. v[e] > 0
  <2>1. e.qty \in Nat /\ Made(y, e) \in Nat
      BY NormFacts, MadeFacts
  <2>2. PICK a, b \in Nat \ {0} : a = e.qty /\ b = Made(y, e)
      BY <2>1
  <2>3. a * b > 0
      OBVIOUS
  <2>4. QED
      BY <1>1, <2>2, <2>3
<1>5. Valued(v, N)
    BY <1>2, <1>3 DEF Valued
<1>6. SumOf(v, N) = v[e] + SumOf(v, N \ {e})
    BY <1>5, SumOfStep
<1>7. SumOf(v, N \ {e}) \in Nat
  <2>1. IsFiniteSet(N \ {e}) /\ \A n \in N \ {e} : v[n] \in Nat
      BY <1>2, <1>3, FS_Subset
  <2>2. QED
      BY <2>1, SumOfNat
<1>8. v[e] \in Nat
    BY <1>3
<1>9. SumOf(v, N) > 0
    BY <1>4, <1>6, <1>7, <1>8
<1>10. QED
    BY <1>1, <1>9, ConsumptionIs

(* C4.1 and C4.3, with names for their parts. *)
DomesticPairs(y) == {<<n.book, n.material>> : n \in {x \in NormScope(y) : x.domestic}}
Unsourced(y, k) ==
    LET rows == M15Rows(y, k[1], k[2])
    IN  rows = {} \/ (LastRow(rows).import_qty = 0 /\ LastRow(rows).opening_qty = 0)
NormsOf(y, k) == {n \in effective_norms(y) : <<n.book, n.material>> = k}
Theoretical(y, k) == Consumption(y, NormsOf(y, k))
Issued(y, k) == LastRow(M15Rows(y, k[1], k[2])).production_out_qty
Severity43(y, k) ==
    IF Issued(y, k) <= 0 THEN severity_for("C4_3", 1, 1)
    ELSE IF 100 * (Theoretical(y, k) - Issued(y, k)) <= 5 * Issued(y, k) THEN "none"
    ELSE severity_for("C4_3", Theoretical(y, k) - Issued(y, k), Issued(y, k))
Judged(y) ==
    {k \in {<<n.book, n.material>> : n \in effective_norms(y)} :
        M15Rows(y, k[1], k[2]) # {} /\ Theoretical(y, k) > 0}

LEMMA C41Is ==
    ASSUME NEW y
    PROVE  check_c4_1(y) =
             {Found("C4.1", "critical", k[2], k[1]) :
                k \in {x \in {<<n.book, n.material>> : n \in NormScope(y)} \ DomesticPairs(y) :
                        Unsourced(y, x)}}
BY Zenon DEF check_c4_1, DomesticPairs, Unsourced

LEMMA C43Is ==
    ASSUME NEW y
    PROVE  check_c4_3(y) =
             {Found("C4.3", Severity43(y, k), k[2], k[1]) :
                k \in {x \in Judged(y) : Severity43(y, x) # "none"}}
BY Zenon DEF check_c4_3, Judged, Severity43, Issued, Theoretical, NormsOf

\* The findings of the two checks.
LEMMA FindingsOfC4 ==
    ASSUME NEW y
    PROVE  /\ FindingsOf("C4.1", y) = check_c4_1(y)
           /\ FindingsOf("C4.3", y) = check_c4_3(y)
BY DEF FindingsOf

Foreign(b, m) == \A o \in UNION {m16[z] : z \in Period} : o.book = b /\ o.material = m => ~o.domestic

\* A use of a material is a norm in force that its consumption counts.
LEMMA UseInForce ==
    ASSUME ChecksTyped, NormsNotNegative, NEW y \in Period, NEW b, NEW p, NEW m, Uses(y, b, p, m)
    PROVE  \E e \in effective_norms(y) :
              /\ e.book = b /\ e.product = p /\ e.material = m /\ e.qty > 0
              /\ e \in consumed_materials(y)
<1>1. PICK z \in Period :
        /\ z <= y
        /\ \E n \in m16[z] : /\ n.book = b /\ n.product = p /\ n.material = m /\ n.qty > 0
        /\ \A x \in (z + 1)..y : \A n \in m16[x] : ~(n.book = b /\ n.product = p)
        /\ \E r \in m15a[y] : r.book = b /\ r.code = p /\ r.intake_qty > 0
    BY DEF Uses
<1>2. PICK n \in m16[z] : n.book = b /\ n.product = p /\ n.material = m /\ n.qty > 0
    BY <1>1
<1>3. \A x \in Period : z < x /\ x <= y => NormRows(n.book, n.product, x) = {}
  <2>1. ASSUME NEW x \in Period, z < x, x <= y PROVE NormRows(n.book, n.product, x) = {}
    <3>1. x \in Int /\ z \in Int /\ y \in Int
        BY ChecksAssumption
    <3>2. x \in (z + 1)..y
        BY <2>1, <3>1
    <3>3. QED
        BY <1>1, <1>2, <3>2 DEF NormRows
  <2>2. QED
      BY <2>1
<1>4. /\ InForce(n, y) = NormRows(n.book, n.product, z)
      /\ n \in InForce(n, y)
      /\ NormFor(n, y) \in effective_norms(y)
    BY <1>1, <1>3, LastInForce
<1>5. PICK e \in effective_norms(y) : e = NormFor(n, y)
    BY <1>4
<1>6. e.book = b /\ e.product = p /\ e.material = m /\ e.qty = LargestNorm(PairOf(n, y))
    BY <1>2, <1>5, NormForFields
<1>7. PICK S : S = PairOf(n, y)
    OBVIOUS
<1>8. S \in SUBSET m16[z] /\ n \in S
    BY <1>4, <1>7 DEF PairOf, NormRows
<1>9. LargestNorm(S) \in Nat /\ n.qty <= LargestNorm(S)
    BY <1>8, LargestNormFacts
<1>10. n.qty \in Int
    BY RowFacts
<1>11. e.qty > 0
    BY <1>2, <1>6, <1>7, <1>9, <1>10
<1>12. <<e.book, e.product>> \in produced_products(y)
    BY <1>1, <1>6 DEF produced_products
<1>13. e \in consumed_materials(y)
    BY <1>11, <1>12 DEF consumed_materials
<1>14. QED
    BY <1>6, <1>11, <1>13

\* No norm that C4.1 looks at calls the material domestic.
LEMMA ForeignPair ==
    ASSUME ChecksTyped, NormsNotNegative, NEW y \in Period, NEW b, NEW m, Foreign(b, m)
    PROVE  <<b, m>> \notin DomesticPairs(y)
<1>1. SUFFICES ASSUME NEW n \in NormScope(y), n.domestic, <<n.book, n.material>> = <<b, m>>
               PROVE  FALSE
    BY DEF DomesticPairs
<1>2. n.book = b /\ n.material = m
    BY <1>1
<1>3. CASE n \in m16[y]
    BY <1>1, <1>2, <1>3 DEF Foreign
<1>4. CASE n \in consumed_materials(y)
  <2>1. n \in effective_norms(y)
      BY <1>4 DEF consumed_materials
  <2>2. PICK o \in UNION {m16[z] : z \in Period} :
            o.domestic /\ o.book = n.book /\ o.material = n.material
      BY <1>1, <2>1, NormFacts
  <2>3. QED
      BY <1>2, <2>2 DEF Foreign
<1>5. QED
    BY <1>1, <1>3, <1>4 DEF NormScope

\* A foreign material that is used has a source or C4.1 reports it.
LEMMA SourcedOrReported ==
    ASSUME ChecksTyped, NormsNotNegative, NEW y \in Period, NEW b, NEW p, NEW m,
           Foreign(b, m), Uses(y, b, p, m)
    PROVE  \/ \E f \in FindingsOf("C4.1", y) : f.subject = m /\ f.book = b
           \/ \E r \in M15Rows(y, b, m) : r.import_qty # 0 \/ r.opening_qty # 0
<1>1. PICK e \in effective_norms(y) :
              /\ e.book = b /\ e.product = p /\ e.material = m /\ e.qty > 0
              /\ e \in consumed_materials(y)
    BY UseInForce
<1>2. PICK k : k = <<b, m>>
    OBVIOUS
<1>3. k[1] = b /\ k[2] = m
    BY <1>2
<1>4. k \in {<<n.book, n.material>> : n \in NormScope(y)}
    BY <1>1, <1>2 DEF NormScope
<1>5. k \notin DomesticPairs(y)
    BY <1>2, ForeignPair
<1>6. CASE Unsourced(y, k)
  <2>1. PICK f : f = Found("C4.1", "critical", k[2], k[1])
      OBVIOUS
  <2>2. f \in check_c4_1(y)
      BY <1>4, <1>5, <1>6, <2>1, C41Is
  <2>3. f.subject = m /\ f.book = b
      BY <1>3, <2>1 DEF Found
  <2>4. QED
      BY <2>2, <2>3, FindingsOfC4
<1>7. CASE ~Unsourced(y, k)
  <2>1. PICK R : R = M15Rows(y, b, m)
      OBVIOUS
  <2>2. R # {} /\ (LastRow(R).import_qty # 0 \/ LastRow(R).opening_qty # 0)
      BY <1>3, <1>7, <2>1 DEF Unsourced
  <2>3. R \in SUBSET m15[y]
      BY <2>1 DEF M15Rows
  <2>4. IsFiniteSet(R) /\ \A r \in R : r.no \in Int
      BY <2>3, RowFacts, FS_Subset
  <2>5. LastRow(R) \in R
      BY <2>2, <2>4, LastRowIn
  <2>6. QED
      BY <2>1, <2>2, <2>5
<1>8. QED
    BY <1>6, <1>7

\* It is issued to production, or C4.1 or C4.3 reports it, or its product is
\* stated more than once: C4.3 then looks at the last row only.
LEMMA IssuedOrReported ==
    ASSUME ChecksTyped, NormsNotNegative, NEW y \in Period, NEW b, NEW p, NEW m,
           Foreign(b, m), Uses(y, b, p, m)
    PROVE  \/ \E f \in FindingsOf("C4.1", y) \cup FindingsOf("C4.3", y) :
                 f.subject = m /\ f.book = b
           \/ \E r \in M15Rows(y, b, m) : r.production_out_qty > 0
           \/ Cardinality(MadeRows(y, b, p)) > 1
<1>1. PICK R : R = M15Rows(y, b, m)
    OBVIOUS
<1>2. CASE R = {}
    BY <1>1, <1>2, SourcedOrReported
<1>3. SUFFICES ASSUME R # {}, \A r \in R : ~(r.production_out_qty > 0),
                      ~(Cardinality(MadeRows(y, b, p)) > 1)
               PROVE  \E f \in FindingsOf("C4.3", y) : f.subject = m /\ f.book = b
    BY <1>1, <1>2
<1>4. PICK e \in effective_norms(y) :
              /\ e.book = b /\ e.product = p /\ e.material = m /\ e.qty > 0
              /\ e \in consumed_materials(y)
    BY UseInForce
<1>5. PICK k : k = <<b, m>>
    OBVIOUS
<1>6. k[1] = b /\ k[2] = m
    BY <1>5
<1>7. R \in SUBSET m15[y]
    BY <1>1 DEF M15Rows
<1>8. IsFiniteSet(R) /\ \A r \in R : r.no \in Int /\ r.production_out_qty \in Int
    BY <1>7, RowFacts, FS_Subset
<1>9. LastRow(R) \in R
    BY <1>3, <1>8, LastRowIn
<1>10. Issued(y, k) = LastRow(R).production_out_qty
    BY <1>1, <1>6 DEF Issued
<1>11. Issued(y, k) <= 0
    BY <1>3, <1>8, <1>9, <1>10
<1>12. Severity43(y, k) = "critical"
  <2>1. Severity43(y, k) = severity_for("C4_3", 1, 1)
      BY <1>11 DEF Severity43
  <2>2. severity_for("C4_3", 1, 1) = "critical"
      BY DEF severity_for, Bands
  <2>3. QED
      BY <2>1, <2>2
<1>13. PICK N : N = NormsOf(y, k)
    OBVIOUS
<1>14. N \in SUBSET effective_norms(y) /\ e \in N
    BY <1>4, <1>5, <1>13 DEF NormsOf
<1>15. PICK r \in m15a[y] : r.book = b /\ r.code = p /\ r.intake_qty > 0
    BY DEF Uses
<1>16. r \in MadeRows(y, e.book, e.product)
    BY <1>4, <1>15 DEF MadeRows
<1>17. Made(y, e) > 0
    BY <1>3, <1>4, <1>15, <1>16, MadeFacts
<1>18. Consumption(y, N) > 0
    BY <1>4, <1>14, <1>17, ConsumptionPositive
<1>19. k \in Judged(y)
  <2>1. k \in {<<n.book, n.material>> : n \in effective_norms(y)}
      BY <1>4, <1>5
  <2>2. Theoretical(y, k) > 0
      BY <1>13, <1>18 DEF Theoretical
  <2>3. M15Rows(y, k[1], k[2]) # {}
      BY <1>1, <1>3, <1>6
  <2>4. QED
      BY <2>1, <2>2, <2>3 DEF Judged
<1>20. PICK f : f = Found("C4.3", Severity43(y, k), k[2], k[1])
    OBVIOUS
<1>21. Severity43(y, k) # "none"
    BY <1>12
<1>22. f \in check_c4_3(y)
    BY <1>19, <1>20, <1>21, C43Is
<1>23. f.subject = m /\ f.book = b
    BY <1>6, <1>20 DEF Found
<1>24. QED
    BY <1>22, <1>23, FindingsOfC4

LEMMA NoneUnseenAlways ==
    ASSUME ChecksTyped, NormsNotNegative
    PROVE  NoMaterialUnseen
<1>1. ASSUME NEW y \in Period, NEW n, Foreign(n.book, n.material),
             Uses(y, n.book, n.product, n.material)
      PROVE  /\ \/ \E f \in FindingsOf("C4.1", y) \cup FindingsOf("C4.3", y) :
                      f.subject = n.material /\ f.book = n.book
                \/ \E r \in M15Rows(y, n.book, n.material) :
                      r.import_qty # 0 \/ r.opening_qty # 0
             /\ \/ \E f \in FindingsOf("C4.1", y) \cup FindingsOf("C4.3", y) :
                      f.subject = n.material /\ f.book = n.book
                \/ \E r \in M15Rows(y, n.book, n.material) : r.production_out_qty > 0
                \/ Cardinality(MadeRows(y, n.book, n.product)) > 1
  <2>1. PICK b, p, m : b = n.book /\ p = n.product /\ m = n.material
      OBVIOUS
  <2>2. Foreign(b, m) /\ Uses(y, b, p, m)
      BY <1>1, <2>1
  <2>3. \/ \E f \in FindingsOf("C4.1", y) : f.subject = m /\ f.book = b
        \/ \E r \in M15Rows(y, b, m) : r.import_qty # 0 \/ r.opening_qty # 0
      BY <2>2, SourcedOrReported
  <2>4. \/ \E f \in FindingsOf("C4.1", y) \cup FindingsOf("C4.3", y) :
                 f.subject = m /\ f.book = b
        \/ \E r \in M15Rows(y, b, m) : r.production_out_qty > 0
        \/ Cardinality(MadeRows(y, b, p)) > 1
      BY <2>2, IssuedOrReported
  <2>5. QED
      BY <2>1, <2>3, <2>4
<1>2. LoadedPeriods \in SUBSET Period
    BY DEF LoadedPeriods
<1>3. QED
    BY Zenon, <1>1, <1>2 DEF NoMaterialUnseen, Foreign, MadeRows

\* A quantity that is stated again in a second unit makes no mismatch of one
\* that matches, for any units, rows and declarations (c1_quantity.py).
THEOREM SecondUnitSafe == ChecksSpec => []SecondUnitHarmless
<1>1. ChecksTyped => SecondUnitHarmless
    BY SecondUnitAlways
<1>2. QED
    BY <1>1, ChecksAlways, PTL

\* Where no norm is negative, which the ingest does not see to, C4.1 and C4.3
\* leave no foreign material that a product uses unseen between them, whatever
\* periods, books, rows and norms there are (c4_norm.py).
THEOREM MaterialsAreSeen ==
    ASSUME NormsNotNegative
    PROVE  ChecksSpec => []NoMaterialUnseen
<1>1. ChecksTyped => NoMaterialUnseen
    BY NoneUnseenAlways
<1>2. QED
    BY <1>1, ChecksAlways, PTL

(***************************************************************************)
(* Checks.  The verdict of C3.3 on a material is a least of greatest        *)
(* marks: it is DIFFERENT just when each of its units differs from some    *)
(* unit elsewhere, and that stays so as the others grow in number.         *)
(***************************************************************************)

\* Marks are of four kinds.
LEMMA CompareRange ==
    ASSUME NEW u, NEW v
    PROVE  compare(u, v) \in 0 .. 3
BY DEF compare, UNRESOLVED, DIFFERENT

\* Marks have a greatest and a least one.
LEMMA MarksOrdered ==
    ASSUME NEW S, S \subseteq 0 .. 3, S # {}
    PROVE  /\ Max(S) \in S /\ \A x \in S : x <= Max(S)
           /\ Min(S) \in S /\ \A x \in S : Min(S) <= x
<1>1. \A x \in S : x = 0 \/ x = 1 \/ x = 2 \/ x = 3
    OBVIOUS
<1>2. \E x \in S : \A y \in S : x >= y
  <2>1. CASE 3 \in S
      BY <1>1, <2>1
  <2>2. CASE 3 \notin S /\ 2 \in S
      BY <1>1, <2>2
  <2>3. CASE 3 \notin S /\ 2 \notin S /\ 1 \in S
      BY <1>1, <2>3
  <2>4. CASE 3 \notin S /\ 2 \notin S /\ 1 \notin S
    <3>1. S = {0}
        BY <1>1, <2>4
    <3>2. QED
        BY <3>1
  <2>5. QED
      BY <2>1, <2>2, <2>3, <2>4
<1>3. \E x \in S : \A y \in S : x <= y
  <2>1. CASE 0 \in S
      BY <1>1, <2>1
  <2>2. CASE 0 \notin S /\ 1 \in S
      BY <1>1, <2>2
  <2>3. CASE 0 \notin S /\ 1 \notin S /\ 2 \in S
      BY <1>1, <2>3
  <2>4. CASE 0 \notin S /\ 1 \notin S /\ 2 \notin S
    <3>1. S = {3}
        BY <1>1, <2>4
    <3>2. QED
        BY <3>1
  <2>5. QED
      BY <2>1, <2>2, <2>3, <2>4
<1>4. Max(S) \in S /\ \A y \in S : Max(S) >= y
    BY <1>2 DEF Max
<1>5. Min(S) \in S /\ \A y \in S : Min(S) <= y
    BY <1>3 DEF Min
<1>6. QED
    BY <1>4, <1>5

WorstMark(u, others) == Max({compare(u, o) : o \in others})

BestMark(units, others) == Min({WorstMark(u, others) : u \in units})

\* A greatest mark is DIFFERENT when one of them is.
LEMMA WorstIsDifferent ==
    ASSUME NEW u, NEW others, others # {}
    PROVE  /\ WorstMark(u, others) \in 0 .. 3
           /\ WorstMark(u, others) = DIFFERENT <=> \E o \in others : compare(u, o) = DIFFERENT
<1>1. PICK S : S = {compare(u, o) : o \in others}
    OBVIOUS
<1>2. S \subseteq 0 .. 3 /\ S # {}
    BY <1>1, CompareRange
<1>3. PICK x : x = Max(S)
    OBVIOUS
<1>4. x \in S /\ \A z \in S : z <= x
    BY <1>2, <1>3, MarksOrdered
<1>5. x \in 0 .. 3 /\ (x = 3 <=> 3 \in S)
    BY <1>2, <1>4
<1>6. x = WorstMark(u, others)
    BY <1>1, <1>3 DEF WorstMark
<1>7. QED
    BY <1>1, <1>5, <1>6 DEF DIFFERENT

\* A least mark is DIFFERENT when all of them are.
LEMMA BestIsDifferent ==
    ASSUME NEW units, units # {}, NEW others, others # {}
    PROVE  BestMark(units, others) = DIFFERENT
               <=> \A u \in units : \E o \in others : compare(u, o) = DIFFERENT
<1>1. PICK S : S = {WorstMark(u, others) : u \in units}
    OBVIOUS
<1>2. S \subseteq 0 .. 3 /\ S # {}
    BY <1>1, WorstIsDifferent
<1>3. PICK x : x = Min(S)
    OBVIOUS
<1>4. x \in S /\ \A z \in S : x <= z
    BY <1>2, <1>3, MarksOrdered
<1>5. x = 3 <=> \A z \in S : z = 3
    BY <1>2, <1>4
<1>6. x = BestMark(units, others)
    BY <1>1, <1>3 DEF BestMark
<1>7. x = DIFFERENT <=> \A u \in units : WorstMark(u, others) = DIFFERENT
    BY <1>1, <1>5 DEF DIFFERENT
<1>8. QED
    BY <1>6, <1>7, WorstIsDifferent

\* The units of a material in the rows of a balance.
UnitsIn(rows, b, c) == {r.unit : r \in {x \in rows : x.book = b /\ x.code = c}}

MarkOf(rows, row, others) == BestMark(UnitsIn(rows, row.book, row.code), others)

MarkSeverity(n) == IF n = DIFFERENT THEN "critical" ELSE IF n = UNRESOLVED THEN "warning" ELSE "info"

\* The finding of a row, and which rows have one.
UnitFinding(rows, row, others) ==
    Found("C3.3", MarkSeverity(MarkOf(rows, row, others)), row.code, row.book)

\* check_c3_3, with names for its parts.
LEMMA FindingsByUnit ==
    ASSUME NEW y
    PROVE  check_c3_3(y) =
               {UnitFinding(m15[y], r, OtherUnits(y, r.book, r.code)) :
                  r \in {x \in m15[y] : /\ OtherUnits(y, x.book, x.code) # {}
                                        /\ MarkOf(m15[y], x, OtherUnits(y, x.book, x.code)) > 0}}
BY Zenon DEF check_c3_3, UnitFinding, MarkOf, MarkSeverity, UnitsIn, BestMark, WorstMark

\* A critical finding is about a material all of whose units differ from one.
LEMMA CriticalMeans ==
    ASSUME NEW rows, NEW r \in rows, NEW others, others # {}
    PROVE  /\ UnitFinding(rows, r, others).severity = "critical" <=> MarkOf(rows, r, others) = DIFFERENT
           /\ MarkOf(rows, r, others) = DIFFERENT <=>
                  \A u \in UnitsIn(rows, r.book, r.code) : \E o \in others : compare(u, o) = DIFFERENT
<1>1. UnitFinding(rows, r, others).severity = MarkSeverity(MarkOf(rows, r, others))
    BY DEF UnitFinding, Found
<1>2. UnitsIn(rows, r.book, r.code) # {}
    BY DEF UnitsIn
<1>3. QED
    BY <1>1, <1>2, BestIsDifferent DEF MarkSeverity, MarkOf

\* More declarations and norms have more units.
LEMMA OthersGrow ==
    ASSUME NEW y, bcct[y] \subseteq bcct'[y], m16[y] \subseteq m16'[y], NEW b, NEW c
    PROVE  OtherUnits(y, b, c) \subseteq OtherUnits(y, b, c)'
BY DEF OtherUnits

\* A critical finding of C3.3 stays when they grow.
LEMMA CriticalStays ==
    ASSUME NEW y, m15'[y] = m15[y], bcct[y] \subseteq bcct'[y], m16[y] \subseteq m16'[y],
           NEW f \in check_c3_3(y), f.severity = "critical"
    PROVE  f \in check_c3_3(y)'
<1>1. PICK rows : rows = m15[y]
    OBVIOUS
<1>2. PICK r \in rows : /\ OtherUnits(y, r.book, r.code) # {}
                        /\ f = UnitFinding(rows, r, OtherUnits(y, r.book, r.code))
    BY <1>1, FindingsByUnit
<1>3. PICK before, after : /\ before = OtherUnits(y, r.book, r.code)
                           /\ after = OtherUnits(y, r.book, r.code)'
    OBVIOUS
<1>4. before # {} /\ before \subseteq after /\ after # {}
    BY <1>2, <1>3, OthersGrow
<1>5. MarkOf(rows, r, before) = DIFFERENT
    BY <1>2, <1>3, <1>4, CriticalMeans
<1>6. MarkOf(rows, r, after) = DIFFERENT
    BY <1>4, <1>5, CriticalMeans
<1>7. UnitFinding(rows, r, after) = f
    BY <1>2, <1>3, <1>5, <1>6 DEF UnitFinding
<1>8. check_c3_3(y)' =
          {UnitFinding(m15'[y], x, OtherUnits(y, x.book, x.code)') :
             x \in {z \in m15'[y] : /\ OtherUnits(y, z.book, z.code)' # {}
                                    /\ MarkOf(m15'[y], z, OtherUnits(y, z.book, z.code)') > 0}}
    BY Zenon DEF check_c3_3, UnitFinding, MarkOf, MarkSeverity, UnitsIn, BestMark, WorstMark
<1>9. r \in m15'[y] /\ MarkOf(rows, r, after) > 0
    BY <1>1, <1>6 DEF DIFFERENT
<1>10. QED
    BY <1>1, <1>3, <1>4, <1>7, <1>8, <1>9

\* Whatever is loaded, declarations and norms that are added hide no mismatch
\* of units: neither the family of a unit nor the order of rows matters.
THEOREM MismatchStays == ChecksSpec => MismatchNeverHidden
<1>1. [ChecksNext]_checkVars =>
          [<<bcct, m16>>' # <<bcct, m16>> => \A y \in Period :
              /\ m15[y] # {} /\ m15'[y] = m15[y]
              /\ bcct[y] \subseteq bcct'[y] /\ m16[y] \subseteq m16'[y]
              => {f \in check_c3_3(y) : f.severity = "critical"} \subseteq check_c3_3(y)']_checkVars
    BY CriticalStays
<1>2. QED
    BY <1>1, PTL DEF ChecksSpec, MismatchNeverHidden
=============================================================================
