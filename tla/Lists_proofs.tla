---------------------------- MODULE Lists_proofs ----------------------------
(***************************************************************************)
(* Proofs about what loops over lists compute: the chunks of a document,   *)
(* the silver records of a batch and the planner's digests, for lists of   *)
(* any length.  A fold of the community modules is a recursive function    *)
(* over the subsets of a finite set; the first part shows that such a      *)
(* function exists and that a fold from left to right has a value after    *)
(* each element, so that an invariant of the loop can be proved by         *)
(* induction.                                                              *)
(***************************************************************************)
EXTENDS Chunker, Silver, Planner, FiniteSetTheorems, SequenceTheorems, WellFoundedInduction, TLAPS

------------------------------------------------------------------------------
(***************************************************************************)
(* Induction, and folds.                                                   *)
(***************************************************************************)

\* WFMin and NatLessThanWellFounded of the library, for the naturals.
LEMMA LeastNat ==
  ASSUME NEW T, T \subseteq Nat, T # {}
  PROVE  \E n \in T : \A m \in T : n <= m
<1>1. \E n \in T : \A m \in T : ~(<<m, n>> \in OpToRel(<, Nat))
  BY NatLessThanWellFounded, WFMin
<1>2. PICK n \in T : \A m \in T : ~(<<m, n>> \in OpToRel(<, Nat))
  BY <1>1
<1>3. ASSUME NEW m \in T PROVE n <= m
  <2>1. n \in Nat /\ m \in Nat OBVIOUS
  <2>2. ~(<<m, n>> \in OpToRel(<, Nat)) BY <1>2
  <2>3. m < n => <<m, n>> \in OpToRel(<, Nat) BY <2>1 DEF OpToRel
  <2>4. ~(m < n) BY <2>2, <2>3, Zenon
  <2> QED BY <2>1, <2>4
<1> QED BY <1>3

LEMMA Induction ==
  ASSUME NEW P, 0 \in P, \A n \in Nat : n \in P => n + 1 \in P
  PROVE  Nat \subseteq P
<1> DEFINE T == Nat \ P
<1>1. SUFFICES ASSUME T # {} PROVE FALSE OBVIOUS
<1>2. PICK n \in T : \A m \in T : n <= m BY <1>1, LeastNat
<1>3. n # 0 OBVIOUS
<1>4. n - 1 \in Nat /\ n - 1 \notin T BY <1>2, <1>3
<1>5. n - 1 + 1 \in P BY <1>4
<1> QED BY <1>2, <1>5

LEMMA BoundedInduction ==
  ASSUME NEW k \in Nat, NEW P, 0 \in P, \A n \in 0..k - 1 : n \in P => n + 1 \in P
  PROVE  0..k \subseteq P
<1> DEFINE Q == {n \in Nat : n <= k => n \in P}
<1>1. 0 \in Q OBVIOUS
<1>2. ASSUME NEW n \in Nat, n \in Q PROVE n + 1 \in Q BY <1>2
<1>3. Nat \subseteq Q
  <2> HIDE DEF Q
  <2> QED BY <1>1, <1>2, Induction
<1> QED BY <1>3

\* it computes the fold over S that takes c's choice last, and the one over 1..n that
\* goes from left to right.
Folds(it, S, base, step, c) ==
  it = [t \in SUBSET S |-> IF t = {} THEN base ELSE step[c[t]][it[t \ {c[t]}]]]
FoldsLeft(it, n, A, base, step) ==
  /\ \A t \in SUBSET (1..n) : it[t] \in A
  /\ it = [t \in SUBSET (1..n) |-> IF t = {} THEN base ELSE step[Max(t)][it[t \ {Max(t)}]]]

\* v holds what a left fold has after each element; the fold is end.
Traces(v, n, A, base, step, end) ==
  /\ \A k \in 0..n : v[k] \in A
  /\ v[0] = base /\ v[n] = end
  /\ \A k \in 1..n : v[k] = step[k][v[k - 1]]

\* One function for each element, on a type of which base is.
Steps(step, n, A, base) == base \in A /\ step \in [1..n -> [A -> A]]

\* The iteration g of a left fold, at the prefixes of 1..n.
Iterates(g, n, A, base, step) ==
  /\ Steps(step, n, A, base)
  /\ g[{}] = base
  /\ \A k \in 1..n : g[1..k - 1] \in A => g[1..k] = step[k][g[1..k - 1]]

\* A fold over a finite set is defined: some function satisfies its equation.
LEMMA FoldExists ==
  ASSUME NEW S, IsFiniteSet(S), NEW A, NEW base \in A, NEW step \in [S -> [A -> A]],
         NEW c \in [(SUBSET S) \ {{}} -> S], \A t \in (SUBSET S) \ {{}} : c[t] \in t
  PROVE  \E it \in [SUBSET S -> A] : Folds(it, S, base, step, c)
<1> DEFINE Up(n) == {t \in SUBSET S : Cardinality(t) <= n}
           Good(n, it) == \A t \in Up(n) : it[t] = IF t = {} THEN base ELSE step[c[t]][it[t \ {c[t]}]]
           P == {n \in Nat : \E it \in [Up(n) -> A] : Good(n, it)}
<1>s. \A t \in SUBSET S : IsFiniteSet(t) /\ Cardinality(t) \in Nat /\ (Cardinality(t) = 0 <=> t = {})
  BY FS_Subset, FS_CardinalityType, FS_EmptySet
<1>r. \A t \in (SUBSET S) \ {{}} : /\ c[t] \in t /\ c[t] \in S /\ t \ {c[t]} \in SUBSET S
                                 /\ Cardinality(t \ {c[t]}) = Cardinality(t) - 1
  BY <1>s, FS_RemoveElement
<1>1. 0 \in P
  <2> DEFINE f == [t \in Up(0) |-> base]
  <2>1. f \in [Up(0) -> A] OBVIOUS
  <2>2. \A t \in Up(0) : t = {} BY <1>s
  <2>3. Good(0, f) BY <2>2
  <2> QED BY <2>1, <2>3
<1>2. ASSUME NEW n \in Nat, n \in P PROVE n + 1 \in P
  <2>1. PICK it \in [Up(n) -> A] : Good(n, it) BY <1>2
  <2> DEFINE f == [t \in Up(n + 1) |-> IF t \in Up(n) THEN it[t] ELSE step[c[t]][it[t \ {c[t]}]]]
  <2>2. \A t \in Up(n + 1) : t # {} => t \in (SUBSET S) \ {{}} /\ t \ {c[t]} \in Up(n) BY <1>r, <1>s
  <2>3. \A t \in Up(n) : t \in Up(n + 1) BY <1>s
  <2>4. {} \in Up(n) BY <1>s
  <2>5. f \in [Up(n + 1) -> A]
    <3>1. ASSUME NEW t \in Up(n + 1) PROVE f[t] \in A
      <4>1. CASE t \in Up(n) BY <4>1, <2>1
      <4>2. CASE t \notin Up(n)
        <5>1. t \in (SUBSET S) \ {{}} /\ it[t \ {c[t]}] \in A /\ c[t] \in S BY <4>2, <2>2, <2>1, <2>4, <1>r
        <5>2. f[t] = step[c[t]][it[t \ {c[t]}]] BY <4>2
        <5>3. step[c[t]] \in [A -> A] BY <5>1
        <5> HIDE DEF f, Up
        <5> QED BY <5>1, <5>2, <5>3
      <4> QED BY <4>1, <4>2
    <3> HIDE DEF f
    <3>2. f = [t \in Up(n + 1) |-> f[t]] BY DEF f
    <3> QED BY <3>1, <3>2
  <2>6. ASSUME NEW t \in Up(n + 1) PROVE f[t] = IF t = {} THEN base ELSE step[c[t]][f[t \ {c[t]}]]
    <3>1. \A u \in Up(n) : f[u] = it[u] BY <2>3
    <3>2. CASE t = {}
      <4>1. it[t] = base BY <2>1, <3>2, <2>4
      <4> QED BY <4>1, <3>1, <3>2, <2>4
    <3>3. CASE t # {}
      <4>1. t \ {c[t]} \in Up(n) BY <3>3, <2>2
      <4>2. f[t \ {c[t]}] = it[t \ {c[t]}] BY <4>1, <3>1
      <4>3. CASE t \in Up(n)
        <5>1. it[t] = step[c[t]][it[t \ {c[t]}]] BY <4>3, <2>1, <3>3
        <5> QED BY <5>1, <4>2, <4>3, <3>1, <3>3
      <4>4. CASE t \notin Up(n) BY <4>4, <4>2, <3>3
      <4> QED BY <4>3, <4>4
    <3> QED BY <3>2, <3>3
  <2>7. Good(n + 1, f) BY <2>6
  <2>8. \E h \in [Up(n + 1) -> A] : Good(n + 1, h)
    <3> HIDE DEF f, Good, Up, P
    <3> QED BY <2>5, <2>7
  <2> QED
    <3> HIDE DEF f, Good, Up
    <3> QED BY <2>8
<1>3. Nat \subseteq P
  <2> HIDE DEF P
  <2> QED BY <1>1, <1>2, Induction
<1>4. Up(Cardinality(S)) = SUBSET S /\ Cardinality(S) \in Nat
  BY FS_Subset, FS_CardinalityType
<1>5. PICK it \in [SUBSET S -> A] : Good(Cardinality(S), it)
  <2>1. Cardinality(S) \in P BY <1>3, <1>4
  <2>2. \E it \in [Up(Cardinality(S)) -> A] : Good(Cardinality(S), it)
    <3> HIDE DEF Up, Good
    <3> QED BY <2>1
  <2> HIDE DEF Up, Good
  <2> QED BY <2>2, <1>4
<1>6. Folds(it, S, base, step, c)
  BY <1>4, <1>5 DEF Folds
<1> QED BY <1>5, <1>6

LEMMA MaxOfSet ==
  ASSUME NEW n \in Nat, NEW t \in SUBSET (1..n), t # {}
  PROVE  Max(t) \in t /\ \A i \in t : i <= Max(t)
<1> DEFINE T == {n - i : i \in t}
<1>1. T \subseteq Nat /\ T # {} OBVIOUS
<1>2. PICK m \in T : \A k \in T : m <= k BY <1>1, LeastNat
<1>3. PICK i \in t : m = n - i OBVIOUS
<1>4. ASSUME NEW j \in t PROVE j <= i
  <2>1. n - j \in T /\ i \in Nat /\ j \in Nat OBVIOUS
  <2>2. n - i <= n - j BY <1>2, <1>3, <2>1
  <2> QED BY <2>1, <2>2
<1>5. \E x \in t : \A y \in t : x >= y BY <1>4
<1> QED BY <1>5 DEF Max

LEMMA MaxOfPrefix ==
  ASSUME NEW n \in Nat, NEW k \in 1..n
  PROVE  1..k \in SUBSET (1..n) /\ 1..k # {} /\ Max(1..k) = k /\ (1..k) \ {k} = 1..k - 1
<1>1. 1..k \in SUBSET (1..n) /\ k \in 1..k OBVIOUS
<1>2. Max(1..k) \in 1..k /\ k <= Max(1..k) BY <1>1, MaxOfSet
<1> QED BY <1>1, <1>2

LEMMA LeftFoldExists ==
  ASSUME NEW n \in Nat, NEW A, NEW base, NEW step, Steps(step, n, A, base)
  PROVE  \E it : FoldsLeft(it, n, A, base, step)
<1> DEFINE c == [t \in (SUBSET (1..n)) \ {{}} |-> Max(t)]
<1>1. IsFiniteSet(1..n) /\ base \in A /\ step \in [1..n -> [A -> A]] BY FS_Interval DEF Steps
<1>2. \A t \in (SUBSET (1..n)) \ {{}} : c[t] \in t BY MaxOfSet
<1>3. c \in [(SUBSET (1..n)) \ {{}} -> 1..n] BY <1>2
<1>4. \A t \in SUBSET (1..n) : t # {} => c[t] = Max(t) OBVIOUS
<1> HIDE DEF c
<1>5. PICK it \in [SUBSET (1..n) -> A] : Folds(it, 1..n, base, step, c)
  BY <1>1, <1>2, <1>3, FoldExists
<1>6. FoldsLeft(it, n, A, base, step)
  BY <1>4, <1>5 DEF Folds, FoldsLeft
<1> QED BY <1>6

LEMMA LeftFoldValues ==
  ASSUME NEW n \in Nat, NEW A, NEW base, NEW step, NEW g, Iterates(g, n, A, base, step)
  PROVE  \E v : Traces(v, n, A, base, step, g[1..n])
<1> DEFINE v == [k \in 0..n |-> g[1..k]]
           P == {k \in 0..n : g[1..k] \in A}
<1> USE DEF Iterates, Steps
<1>1. 1..0 = {} OBVIOUS
<1>2. 0 \in P BY <1>1
<1>3. ASSUME NEW k \in 0..n - 1, k \in P PROVE k + 1 \in P
  <2>1. k + 1 \in 1..n /\ (k + 1) - 1 = k OBVIOUS
  <2>2. g[1..k + 1] = step[k + 1][g[1..k]] BY <2>1, <1>3
  <2>3. g[1..k] \in A BY <1>3
  <2> QED BY <2>1, <2>2, <2>3
<1>4. 0..n \subseteq P
  <2> HIDE DEF P
  <2> QED BY <1>2, <1>3, BoundedInduction
<1>5. \A k \in 0..n : v[k] \in A BY <1>4
<1>6. \A k \in 1..n : v[k] = step[k][v[k - 1]] BY <1>4
<1>7. v[0] = base /\ v[n] = g[1..n] BY <1>1
<1> HIDE DEF v
<1> QED BY <1>5, <1>6, <1>7 DEF Traces

\* Induction over the subsets of a finite set: each not empty one has an element it
\* is enough to do without.
LEMMA SubsetInduction ==
  ASSUME NEW S, IsFiniteSet(S), NEW P, {} \in P,
         \A t \in SUBSET S : t # {} => \E x \in t : t \ {x} \in P => t \in P
  PROVE  SUBSET S \subseteq P
<1> DEFINE Q == {n \in Nat : \A t \in SUBSET S : Cardinality(t) = n => t \in P}
<1>0. \A t \in SUBSET S : IsFiniteSet(t) /\ Cardinality(t) \in Nat /\ (Cardinality(t) = 0 <=> t = {})
  BY FS_Subset, FS_CardinalityType, FS_EmptySet
<1>1. 0 \in Q BY <1>0
<1>2. ASSUME NEW n \in Nat, n \in Q PROVE n + 1 \in Q
  <2>1. ASSUME NEW t \in SUBSET S, Cardinality(t) = n + 1 PROVE t \in P
    <3>1. t # {} BY <1>0, <2>1
    <3>2. PICK x \in t : t \ {x} \in P => t \in P BY <3>1
    <3>3. t \ {x} \in SUBSET S /\ Cardinality(t \ {x}) = n
      <4>1. IsFiniteSet(t) BY <1>0
      <4>2. Cardinality(t \ {x}) = Cardinality(t) - 1 BY <4>1, FS_RemoveElement
      <4> QED BY <2>1, <4>2
    <3>4. t \ {x} \in P BY <1>2, <3>3
    <3> QED BY <3>2, <3>4
  <2> QED BY <2>1
<1>3. Nat \subseteq Q
  <2> HIDE DEF Q
  <2> QED BY <1>1, <1>2, Induction
<1> QED BY <1>0, <1>3

------------------------------------------------------------------------------
(***************************************************************************)
(* brain/rag.py: documents of any number of sentences of any length, any   *)
(* sizes of chunks and overlaps.                                           *)
(***************************************************************************)

LEMMA SumFold ==
  ASSUME NEW s \in Seq(Nat)
  PROVE  \E v : /\ \A k \in 0..Len(s) : v[k] \in Nat
                /\ v[0] = 0 /\ \A k \in 1..Len(s) : v[k] = v[k - 1] + s[k]
                /\ v[Len(s)] = FoldLeft(LAMBDA x, y : x + y, 0, s)
<1> DEFINE It(f) == [t \in SUBSET DOMAIN s |-> IF t = {} THEN 0 ELSE f[t \ {Max(t)}] + s[Max(t)]]
           step == [k \in 1..Len(s) |-> [a \in Nat |-> a + s[k]]]
<1>1. FoldLeft(LAMBDA x, y : x + y, 0, s) = (CHOOSE f : f = It(f))[DOMAIN s]
  BY DEF FoldLeft, MapThenFoldSet
<1>2. Len(s) \in Nat /\ DOMAIN s = 1..Len(s) /\ \A k \in 1..Len(s) : s[k] \in Nat OBVIOUS
<1>3. Steps(step, Len(s), Nat, 0) BY DEF Steps
<1>4. \E f : f = It(f)
  <2>1. PICK f : FoldsLeft(f, Len(s), Nat, 0, step)
    <3> HIDE DEF step
    <3> QED BY <1>2, <1>3, LeftFoldExists
  <2>2. \A t \in SUBSET (1..Len(s)) : t # {} => Max(t) \in 1..Len(s) BY <1>2, MaxOfSet
  <2>3. f = It(f) BY <2>1, <2>2, <1>2 DEF FoldsLeft
  <2> QED BY <2>3
<1> DEFINE g == CHOOSE f : f = It(f)
<1>5. g = It(g) BY <1>4
<1>6. g[{}] = 0 BY <1>5
<1> HIDE DEF g
<1>7. ASSUME NEW k \in 1..Len(s) PROVE g[1..k] = g[1..k - 1] + s[k]
  <2>1. 1..k \in SUBSET DOMAIN s /\ 1..k # {} /\ Max(1..k) = k /\ (1..k) \ {k} = 1..k - 1 BY <1>2, MaxOfPrefix
  <2> QED BY <2>1, <1>5
<1>8. Iterates(g, Len(s), Nat, 0, step) BY <1>3, <1>6, <1>7 DEF Iterates
<1>9. PICK v : Traces(v, Len(s), Nat, 0, step, g[1..Len(s)])
  <2> HIDE DEF step
  <2> QED BY <1>2, <1>8, LeftFoldValues
<1>10. v[0] = 0 /\ \A k \in 1..Len(s) : v[k] = v[k - 1] + s[k]
  <2>1. ASSUME NEW k \in 1..Len(s) PROVE v[k] = v[k - 1] + s[k]
    <3>1. v[k] = step[k][v[k - 1]] BY <1>9 DEF Traces
    <3>2. v[k - 1] \in Nat BY <1>9 DEF Traces
    <3> QED BY <3>1, <3>2
  <2> QED BY <1>9, <2>1 DEF Traces
<1> QED BY <1>1, <1>2, <1>9, <1>10 DEF g, Traces

\* A document: the lengths of its sentences.
Lengths(s) == s \in Seq(Nat)

LEMMA LengthsFacts ==
  ASSUME NEW s, Lengths(s)
  PROVE  /\ Len(s) \in Nat /\ \A k \in 1..Len(s) : s[k] \in Nat
         /\ \A a \in 1..Len(s) + 1, b \in Nat : a - 1 <= b /\ b <= Len(s) =>
              /\ Lengths(SubSeq(s, a, b)) /\ Len(SubSeq(s, a, b)) = b - a + 1
              /\ \A k \in 1..b - a + 1 : SubSeq(s, a, b)[k] = s[a + k - 1]
<1> USE DEF Lengths
<1>1. ASSUME NEW a \in 1..Len(s) + 1, NEW b \in Nat, a - 1 <= b, b <= Len(s)
      PROVE  /\ Lengths(SubSeq(s, a, b)) /\ Len(SubSeq(s, a, b)) = b - a + 1
             /\ \A k \in 1..b - a + 1 : SubSeq(s, a, b)[k] = s[a + k - 1]
  BY <1>1
<1> QED BY <1>1

\* v: how many letters the first sentences have.
Sums(v, s) == /\ \A k \in 0..Len(s) : v[k] \in Nat
              /\ v[0] = 0 /\ \A k \in 1..Len(s) : v[k] = v[k - 1] + s[k]

LEMMA SumsOf ==
  ASSUME NEW s, Lengths(s)
  PROVE  \E v : Sums(v, s) /\ v[Len(s)] = FoldLeft(LAMBDA x, y : x + y, 0, s)
BY SumFold DEF Lengths, Sums

LEMMA LettersBetween ==
  ASSUME NEW s, Lengths(s), NEW v, Sums(v, s), NEW a \in Nat, NEW b \in Nat, 1 <= a, a - 1 <= b, b <= Len(s)
  PROVE  Letters(s, a, b) \in Nat /\ Letters(s, a, b) = v[b] - v[a - 1]
<1> DEFINE t == SubSeq(s, a, b)
           n == b - a + 1
<1>0. Len(s) \in Nat /\ a \in 1..Len(s) + 1 BY LengthsFacts
<1>1. Lengths(t) /\ n \in Nat /\ Len(t) = n /\ \A k \in 1..n : t[k] = s[a + k - 1] BY <1>0, LengthsFacts
<1>2. PICK u : Sums(u, t) /\ u[Len(t)] = Letters(s, a, b)
  BY <1>1, SumsOf DEF Letters
<1> DEFINE P == {k \in 0..n : u[k] = v[a - 1 + k] - v[a - 1]}
<1> HIDE DEF t
<1>3. 0 \in P
  <2>1. v[a - 1] \in Nat /\ u[0] = 0 /\ a - 1 + 0 = a - 1 BY <1>0, <1>2 DEF Sums
  <2> QED BY <2>1, <1>1
<1>4. ASSUME NEW k \in 0..n - 1, k \in P PROVE k + 1 \in P
  <2>1. k + 1 \in 1..n /\ (k + 1) - 1 = k /\ a - 1 + (k + 1) = a + k /\ a - 1 + k = a + k - 1
        /\ a + k \in 1..Len(s) /\ a + (k + 1) - 1 = a + k /\ a + k - 1 \in 0..Len(s) /\ a - 1 \in 0..Len(s)
    BY <1>0, <1>1
  <2>2. u[k + 1] = u[k] + t[k + 1] BY <1>1, <1>2, <2>1 DEF Sums
  <2>3. t[k + 1] = s[a + k] BY <1>1, <2>1
  <2>4. v[a + k] = v[a + k - 1] + s[a + k] BY <2>1 DEF Sums
  <2>5. u[k] = v[a + k - 1] - v[a - 1] BY <1>4, <2>1
  <2>6. v[a + k - 1] \in Nat /\ v[a - 1] \in Nat /\ s[a + k] \in Nat BY <2>1, LengthsFacts DEF Sums
  <2>7. u[k + 1] = v[a - 1 + (k + 1)] - v[a - 1] BY <2>1, <2>2, <2>3, <2>4, <2>5, <2>6
  <2> QED BY <2>1, <2>7
<1>5. 0..n \subseteq P
  <2> HIDE DEF P
  <2>1. n \in Nat BY <1>1
  <2> QED BY <2>1, <1>3, <1>4, BoundedInduction
<1>6. u[n] = v[b] - v[a - 1] /\ u[n] \in Nat
  <2>1. n \in 0..n /\ a - 1 + n = b BY <1>1
  <2> QED BY <2>1, <1>1, <1>5, <1>2 DEF Sums
<1> QED BY <1>1, <1>2, <1>6

\* What Letters is: nothing of nothing, and one sentence more at either end.
LEMMA LettersFacts ==
  ASSUME NEW s, Lengths(s), NEW a \in Nat, NEW b \in Nat, 1 <= a, a - 1 <= b, b <= Len(s)
  PROVE  /\ Letters(s, a, b) \in Nat
         /\ a > b => Letters(s, a, b) = 0
         /\ a <= b => /\ s[a] \in Nat /\ s[b] \in Nat
                      /\ Letters(s, a, b) = Letters(s, a, b - 1) + s[b]
                      /\ Letters(s, a, b) = s[a] + Letters(s, a + 1, b)
<1>0. Len(s) \in Nat BY LengthsFacts
<1>1. PICK v : Sums(v, s) BY SumsOf
<1>2. v[b] \in Nat /\ v[a - 1] \in Nat BY <1>0, <1>1 DEF Sums
<1>3. Letters(s, a, b) \in Nat /\ Letters(s, a, b) = v[b] - v[a - 1] BY <1>1, LettersBetween
<1>4. a > b => Letters(s, a, b) = 0
  <2>1. a > b => b = a - 1 OBVIOUS
  <2> QED BY <2>1, <1>2, <1>3
<1>5. ASSUME a <= b PROVE /\ s[a] \in Nat /\ s[b] \in Nat
                          /\ Letters(s, a, b) = Letters(s, a, b - 1) + s[b]
                          /\ Letters(s, a, b) = s[a] + Letters(s, a + 1, b)
  <2>1. b - 1 \in Nat /\ a - 1 <= b - 1 /\ b - 1 <= Len(s) /\ a + 1 \in Nat /\ (a + 1) - 1 = a /\ 1 <= a + 1 BY <1>0, <1>5
  <2>2. Letters(s, a, b - 1) = v[b - 1] - v[a - 1] BY <1>1, <2>1, LettersBetween
  <2>3. Letters(s, a + 1, b) = v[b] - v[a] BY <1>1, <1>5, <2>1, LettersBetween
  <2>4. a \in 1..Len(s) /\ b \in 1..Len(s) /\ a \in 0..Len(s) /\ b - 1 \in 0..Len(s) BY <1>0, <1>5
  <2>5. v[b] = v[b - 1] + s[b] /\ v[a] = v[a - 1] + s[a] BY <1>1, <2>4 DEF Sums
  <2>6. v[a] \in Nat /\ v[b - 1] \in Nat /\ s[a] \in Nat /\ s[b] \in Nat BY <1>1, <2>4, LengthsFacts DEF Sums
  <2>7. Letters(s, a, b) = Letters(s, a, b - 1) + s[b] BY <1>2, <1>3, <2>2, <2>5, <2>6
  <2>8. Letters(s, a, b) = s[a] + Letters(s, a + 1, b)
    <3>1. v[b] - v[a - 1] = s[a] + (v[b] - v[a])
      <4>1. v[a] = v[a - 1] + s[a] BY <2>5
      <4> QED BY <1>2, <2>6, <4>1
    <3> QED BY <1>3, <2>3, <3>1
  <2> QED BY <2>6, <2>7, <2>8
<1> QED BY <1>3, <1>4, <1>5

LEMMA MinOfSet ==
  ASSUME NEW T, T \subseteq Nat, T # {}
  PROVE  Min(T) \in T /\ \A i \in T : Min(T) <= i
BY LeastNat DEF Min

\* The overlap is what it is called.
LEMMA OverlapFits ==
  ASSUME NEW s, Lengths(s), NEW a \in Nat, NEW b \in Nat, 1 <= a, a <= b, b <= Len(s)
  PROVE  /\ OverlapFrom(s, a, b) \in a..b + 1
         /\ Letters(s, OverlapFrom(s, a, b), b) <= ChunkOverlap
         /\ Joined(s, OverlapFrom(s, a, b), b) \in Nat
         /\ Letters(s, OverlapFrom(s, a, b), b) <= Joined(s, OverlapFrom(s, a, b), b)
<1> DEFINE T == {j \in a..b + 1 : \A m \in j..b : Joined(s, m + 1, b) + s[m] <= ChunkOverlap}
           j == Min(T)
<1>0. Len(s) \in Nat BY LengthsFacts
<1>1. b + 1 \in T /\ T \subseteq Nat OBVIOUS
<1>2. j \in T BY <1>1, MinOfSet
<1>3. OverlapFrom(s, a, b) = j BY DEF OverlapFrom
<1> HIDE DEF j
<1>4. j \in a..b + 1 /\ \A m \in j..b : Joined(s, m + 1, b) + s[m] <= ChunkOverlap BY <1>2
<1>5. ASSUME NEW m \in a..b + 1 PROVE Joined(s, m, b) \in Nat /\ Letters(s, m, b) \in Nat /\ Letters(s, m, b) <= Joined(s, m, b)
  <2>1. m \in Nat /\ 1 <= m /\ m - 1 <= b OBVIOUS
  <2>2. Letters(s, m, b) \in Nat /\ (m > b => Letters(s, m, b) = 0) BY <2>1, LettersFacts
  <2> QED BY <2>1, <2>2 DEF Joined
<1>6. Letters(s, j, b) <= ChunkOverlap
  <2>1. j \in Nat /\ 1 <= j /\ j - 1 <= b BY <1>4
  <2>2. CASE j > b
    <3>1. Letters(s, j, b) = 0 BY <2>1, <2>2, LettersFacts
    <3> QED BY <3>1, ChunkerAssumption DEF ChunkerAssumption
  <2>3. CASE j <= b
    <3>1. j \in j..b /\ j + 1 \in a..b + 1 BY <2>3, <1>4
    <3>2. Joined(s, j + 1, b) + s[j] <= ChunkOverlap BY <1>4, <3>1
    <3>3. Letters(s, j, b) = s[j] + Letters(s, j + 1, b) /\ s[j] \in Nat BY <2>1, <2>3, LettersFacts
    <3>4. Joined(s, j + 1, b) \in Nat /\ Letters(s, j + 1, b) \in Nat /\ Letters(s, j + 1, b) <= Joined(s, j + 1, b) BY <3>1, <1>5
    <3>5. ChunkOverlap \in Nat BY ChunkerAssumption DEF ChunkerAssumption
    <3> QED BY <3>2, <3>3, <3>4, <3>5
  <2> QED BY <2>1, <2>2, <2>3
<1> QED BY <1>3, <1>4, <1>5, <1>6

\* What a chunk and the next are to each other, and how long one may be.
Linked(s, c, d) == /\ c[1] <= d[1] /\ d[1] <= c[2] + 1 /\ c[2] < d[2]
                   /\ Letters(s, d[1], c[2]) <= ChunkOverlap
Sized(s, c) == \/ Letters(s, c[1], c[2]) <= ChunkSize
               \/ Letters(s, c[1], c[2] - 1) <= ChunkOverlap

\* The chunks of the first n sentences.
Covers(s, n, cs) ==
  /\ Len(cs) \in Nat \ {0} /\ cs[1][1] = 1 /\ cs[Len(cs)][2] = n
  /\ \A k \in 1..Len(cs) : cs[k][1] \in Nat /\ cs[k][2] \in Nat /\ 1 <= cs[k][1] /\ cs[k][1] <= cs[k][2] /\ Sized(s, cs[k])
  /\ \A k \in 1..Len(cs) - 1 : Linked(s, cs[k], cs[k + 1])

Packings == [done : Seq(Nat \X Nat), from : Nat \ {0}, len : Nat]
Start == [done |-> <<>>, from |-> 1, len |-> 0]

\* After sentence n of the loop.
Packed(s, n, acc) ==
  /\ acc \in Packings
  /\ n = 0 => acc = Start
  /\ n > 0 => /\ acc.from <= n /\ Letters(s, acc.from, n) <= acc.len
              /\ Covers(s, n, Append(acc.done, <<acc.from, n>>))

LEMMA NextChunkType ==
  ASSUME NEW s, Lengths(s), NEW acc \in Packings, NEW i \in 1..Len(s)
  PROVE  NextChunk(s, acc, i) \in Packings
<1>0. Len(s) \in Nat /\ s[i] \in Nat BY LengthsFacts
<1>1. acc.done \in Seq(Nat \X Nat) /\ acc.from \in Nat /\ 1 <= acc.from /\ acc.len \in Nat BY DEF Packings
<1>2. CASE acc.len + s[i] > ChunkSize /\ acc.from < i
  <2> DEFINE j == OverlapFrom(s, acc.from, i - 1)
  <2>1. i - 1 \in Nat /\ acc.from <= i - 1 /\ i - 1 <= Len(s) BY <1>0, <1>1, <1>2
  <2>2. j \in acc.from..(i - 1) + 1 /\ Joined(s, j, i - 1) \in Nat BY <1>1, <2>1, OverlapFits
  <2>3. NextChunk(s, acc, i) = [done |-> Append(acc.done, <<acc.from, i - 1>>), from |-> j, len |-> Joined(s, j, i - 1) + s[i]]
    BY <1>2 DEF NextChunk
  <2> HIDE DEF j
  <2>4. Append(acc.done, <<acc.from, i - 1>>) \in Seq(Nat \X Nat) BY <1>1, <2>1
  <2>5. j \in Nat \ {0} /\ Joined(s, j, i - 1) + s[i] \in Nat BY <1>0, <1>1, <2>2
  <2> QED BY <2>3, <2>4, <2>5 DEF Packings
<1>3. CASE ~(acc.len + s[i] > ChunkSize /\ acc.from < i)
  <2>1. NextChunk(s, acc, i) = [acc EXCEPT !.len = @ + s[i]] BY <1>3 DEF NextChunk
  <2>2. acc.len + s[i] \in Nat BY <1>0, <1>1
  <2> QED BY <2>1, <2>2 DEF Packings
<1> QED BY <1>2, <1>3

\* One more chunk.
LEMMA CoversMore ==
  ASSUME NEW s, NEW d \in Seq(Nat \X Nat), NEW n, NEW a \in Nat, NEW b \in Nat, Covers(s, n, d),
         1 <= a, a <= b, Sized(s, <<a, b>>), Linked(s, d[Len(d)], <<a, b>>)
  PROVE  Covers(s, b, Append(d, <<a, b>>))
<1> DEFINE e == Append(d, <<a, b>>)
<1>1. Len(e) = Len(d) + 1 /\ Len(d) \in Nat /\ e[Len(d) + 1] = <<a, b>> /\ \A k \in 1..Len(d) : e[k] = d[k] OBVIOUS
<1> HIDE DEF e
<1>2. Len(d) > 0 /\ d[1][1] = 1 BY <1>1 DEF Covers
<1>3. Len(e) \in Nat \ {0} /\ e[1][1] = 1 /\ e[Len(e)][2] = b BY <1>1, <1>2
<1>4. ASSUME NEW k \in 1..Len(e) PROVE e[k][1] \in Nat /\ e[k][2] \in Nat /\ 1 <= e[k][1] /\ e[k][1] <= e[k][2] /\ Sized(s, e[k])
  <2>1. CASE k = Len(d) + 1 BY <1>1, <2>1
  <2>2. CASE k \in 1..Len(d) BY <1>1, <2>2 DEF Covers
  <2> QED BY <1>1, <2>1, <2>2
<1>5. ASSUME NEW k \in 1..Len(e) - 1 PROVE Linked(s, e[k], e[k + 1])
  <2>1. k \in 1..Len(d) BY <1>1
  <2>2. CASE k = Len(d) BY <1>1, <2>1, <2>2
  <2>3. CASE k # Len(d)
    <3>1. k \in 1..Len(d) - 1 /\ k + 1 \in 1..Len(d) BY <1>1, <2>1, <2>3
    <3> QED BY <1>1, <2>1, <3>1 DEF Covers
  <2> QED BY <2>2, <2>3
<1> QED BY <1>3, <1>4, <1>5 DEF Covers, e

\* The last chunk grows.
LEMMA CoversOn ==
  ASSUME NEW s, NEW d \in Seq(Nat \X Nat), NEW a \in Nat, NEW b \in Nat, Covers(s, b, Append(d, <<a, b>>)),
         Sized(s, <<a, b + 1>>)
  PROVE  Covers(s, b + 1, Append(d, <<a, b + 1>>))
<1> DEFINE e == Append(d, <<a, b>>)
           f == Append(d, <<a, b + 1>>)
<1>1. /\ Len(e) = Len(d) + 1 /\ Len(f) = Len(d) + 1 /\ Len(d) \in Nat
      /\ e[Len(d) + 1] = <<a, b>> /\ f[Len(d) + 1] = <<a, b + 1>>
      /\ \A k \in 1..Len(d) : e[k] = d[k] /\ f[k] = d[k] /\ e[k] = f[k] OBVIOUS
<1>0. Covers(s, b, e) OBVIOUS
<1> HIDE DEF e, f
<1>2. f[1][1] = 1
  <2>1. e[1][1] = 1 BY <1>0 DEF Covers
  <2>2. CASE Len(d) = 0 BY <1>1, <2>1, <2>2
  <2>3. CASE Len(d) # 0 BY <1>1, <2>1, <2>3
  <2> QED BY <2>2, <2>3
<1>3. Len(f) \in Nat \ {0} /\ f[Len(f)][2] = b + 1 BY <1>1
<1>4. ASSUME NEW k \in 1..Len(f) PROVE f[k][1] \in Nat /\ f[k][2] \in Nat /\ 1 <= f[k][1] /\ f[k][1] <= f[k][2] /\ Sized(s, f[k])
  <2>1. k \in 1..Len(e) BY <1>1
  <2>2. CASE k = Len(d) + 1
    <3>1. 1 <= a /\ a <= b BY <1>0, <1>1, <2>1, <2>2 DEF Covers
    <3>2. f[k] = <<a, b + 1>> BY <1>1, <2>2
    <3>3. f[k][1] = a /\ f[k][2] = b + 1 /\ Sized(s, f[k]) BY <3>2
    <3> QED BY <3>1, <3>3
  <2>3. CASE k \in 1..Len(d) BY <1>0, <1>1, <2>1, <2>3 DEF Covers
  <2> QED BY <1>1, <2>2, <2>3
<1>5. ASSUME NEW k \in 1..Len(f) - 1 PROVE Linked(s, f[k], f[k + 1])
  <2>1. k \in 1..Len(d) /\ k \in 1..Len(e) - 1 BY <1>1
  <2>2. Linked(s, e[k], e[k + 1]) BY <1>0, <2>1 DEF Covers
  <2>3. CASE k = Len(d)
    <3>1. e[k + 1] = <<a, b>> /\ f[k + 1] = <<a, b + 1>> /\ e[k] = f[k] BY <1>1, <2>1, <2>3
    <3>2. e[k][1] \in Nat /\ e[k][2] \in Nat BY <1>0, <2>1, <1>1 DEF Covers
    <3> QED BY <2>2, <3>1, <3>2 DEF Linked
  <2>4. CASE k # Len(d)
    <3>1. k + 1 \in 1..Len(d) BY <1>1, <2>1, <2>4
    <3> QED BY <1>1, <2>1, <2>2, <3>1
  <2> QED BY <2>3, <2>4
<1> QED BY <1>2, <1>3, <1>4, <1>5 DEF Covers, f

LEMMA PackedMore ==
  ASSUME NEW s, Lengths(s), NEW n \in Nat, n + 1 <= Len(s), NEW acc, Packed(s, n, acc)
  PROVE  Packed(s, n + 1, NextChunk(s, acc, n + 1))
<1> DEFINE i == n + 1
           new == NextChunk(s, acc, i)
<1>0. Len(s) \in Nat /\ i \in 1..Len(s) /\ i \in Nat /\ i > 0 /\ i # 0 /\ i - 1 = n /\ s[i] \in Nat BY LengthsFacts
<1>1. /\ acc \in Packings
      /\ acc.done \in Seq(Nat \X Nat) /\ acc.from \in Nat /\ 1 <= acc.from /\ acc.len \in Nat BY DEF Packed, Packings
<1>2. new \in Packings BY <1>0, <1>1, NextChunkType
<1>c. ChunkSize \in Nat /\ ChunkOverlap \in Nat BY ChunkerAssumption DEF ChunkerAssumption
<1>3. CASE acc.len + s[i] > ChunkSize /\ acc.from < i
  <2> DEFINE j == OverlapFrom(s, acc.from, n)
  <2>1. n # 0 BY <1>1, <1>3
  <2>2. acc.from <= n /\ Covers(s, n, Append(acc.done, <<acc.from, n>>)) BY <2>1 DEF Packed
  <2>3. /\ j \in acc.from..n + 1 /\ Letters(s, j, n) <= ChunkOverlap
        /\ Joined(s, j, n) \in Nat /\ Letters(s, j, n) <= Joined(s, j, n) BY <1>1, <2>2, OverlapFits
  <2>4. new = [done |-> Append(acc.done, <<acc.from, n>>), from |-> j, len |-> Joined(s, j, n) + s[i]]
    BY <1>0, <1>3 DEF NextChunk
  <2> HIDE DEF j, new
  <2>5. j \in Nat /\ 1 <= j /\ j <= i /\ j - 1 <= n BY <1>1, <2>3
  <2>6. Letters(s, j, i) = Letters(s, j, n) + s[i] /\ Letters(s, j, n) \in Nat
    <3>1. j - 1 <= i /\ i <= Len(s) /\ n <= Len(s) BY <1>0, <2>5
    <3>2. Letters(s, j, i) = Letters(s, j, i - 1) + s[i] BY <1>0, <2>5, <3>1, LettersFacts
    <3>3. Letters(s, j, n) \in Nat BY <2>5, <3>1, LettersFacts
    <3> QED BY <1>0, <3>2, <3>3
  <2>7. Letters(s, j, i) <= new.len BY <1>0, <2>3, <2>4, <2>6
  <2>8. Sized(s, <<j, i>>) BY <1>0, <2>3 DEF Sized
  <2>9. Linked(s, <<acc.from, n>>, <<j, i>>) BY <1>0, <1>1, <2>3 DEF Linked
  <2> DEFINE d == Append(acc.done, <<acc.from, n>>)
  <2>10. d \in Seq(Nat \X Nat) /\ d[Len(d)] = <<acc.from, n>> BY <1>1
  <2>11. Covers(s, i, Append(d, <<j, i>>))
    <3> HIDE DEF d
    <3> QED BY <1>0, <2>2, <2>5, <2>8, <2>9, <2>10, CoversMore DEF d
  <2>12. new.from = j /\ new.done = d BY <2>4
  <2> QED BY <1>0, <1>2, <2>5, <2>7, <2>11, <2>12 DEF Packed, new
<1>4. CASE ~(acc.len + s[i] > ChunkSize /\ acc.from < i)
  <2>1. new = [acc EXCEPT !.len = @ + s[i]] BY <1>4 DEF NextChunk
  <2>2. new.from = acc.from /\ new.done = acc.done /\ new.len = acc.len + s[i] BY <2>1, <1>1 DEF Packings
  <2> HIDE DEF new
  <2>3. CASE n = 0
    <3>1. acc.from = 1 /\ acc.done = <<>> /\ acc.len = 0 BY <2>3 DEF Packed, Start
    <3>2. i = 1 BY <2>3
    <3>3. Letters(s, 1, 1) = Letters(s, 1, 0) + s[1] /\ Letters(s, 1, 0) = 0 /\ s[1] \in Nat
      <4>1. 1 <= Len(s) BY <1>0, <3>2
      <4> QED BY <4>1, <1>0, LettersFacts
    <3>4. Letters(s, 1, 1) <= new.len BY <2>2, <3>1, <3>2, <3>3
    <3>5. Sized(s, <<1, 1>>) BY <1>c, <3>3 DEF Sized
    <3>6. Append(acc.done, <<1, 1>>) = <<<<1, 1>>>> BY <3>1
    <3>7. Covers(s, 1, <<<<1, 1>>>>) BY <3>5 DEF Covers
    <3>8. new.from = 1 /\ new.done = acc.done /\ new \in Packings BY <1>2, <2>2, <3>1 DEF new
    <3>9. Packed(s, 1, new)
      <4>1. 1 # 0 /\ 1 > 0 /\ 1 <= 1 OBVIOUS
      <4> HIDE DEF new
      <4> QED BY <3>4, <3>6, <3>7, <3>8, <4>1 DEF Packed
    <3> QED BY <3>2, <3>9 DEF new
  <2>4. CASE n # 0
    <3>1. acc.from <= n /\ Letters(s, acc.from, n) <= acc.len /\ Covers(s, n, Append(acc.done, <<acc.from, n>>))
      BY <2>4 DEF Packed
    <3>2. Letters(s, acc.from, i) = Letters(s, acc.from, n) + s[i] /\ Letters(s, acc.from, n) \in Nat
      <4> DEFINE a == acc.from
      <4>1. a \in Nat /\ 1 <= a /\ a <= i /\ a - 1 <= i /\ a - 1 <= n /\ i <= Len(s) /\ n <= Len(s) BY <1>0, <1>1, <3>1
      <4> HIDE DEF a
      <4>2. Letters(s, a, i) = Letters(s, a, i - 1) + s[i] BY <1>0, <4>1, LettersFacts
      <4>3. Letters(s, a, n) \in Nat BY <4>1, LettersFacts
      <4> QED BY <1>0, <4>2, <4>3 DEF a
    <3>3. Letters(s, acc.from, i) <= new.len BY <1>0, <1>1, <2>2, <3>1, <3>2
    <3>4. acc.len + s[i] <= ChunkSize BY <1>0, <1>1, <1>4, <1>c, <3>1
    <3>5. Sized(s, <<acc.from, n + 1>>) BY <1>0, <1>1, <1>c, <2>2, <3>2, <3>3, <3>4 DEF Sized
    <3>6. Covers(s, n + 1, Append(acc.done, <<acc.from, n + 1>>)) BY <1>1, <3>1, <3>5, CoversOn
    <3> QED BY <1>0, <1>1, <1>2, <2>2, <3>1, <3>3, <3>6 DEF Packed, new
  <2> QED BY <2>3, <2>4
<1> QED BY <1>3, <1>4

LEMMA ChunksFold ==
  ASSUME NEW s, Lengths(s)
  PROVE  \E v : /\ v[0] = Start /\ \A k \in 1..Len(s) : v[k] = NextChunk(s, v[k - 1], k)
                /\ v[Len(s)] = FoldLeftDomain(LAMBDA acc, i : NextChunk(s, acc, i), Start, s)
<1> DEFINE n == Len(s)
           It(f) == [t \in SUBSET (1..n) |-> IF t = {} THEN Start ELSE NextChunk(s, f[t \ {Max(t)}], Max(t))]
           step == [k \in 1..n |-> [acc \in Packings |-> NextChunk(s, acc, k)]]
<1>1. n \in Nat /\ DOMAIN s = 1..n BY DEF Lengths
<1>2. FoldLeftDomain(LAMBDA acc, i : NextChunk(s, acc, i), Start, s) = (CHOOSE f : f = It(f))[1..n]
  <2> DEFINE q == [i \in DOMAIN s |-> i]
             Jt(f) == [t \in SUBSET DOMAIN q |-> IF t = {} THEN Start ELSE NextChunk(s, f[t \ {Max(t)}], q[Max(t)])]
  <2>1. FoldLeftDomain(LAMBDA acc, i : NextChunk(s, acc, i), Start, s) = (CHOOSE f : f = Jt(f))[DOMAIN q]
    BY DEF FoldLeftDomain, FoldLeft, MapThenFoldSet
  <2>2. DOMAIN q = 1..n /\ \A k \in 1..n : q[k] = k BY <1>1
  <2>3. \A t \in SUBSET (1..n) : t # {} => Max(t) \in 1..n BY <1>1, MaxOfSet
  <2>4. ASSUME NEW f PROVE Jt(f) = It(f) BY <2>2, <2>3
  <2>5. (CHOOSE f : f = Jt(f)) = (CHOOSE f : f = It(f))
    <3> HIDE DEF It, Jt
    <3> QED BY <2>4
  <2> QED BY <2>1, <2>2, <2>5
<1>3. Steps(step, n, Packings, Start)
  <2>1. \A k \in 1..n : \A acc \in Packings : NextChunk(s, acc, k) \in Packings BY NextChunkType
  <2>2. Start \in Packings BY DEF Start, Packings
  <2> QED BY <2>1, <2>2 DEF Steps
<1> HIDE DEF n
<1>4. \E f : f = It(f)
  <2>1. PICK f : FoldsLeft(f, n, Packings, Start, step)
    <3> HIDE DEF step
    <3> QED BY <1>1, <1>3, LeftFoldExists
  <2>2. \A t \in SUBSET (1..n) : t # {} => Max(t) \in 1..n BY <1>1, MaxOfSet
  <2>3. f = It(f) BY <2>1, <2>2 DEF FoldsLeft
  <2> QED BY <2>3
<1> DEFINE g == CHOOSE f : f = It(f)
<1>5. g = It(g) BY <1>4
<1>6. g[{}] = Start BY <1>5
<1> HIDE DEF g
<1>7. ASSUME NEW k \in 1..n PROVE g[1..k] = NextChunk(s, g[1..k - 1], k)
  <2>1. 1..k \in SUBSET (1..n) /\ 1..k # {} /\ Max(1..k) = k /\ (1..k) \ {k} = 1..k - 1 BY <1>1, MaxOfPrefix
  <2> QED BY <2>1, <1>5
<1>8. Iterates(g, n, Packings, Start, step) BY <1>3, <1>6, <1>7 DEF Iterates
<1>9. PICK v : Traces(v, n, Packings, Start, step, g[1..n])
  <2> HIDE DEF step
  <2> QED BY <1>1, <1>8, LeftFoldValues
<1>10. ASSUME NEW k \in 1..n PROVE v[k] = NextChunk(s, v[k - 1], k)
  <2>1. v[k] = step[k][v[k - 1]] /\ k - 1 \in 0..n BY <1>1, <1>9 DEF Traces
  <2>2. v[k - 1] \in Packings BY <1>9, <2>1 DEF Traces
  <2> QED BY <2>1, <2>2
<1>11. v[0] = Start /\ v[n] = g[1..n] BY <1>9 DEF Traces
<1> QED BY <1>2, <1>10, <1>11 DEF g, n

LEMMA ChunksCover ==
  ASSUME NEW s, Lengths(s), s # <<>>
  PROVE  Covers(s, Len(s), Chunks(s))
<1>1. PICK v : /\ v[0] = Start /\ \A k \in 1..Len(s) : v[k] = NextChunk(s, v[k - 1], k)
               /\ v[Len(s)] = FoldLeftDomain(LAMBDA acc, i : NextChunk(s, acc, i), Start, s)
  BY ChunksFold
<1> DEFINE P == {k \in 0..Len(s) : Packed(s, k, v[k])}
<1>2. Len(s) \in Nat /\ Len(s) # 0 BY DEF Lengths
<1>3. 0 \in P
  <2>1. Start \in Packings BY DEF Start, Packings
  <2>2. Packed(s, 0, v[0])
    <3>1. v[0] = Start BY <1>1
    <3>2. ~(0 > 0) OBVIOUS
    <3> QED BY <2>1, <3>1, <3>2 DEF Packed
  <2> QED BY <1>2, <2>2
<1>4. ASSUME NEW k \in 0..Len(s) - 1, k \in P PROVE k + 1 \in P
  <2>1. k + 1 \in 1..Len(s) /\ (k + 1) - 1 = k /\ k \in Nat /\ k + 1 <= Len(s) BY <1>2
  <2>2. v[k + 1] = NextChunk(s, v[k], k + 1) BY <1>1, <2>1
  <2>3. Packed(s, k + 1, v[k + 1]) BY <1>4, <2>1, <2>2, PackedMore
  <2> QED BY <2>1, <2>3
<1>5. 0..Len(s) \subseteq P
  <2> HIDE DEF P
  <2> QED BY <1>2, <1>3, <1>4, BoundedInduction
<1>6. Packed(s, Len(s), v[Len(s)]) BY <1>2, <1>5
<1>7. Chunks(s) = Append(v[Len(s)].done, <<v[Len(s)].from, Len(s)>>) BY <1>1 DEF Chunks, Start
<1> QED BY <1>2, <1>6, <1>7 DEF Packed

\* chunk: of every document.
THEOREM ChunksAlwaysCover == ChunkerSpec => []ChunksCoverText
<1>1. ChunkerInit => Lengths(sentences) BY DEF ChunkerInit, Lengths
<1>2. Lengths(sentences) /\ [ChunkerNext]_sentences => Lengths(sentences)'
  BY ChunkerAssumption DEF ChunkerAssumption, Lengths, ChunkerNext, AddSentence
<1>3. ASSUME Lengths(sentences) PROVE ChunksCoverText
  <2> DEFINE cs == Chunks(sentences)
  <2> SUFFICES ASSUME sentences # <<>>
               PROVE  /\ cs[1][1] = 1 /\ Last(cs)[2] = Len(sentences)
                      /\ \A k \in 1..Len(cs) : cs[k][1] <= cs[k][2]
                      /\ \A k \in 1..Len(cs) - 1 : Linked(sentences, cs[k], cs[k + 1])
                      /\ \A k \in 1..Len(cs) : Sized(sentences, cs[k])
    BY DEF ChunksCoverText, Linked, Sized
  <2>1. Covers(sentences, Len(sentences), cs) BY <1>3, ChunksCover
  <2> HIDE DEF cs
  <2> QED BY <2>1 DEF Covers, Last
<1> QED BY <1>1, <1>2, <1>3, PTL DEF ChunkerSpec

------------------------------------------------------------------------------
(***************************************************************************)
(* security/pii.py: any text, with any matches and tokens.                 *)
(***************************************************************************)

\* A text as in SilverAssumption.
Text(text) ==
  /\ text.length \in Nat /\ text.matches \in Seq([start : Nat, end : Nat, token : Nat])
  /\ \A i \in DOMAIN text.matches :
       LET m == text.matches[i]
       IN m.start \in 0..text.length - 1 /\ m.end \in m.start + 1..text.length /\ m.token \in Nat \ {0}

MatchesOf(text) == 1..Len(text.matches)

LEMMA TextFacts ==
  ASSUME NEW text, Text(text)
  PROVE  /\ text.length \in Nat /\ Len(text.matches) \in Nat /\ DOMAIN text.matches = MatchesOf(text)
         /\ IsFiniteSet(MatchesOf(text)) /\ MatchesOf(text) \subseteq Nat
         /\ \A i \in MatchesOf(text) :
              /\ text.matches[i].start \in Nat /\ text.matches[i].end \in Nat /\ text.matches[i].token \in Nat
              /\ text.matches[i].start < text.matches[i].end /\ text.matches[i].end <= text.length
<1>1. text.length \in Nat /\ text.matches \in Seq([start : Nat, end : Nat, token : Nat]) BY DEF Text
<1>2. Len(text.matches) \in Nat /\ DOMAIN text.matches = MatchesOf(text) BY <1>1 DEF MatchesOf
<1>3. IsFiniteSet(MatchesOf(text)) /\ MatchesOf(text) \subseteq Nat
  <2>1. Len(text.matches) \in Int /\ 1 \in Int BY <1>2
  <2>2. IsFiniteSet(1..Len(text.matches)) BY <2>1, FS_Interval
  <2> QED BY <2>2 DEF MatchesOf
<1>4. ASSUME NEW i \in MatchesOf(text)
      PROVE  /\ text.matches[i].start \in Nat /\ text.matches[i].end \in Nat /\ text.matches[i].token \in Nat
             /\ text.matches[i].start < text.matches[i].end /\ text.matches[i].end <= text.length
  <2> DEFINE m == text.matches[i]
  <2>1. i \in DOMAIN text.matches BY <1>2
  <2>2. m.start \in 0..text.length - 1 /\ m.end \in m.start + 1..text.length /\ m.token \in Nat \ {0}
    BY <2>1, Zenon DEF Text
  <2> HIDE DEF m
  <2>3. m.start \in Nat /\ m.end \in Nat /\ m.token \in Nat /\ m.start < m.end /\ m.end <= text.length
    BY <1>1, <2>2
  <2> QED BY <2>3 DEF m
<1> QED BY <1>1, <1>2, <1>3, <1>4

\* The match whose turn is the last of some.
LEMMA LastTurnFacts ==
  ASSUME NEW text, Text(text), NEW s \in SUBSET MatchesOf(text), s # {}
  PROVE  /\ LastTurn(text.matches, s) \in s
         /\ \A j \in s : text.matches[LastTurn(text.matches, s)].start <= text.matches[j].start
<1> DEFINE m == text.matches
           starts == {m[i].start : i \in s}
<1>1. Len(m) \in Nat /\ s \subseteq Nat /\ \A i \in s : m[i].start \in Nat BY TextFacts
<1>2. PICK a \in starts : \A b \in starts : a <= b
  <2>1. starts \subseteq Nat /\ starts # {} BY <1>1
  <2> QED BY <2>1, LeastNat
<1> DEFINE u == {i \in s : m[i].start = a}
<1>3. u # {} /\ u \in SUBSET (1..Len(m)) BY DEF MatchesOf
<1>4. Max(u) \in u /\ \A i \in u : i <= Max(u) BY <1>1, <1>3, MaxOfSet
<1> DEFINE Turn(i) == \A j \in s : m[j].start > m[i].start \/ (m[j].start = m[i].start /\ j <= i)
<1>5. Turn(Max(u))
  <2>1. ASSUME NEW j \in s PROVE m[j].start > m[Max(u)].start \/ (m[j].start = m[Max(u)].start /\ j <= Max(u))
    <3>1. m[Max(u)].start = a /\ a <= m[j].start /\ a \in Nat /\ m[j].start \in Nat BY <1>1, <1>2, <1>4
    <3>2. m[j].start = a => j <= Max(u) BY <1>4
    <3> QED BY <3>1, <3>2
  <2> QED BY <2>1
<1>6. LastTurn(m, s) = CHOOSE i \in s : Turn(i) BY DEF LastTurn
<1>7. LastTurn(m, s) \in s /\ Turn(LastTurn(m, s))
  <2> HIDE DEF Turn
  <2> QED BY <1>4, <1>5, <1>6
<1>8. ASSUME NEW j \in s PROVE m[LastTurn(m, s)].start <= m[j].start
  <2>1. m[LastTurn(m, s)].start \in Nat /\ m[j].start \in Nat BY <1>1, <1>7
  <2>2. m[j].start > m[LastTurn(m, s)].start \/ m[j].start = m[LastTurn(m, s)].start BY <1>7
  <2> QED BY <2>1, <2>2
<1> QED BY <1>7, <1>8

LEMMA ConcatFacts ==
  ASSUME NEW A \in Seq(Int), NEW B \in Seq(Int)
  PROVE  /\ A \o B \in Seq(Int) /\ Len(A \o B) = Len(A) + Len(B)
         /\ \A k \in 1..Len(A) : (A \o B)[k] = A[k]
         /\ \A k \in 1..Len(B) : (A \o B)[Len(A) + k] = B[k]
<1>1. A \o B \in Seq(Int) /\ Len(A \o B) = Len(A) + Len(B) OBVIOUS
<1>2. \A k \in 1..Len(A) : (A \o B)[k] = A[k] OBVIOUS
<1>3. ASSUME NEW k \in 1..Len(B) PROVE (A \o B)[Len(A) + k] = B[k]
  <2>1. Len(A) + k \in 1..Len(A) + Len(B) /\ ~(Len(A) + k <= Len(A)) /\ Len(A) + k - Len(A) = k OBVIOUS
  <2> QED BY <2>1, ConcatProperties
<1> QED BY <1>1, <1>2, <1>3

\* What comes after the match in the text before.
Rest(r, m) == IF m.end < Len(r) THEN Len(r) - m.end ELSE 0

\* The match m starts in the text r.
StartsIn(r, m) ==
  /\ r \in Seq(Int)
  /\ m.start \in Nat /\ m.end \in Nat /\ m.token \in Nat /\ m.start < m.end /\ m.start <= Len(r)

LEMMA RestIs ==
  ASSUME NEW r \in Seq(Int), NEW b \in Nat, b < Len(r)
  PROVE  LET C == SubSeq(r, b + 1, Len(r))
         IN  C \in Seq(Int) /\ Len(C) = Len(r) - b /\ \A k \in 1..Len(r) - b : C[k] = r[b + k]
<1>1. Len(r) \in Nat OBVIOUS
<1>2. SubSeq(r, b + 1, Len(r)) \in Seq(Int) /\ Len(SubSeq(r, b + 1, Len(r))) = Len(r) - b BY <1>1
<1>3. ASSUME NEW k \in 1..Len(r) - b PROVE SubSeq(r, b + 1, Len(r))[k] = r[b + k]
  <2>1. (b + 1) + k - 1 = b + k BY <1>1
  <2>2. SubSeq(r, b + 1, Len(r))[k] = r[(b + 1) + k - 1] BY <1>1
  <2> QED BY <2>1, <2>2
<1> QED BY <1>2, <1>3

LEMMA ReplaceFacts ==
  ASSUME NEW r, NEW m, StartsIn(r, m)
  PROVE  /\ Replace(r, m) \in Seq(Int) /\ Rest(r, m) \in Nat /\ Len(Replace(r, m)) = m.start + m.token + Rest(r, m)
         /\ \A k \in 1..m.start : Replace(r, m)[k] = r[k]
         /\ \A k \in m.start + 1..m.start + m.token : Replace(r, m)[k] = Token
         /\ \A k \in 1..Rest(r, m) : Replace(r, m)[m.start + m.token + k] = r[m.end + k]
<1> DEFINE a == m.start
           b == m.end
           c == m.token
           A == SubSeq(r, 1, a)
           B == [i \in 1..c |-> Token]
           C == SubSeq(r, b + 1, Len(r))
           n == Rest(r, m)
<1>0. a \in Nat /\ b \in Nat /\ c \in Nat /\ r \in Seq(Int) /\ Len(r) \in Nat /\ n \in Nat /\ a <= Len(r) /\ a < b
  BY DEF Rest, StartsIn
<1>1. A \in Seq(Int) /\ Len(A) = a /\ \A k \in 1..a : A[k] = r[k] BY <1>0
<1>2. B \in Seq(Int) /\ Len(B) = c /\ \A k \in 1..c : B[k] = Token
  <2>1. B \in [1..c -> Int] BY DEF Token
  <2> QED BY <2>1, <1>0
<1>3. C \in Seq(Int) /\ Len(C) = n /\ \A k \in 1..n : C[k] = r[b + k]
  <2>1. CASE b < Len(r)
    <3>1. n = Len(r) - b BY <2>1 DEF Rest
    <3>2. r \in Seq(Int) /\ b \in Nat BY <1>0
    <3>3. C \in Seq(Int) /\ Len(C) = Len(r) - b /\ \A k \in 1..Len(r) - b : C[k] = r[b + k]
      <4> HIDE DEF b
      <4> QED BY <2>1, <3>2, RestIs
    <3> HIDE DEF C
    <3> QED BY <3>1, <3>3
  <2>2. CASE ~(b < Len(r))
    <3>1. n = 0 BY <2>2 DEF Rest
    <3>2. C \in Seq(Int) /\ Len(C) = 0 BY <1>0, <2>2
    <3> QED BY <3>1, <3>2
  <2> QED BY <2>1, <2>2
<1>4. Replace(r, m) = A \o B \o C BY DEF Replace
<1> HIDE DEF A, B, C, n
<1> DEFINE AB == A \o B
           R == AB \o C
<1>5. /\ AB \in Seq(Int) /\ Len(AB) = a + c
      /\ \A k \in 1..a : AB[k] = A[k]
      /\ \A k \in 1..c : AB[a + k] = B[k]
  <2>1. A \in Seq(Int) /\ B \in Seq(Int) BY <1>1, <1>2
  <2>2. /\ A \o B \in Seq(Int) /\ Len(A \o B) = Len(A) + Len(B)
        /\ \A k \in 1..Len(A) : (A \o B)[k] = A[k]
        /\ \A k \in 1..Len(B) : (A \o B)[Len(A) + k] = B[k] BY <2>1, ConcatFacts
  <2>3. Len(A) = a /\ Len(B) = c BY <1>1, <1>2
  <2> QED BY <2>2, <2>3
<1>6. Replace(r, m) = R BY <1>4
<1> HIDE DEF AB
<1>7. /\ R \in Seq(Int) /\ Len(R) = (a + c) + n
      /\ \A k \in 1..a + c : R[k] = AB[k]
      /\ \A k \in 1..n : R[(a + c) + k] = C[k]
  <2>1. AB \in Seq(Int) /\ C \in Seq(Int) BY <1>3, <1>5
  <2>2. /\ AB \o C \in Seq(Int) /\ Len(AB \o C) = Len(AB) + Len(C)
        /\ \A k \in 1..Len(AB) : (AB \o C)[k] = AB[k]
        /\ \A k \in 1..Len(C) : (AB \o C)[Len(AB) + k] = C[k] BY <2>1, ConcatFacts
  <2>3. Len(AB) = a + c /\ Len(C) = n BY <1>3, <1>5
  <2> QED BY <2>2, <2>3
<1> HIDE DEF R
<1>8. \A k \in 1..a : R[k] = r[k]
  <2>1. ASSUME NEW k \in 1..a PROVE R[k] = r[k]
    <3>1. k \in 1..a + c BY <1>0
    <3>2. R[k] = AB[k] BY <1>7, <3>1, Zenon
    <3>3. AB[k] = A[k] BY <1>5, Zenon
    <3> QED BY <1>1, <3>2, <3>3
  <2> QED BY <2>1
<1>9. ASSUME NEW k \in a + 1..a + c PROVE R[k] = Token
  <2>1. k \in 1..a + c /\ k - a \in 1..c /\ a + (k - a) = k BY <1>0
  <2> QED BY <2>1, <1>2, <1>5, <1>7
<1>10. \A k \in 1..n : R[a + c + k] = r[b + k] BY <1>3, <1>7
<1> QED BY <1>0, <1>6, <1>7, <1>8, <1>9, <1>10 DEF n

Shrinks(m) == m.token <= m.end - m.start

\* r is text with the matches of s replaced, the last starts first.
\* MaskStart: up to the first start nothing has changed, and nothing from before it comes
\* after it.
MaskStart(text, s, r) ==
  \A q \in 0..text.length : (\A j \in s : q <= text.matches[j].start) =>
    q <= Len(r) /\ (\A k \in 1..q : r[k] = k - 1) /\ \A k \in q + 1..Len(r) : r[k] = Token \/ r[k] >= q

\* MaskShift: a character comes later than it was only after a match that grew.
MaskShift(text, s, r) ==
  \A k \in 1..Len(r) :
    r[k] # Token /\ (\A j \in s : text.matches[j].start <= r[k] => Shrinks(text.matches[j])) => k <= r[k] + 1

MaskGone(text, s, r) ==
  \A i \in s :
    (\A j \in s : j # i /\ Inside(text.matches[i], text.matches[j].start) => Shrinks(text.matches[j])) =>
      \A k \in 1..Len(r) : ~Inside(text.matches[i], r[k])

MaskKept(text, s, r) ==
  (\A i, j \in s : i # j => text.matches[i].end <= text.matches[j].start \/ text.matches[j].end <= text.matches[i].start) =>
    \A p \in 0..text.length - 1 : (\E j \in s : Inside(text.matches[j], p)) \/ \E k \in 1..Len(r) : r[k] = p

Masking(text, s, r) ==
  r \in Seq(Int) /\ MaskStart(text, s, r) /\ MaskShift(text, s, r) /\ MaskGone(text, s, r) /\ MaskKept(text, s, r)

LEMMA MaskingNone ==
  ASSUME NEW text, Text(text)
  PROVE  Masking(text, {}, RawText(text))
<1> DEFINE r == RawText(text)
           n == text.length
<1>1. n \in Nat BY TextFacts
<1>2. r \in Seq(Int) /\ Len(r) = n /\ \A k \in 1..n : r[k] = k - 1
  <2>1. r = [i \in 1..n |-> i - 1] BY DEF RawText
  <2>2. r \in [1..n -> Int] BY <2>1
  <2> HIDE DEF n
  <2> QED BY <1>1, <2>1, <2>2
<1> HIDE DEF r, n
<1>3. MaskStart(text, {}, r) BY <1>1, <1>2 DEF MaskStart, n
<1>4. MaskShift(text, {}, r) BY <1>1, <1>2 DEF MaskShift
<1>5. MaskGone(text, {}, r) BY DEF MaskGone
<1>6. MaskKept(text, {}, r)
  <2>1. ASSUME NEW p \in 0..n - 1 PROVE \E k \in 1..Len(r) : r[k] = p
    <3>1. p + 1 \in 1..Len(r) /\ r[p + 1] = p BY <1>1, <1>2
    <3> QED BY <3>1
  <2> QED BY <2>1 DEF MaskKept, n
<1> QED BY <1>2, <1>3, <1>4, <1>5, <1>6 DEF Masking, r

\* Where the elements of the new text come from.
LEMMA ReplaceFrom ==
  ASSUME NEW r, NEW m, StartsIn(r, m), NEW k \in 1..Len(Replace(r, m))
  PROVE  \/ k <= m.start /\ Replace(r, m)[k] = r[k]
         \/ m.start < k /\ Replace(r, m)[k] = Token
         \/ \E h \in 1..Len(r) : m.end < h /\ k = h - m.end + m.start + m.token /\ Replace(r, m)[k] = r[h]
<1>0. /\ Rest(r, m) \in Nat /\ Len(Replace(r, m)) = m.start + m.token + Rest(r, m)
      /\ \A i \in 1..m.start : Replace(r, m)[i] = r[i]
      /\ \A i \in m.start + 1..m.start + m.token : Replace(r, m)[i] = Token
      /\ \A i \in 1..Rest(r, m) : Replace(r, m)[m.start + m.token + i] = r[m.end + i]
  BY ReplaceFacts
<1> DEFINE a == m.start
           b == m.end
           c == m.token
           n == Rest(r, m)
           R == Replace(r, m)
<1>1. /\ Len(R) = a + c + n /\ n \in Nat
      /\ \A i \in 1..a : R[i] = r[i]
      /\ \A i \in a + 1..a + c : R[i] = Token
      /\ \A i \in 1..n : R[a + c + i] = r[b + i]
  BY <1>0
<1>2. a \in Nat /\ b \in Nat /\ c \in Nat /\ Len(r) \in Nat /\ (n > 0 => n = Len(r) - b) BY DEF Rest, StartsIn
<1>6. k \in 1..Len(R) OBVIOUS
<1> HIDE DEF a, b, c, n, R
<1>3. CASE k <= a BY <1>1, <1>2, <1>3, <1>6 DEF R, a
<1>4. CASE a < k /\ k <= a + c
  <2>1. k \in a + 1..a + c BY <1>1, <1>2, <1>4, <1>6
  <2> QED BY <1>1, <1>4, <2>1 DEF R, a
<1>5. CASE a + c < k
  <2> DEFINE i == k - (a + c)
             h == b + i
  <2>2. i \in 1..n /\ a + c + i = k BY <1>1, <1>2, <1>5, <1>6
  <2>3. R[k] = r[h] BY <1>1, <2>2
  <2>4. n = Len(r) - b BY <1>1, <1>2, <2>2
  <2>5. h \in 1..Len(r) /\ b < h /\ k = h - b + a + c BY <1>1, <1>2, <2>2, <2>4
  <2> HIDE DEF h
  <2> QED BY <2>3, <2>5 DEF R, a, b, c
<1>7. k \in Nat BY <1>1, <1>2, <1>6
<1> QED BY <1>2, <1>3, <1>4, <1>5, <1>7

\* r is text without the matches of s but i, whose turn it is.
Turn(text, s, i, r) ==
  /\ Text(text) /\ s \in SUBSET MatchesOf(text) /\ i \in s
  /\ \A j \in s : text.matches[i].start <= text.matches[j].start
  /\ Masking(text, s \ {i}, r)

\* What of R is from r when the characters from a to b have become c tokens.
Pieces(r, R, a, b, c) ==
  /\ a \in Nat /\ b \in Nat /\ c \in Nat /\ a < b /\ a <= Len(r)
  /\ r \in Seq(Int) /\ R \in Seq(Int) /\ a <= Len(R)
  /\ \A k \in 1..a : R[k] = r[k]
  /\ \A h \in b + 1..Len(r) : \E k \in 1..Len(R) : R[k] = r[h]
  /\ \A k \in 1..Len(R) : \/ k <= a /\ R[k] = r[k]
                          \/ a < k /\ R[k] = Token
                          \/ \E h \in 1..Len(r) : b < h /\ k = h - b + a + c /\ R[k] = r[h]

\* The text up to the match has not changed, and what was before it is before it.
LEMMA TurnFacts ==
  ASSUME NEW text, NEW s, NEW i, NEW r, Turn(text, s, i, r)
  PROVE  LET m == text.matches[i]
         IN  /\ Pieces(r, Replace(r, m), m.start, m.end, m.token)
             /\ \A k \in 1..m.start : r[k] = k - 1
             /\ \A k \in m.start + 1..Len(r) : r[k] = Token \/ r[k] >= m.start
<1> DEFINE m == text.matches[i]
<1>1. /\ m.start \in Nat /\ m.end \in Nat /\ m.token \in Nat /\ m.start < m.end /\ m.end <= text.length /\ text.length \in Nat
      /\ r \in Seq(Int)
  BY TextFacts DEF Turn, Masking
<1>2. m.start \in 0..text.length /\ \A j \in s \ {i} : m.start <= text.matches[j].start
  <2>1. m.start \in 0..text.length BY <1>1
  <2>2. \A j \in s \ {i} : m.start <= text.matches[j].start BY DEF Turn
  <2> QED BY <2>1, <2>2
<1>3. /\ m.start <= Len(r) /\ \A k \in 1..m.start : r[k] = k - 1
      /\ \A k \in m.start + 1..Len(r) : r[k] = Token \/ r[k] >= m.start
  <2>1. MaskStart(text, s \ {i}, r) BY DEF Turn, Masking
  <2> HIDE DEF m
  <2> QED BY <1>2, <2>1 DEF MaskStart
<1>4. StartsIn(r, m) BY <1>1, <1>3 DEF StartsIn
<1> HIDE DEF m
<1>5. /\ Replace(r, m) \in Seq(Int) /\ Rest(r, m) \in Nat /\ Len(Replace(r, m)) = m.start + m.token + Rest(r, m)
      /\ \A k \in 1..m.start : Replace(r, m)[k] = r[k]
      /\ \A k \in 1..Rest(r, m) : Replace(r, m)[m.start + m.token + k] = r[m.end + k]
  BY <1>4, ReplaceFacts
<1>6. \A k \in 1..Len(Replace(r, m)) :
         \/ k <= m.start /\ Replace(r, m)[k] = r[k]
         \/ m.start < k /\ Replace(r, m)[k] = Token
         \/ \E h \in 1..Len(r) : m.end < h /\ k = h - m.end + m.start + m.token /\ Replace(r, m)[k] = r[h]
  BY <1>4, ReplaceFrom
<1> DEFINE a == m.start
           b == m.end
           c == m.token
           n == Rest(r, m)
           R == Replace(r, m)
           l == Len(r)
           L == Len(R)
<1>7. a \in Nat /\ b \in Nat /\ c \in Nat /\ a < b /\ a <= l /\ n \in Nat /\ l \in Nat /\ L = a + c + n
  BY <1>1, <1>3, <1>5
<1>8. \A k \in 1..n : R[a + c + k] = r[b + k] BY <1>5
<1>9. b < l => n = l - b BY DEF Rest
<1>10. \A h \in b + 1..l : \E k \in 1..L : R[k] = r[h]
  <2> HIDE DEF a, b, c, n, R, l, L
  <2>1. SUFFICES ASSUME NEW h \in b + 1..l PROVE \E k \in 1..L : R[k] = r[h] OBVIOUS
  <2> DEFINE k == h - b
  <2>2. k \in 1..n /\ b + k = h /\ a + c + k \in 1..L BY <1>7, <1>9
  <2>3. R[a + c + k] = r[b + k] BY <1>8, <2>2
  <2> QED BY <2>2, <2>3
<1>11. a <= L BY <1>7
<1>12. Pieces(r, R, a, b, c)
  BY <1>1, <1>3, <1>5, <1>6, <1>10, <1>11 DEF Pieces
<1> QED BY <1>3, <1>12 DEF m

LEMMA TurnStart ==
  ASSUME NEW text, NEW s, NEW i, NEW r, Turn(text, s, i, r)
  PROVE  MaskStart(text, s, Replace(r, text.matches[i]))
<1> DEFINE m == text.matches[i]
           R == Replace(r, m)
           a == m.start
           b == m.end
           c == m.token
<1>1. Pieces(r, R, a, b, c) BY TurnFacts
<1>2. \A k \in 1..a : r[k] = k - 1 BY TurnFacts
<1>3. MaskStart(text, s \ {i}, r) BY DEF Turn, Masking
<1>4. i \in s BY DEF Turn
<1>5. text.length \in Nat BY TextFacts DEF Turn
<1> HIDE DEF R, b, c
<1>6. ASSUME NEW q \in 0..text.length, \A j \in s : q <= text.matches[j].start
      PROVE  q <= Len(R) /\ (\A k \in 1..q : R[k] = k - 1) /\ \A k \in q + 1..Len(R) : R[k] = Token \/ R[k] >= q
  <2>1. q <= a BY <1>4, <1>6
  <2>2. \A j \in s \ {i} : q <= text.matches[j].start BY <1>6
  <2>3. \A k \in q + 1..Len(r) : r[k] = Token \/ r[k] >= q BY <1>3, <2>2 DEF MaskStart
  <2> HIDE DEF a
  <2>4. q \in Nat /\ a \in Nat /\ Len(R) \in Nat /\ Len(r) \in Nat /\ a <= Len(R) /\ a <= Len(r) BY <1>1, <1>5 DEF Pieces
  <2>5. q <= Len(R) /\ \A k \in 1..q : R[k] = k - 1 BY <1>1, <1>2, <2>1, <2>4 DEF Pieces
  <2>6. ASSUME NEW k \in q + 1..Len(R) PROVE R[k] = Token \/ R[k] >= q
    <3>1. k \in 1..Len(R) BY <2>4
    <3>2. \/ k <= a /\ R[k] = r[k]
          \/ a < k /\ R[k] = Token
          \/ \E h \in 1..Len(r) : b < h /\ k = h - b + a + c /\ R[k] = r[h]
      BY <1>1, <3>1 DEF Pieces
    <3>3. CASE k <= a /\ R[k] = r[k]
      <4>1. k \in q + 1..Len(r) BY <2>4, <3>3
      <4> QED BY <2>3, <3>3, <4>1
    <3>4. CASE \E h \in 1..Len(r) : b < h /\ k = h - b + a + c /\ R[k] = r[h]
      <4>1. PICK h \in 1..Len(r) : b < h /\ R[k] = r[h] BY <3>4
      <4>2. b \in Nat /\ a < b BY <1>1 DEF Pieces
      <4>3. h \in q + 1..Len(r) BY <2>1, <2>4, <4>1, <4>2
      <4> QED BY <2>3, <4>1, <4>3
    <3> QED BY <3>2, <3>3, <3>4
  <2> QED BY <2>5, <2>6
<1> QED BY <1>6 DEF MaskStart, R

LEMMA TurnShift ==
  ASSUME NEW text, NEW s, NEW i, NEW r, Turn(text, s, i, r)
  PROVE  MaskShift(text, s, Replace(r, text.matches[i]))
<1> DEFINE m == text.matches[i]
           R == Replace(r, m)
           a == m.start
           b == m.end
           c == m.token
<1>1. Pieces(r, R, a, b, c) BY TurnFacts
<1>2. \A k \in 1..a : r[k] = k - 1 BY TurnFacts
<1>3. MaskShift(text, s \ {i}, r) BY DEF Turn, Masking
<1>4. i \in s BY DEF Turn
<1>5. \A k \in a + 1..Len(r) : r[k] = Token \/ r[k] >= a BY TurnFacts
<1> HIDE DEF R
<1>6. ASSUME NEW k \in 1..Len(R), R[k] # Token, \A j \in s : text.matches[j].start <= R[k] => Shrinks(text.matches[j])
      PROVE  k <= R[k] + 1
  <2>1. \/ k <= a /\ R[k] = r[k]
        \/ a < k /\ R[k] = Token
        \/ \E h \in 1..Len(r) : b < h /\ k = h - b + a + c /\ R[k] = r[h]
    BY <1>1 DEF Pieces
  <2>2. CASE k <= a /\ R[k] = r[k]
    <3> HIDE DEF a, b, c
    <3>1. k \in 1..a /\ R[k] = k - 1 BY <1>1, <1>2, <2>2 DEF Pieces
    <3> QED BY <3>1
  <2>3. CASE \E h \in 1..Len(r) : b < h /\ k = h - b + a + c /\ R[k] = r[h]
    <3>1. PICK h \in 1..Len(r) : b < h /\ k = h - b + a + c /\ R[k] = r[h] BY <2>3
    <3>2. a \in Nat /\ b \in Nat /\ c \in Nat /\ a < b /\ Len(r) \in Nat /\ r[h] \in Int BY <1>1 DEF Pieces
    <3>3. r[h] >= a
      <4> HIDE DEF a, b, c
      <4>1. h \in a + 1..Len(r) BY <3>1, <3>2
      <4> QED BY <1>5, <1>6, <3>1, <4>1
    <3>4. Shrinks(m) BY <1>4, <1>6, <3>1, <3>3
    <3>5. c <= b - a BY <3>4 DEF Shrinks
    <3>6. h <= r[h] + 1
      <4>1. \A j \in s \ {i} : text.matches[j].start <= r[h] => Shrinks(text.matches[j]) BY <1>6, <3>1
      <4>2. r[h] # Token BY <1>6, <3>1
      <4> HIDE DEF a, b, c
      <4> QED BY <1>3, <3>1, <4>1, <4>2 DEF MaskShift
    <3> HIDE DEF a, b, c
    <3> QED BY <3>1, <3>2, <3>5, <3>6
  <2> QED BY <1>6, <2>1, <2>2, <2>3
<1> QED BY <1>6 DEF MaskShift, R

LEMMA TurnGone ==
  ASSUME NEW text, NEW s, NEW i, NEW r, Turn(text, s, i, r)
  PROVE  MaskGone(text, s, Replace(r, text.matches[i]))
<1> DEFINE m == text.matches[i]
           R == Replace(r, m)
           a == m.start
           b == m.end
           c == m.token
<1>1. Pieces(r, R, a, b, c) BY TurnFacts
<1>2. \A k \in 1..a : r[k] = k - 1 BY TurnFacts
<1>3. MaskShift(text, s \ {i}, r) /\ MaskGone(text, s \ {i}, r) BY DEF Turn, Masking
<1>4. i \in s /\ \A j \in s : a <= text.matches[j].start BY DEF Turn
<1>5. \A j \in s : text.matches[j].start \in Nat /\ text.matches[j].end \in Nat BY TextFacts DEF Turn
<1> HIDE DEF R
<1>6. ASSUME NEW x \in s,
             \A j \in s : j # x /\ Inside(text.matches[x], text.matches[j].start) => Shrinks(text.matches[j]),
             NEW k \in 1..Len(R)
      PROVE  ~Inside(text.matches[x], R[k])
  <2>1. \/ k <= a /\ R[k] = r[k]
        \/ a < k /\ R[k] = Token
        \/ \E h \in 1..Len(r) : b < h /\ k = h - b + a + c /\ R[k] = r[h]
    BY <1>1 DEF Pieces
  <2>2. CASE k <= a /\ R[k] = r[k]
    <3> HIDE DEF a, b, c
    <3>1. R[k] = k - 1 /\ a \in Nat /\ k \in Nat BY <1>1, <1>2, <2>2 DEF Pieces
    <3>2. R[k] < text.matches[x].start
      <4>1. a <= text.matches[x].start /\ text.matches[x].start \in Nat BY <1>4, <1>5
      <4> QED BY <2>2, <3>1, <4>1
    <3> QED BY <1>5, <3>1, <3>2 DEF Inside
  <2>3. CASE a < k /\ R[k] = Token BY <1>5, <2>3 DEF Inside, Token
  <2>4. CASE \E h \in 1..Len(r) : b < h /\ R[k] = r[h]
    <3>1. PICK h \in 1..Len(r) : b < h /\ R[k] = r[h] BY <2>4
    <3>2. a \in Nat /\ b \in Nat /\ a < b /\ Len(r) \in Nat /\ r[h] \in Int BY <1>1 DEF Pieces
    <3>3. CASE x # i
      <4>1. x \in s \ {i} BY <3>3
      <4>2. \A j \in s \ {i} : j # x /\ Inside(text.matches[x], text.matches[j].start) => Shrinks(text.matches[j])
        BY <1>6
      <4>3. ~Inside(text.matches[x], r[h]) BY <1>3, <4>1, <4>2 DEF MaskGone
      <4> QED BY <3>1, <4>3
    <3>4. CASE x = i
      <4>1. SUFFICES ASSUME a <= r[h], r[h] < b PROVE FALSE BY <3>1, <3>2, <3>4 DEF Inside
      <4>2. ASSUME NEW j \in s \ {i}, text.matches[j].start <= r[h] PROVE Shrinks(text.matches[j])
        <5>1. a <= text.matches[j].start /\ text.matches[j].start \in Nat /\ j \in s BY <1>4, <1>5
        <5>2. Inside(m, text.matches[j].start)
          <6>1. text.matches[j].start < b
            <7> HIDE DEF b
            <7> QED BY <3>2, <4>1, <4>2, <5>1
          <6> QED BY <5>1, <6>1 DEF Inside
        <5> QED BY <1>6, <3>4, <5>1, <5>2
      <4>3. h <= r[h] + 1
        <5>1. r[h] # Token
          <6> HIDE DEF a
          <6> QED BY <3>2, <4>1 DEF Token
        <5> QED BY <1>3, <4>2, <5>1 DEF MaskShift
      <4> HIDE DEF a, b
      <4> QED BY <3>1, <3>2, <4>1, <4>3
    <3> QED BY <3>3, <3>4
  <2> QED BY <2>1, <2>2, <2>3, <2>4
<1> QED BY <1>6 DEF MaskGone, R

LEMMA TurnKept ==
  ASSUME NEW text, NEW s, NEW i, NEW r, Turn(text, s, i, r)
  PROVE  MaskKept(text, s, Replace(r, text.matches[i]))
<1> DEFINE m == text.matches[i]
           R == Replace(r, m)
           a == m.start
           b == m.end
           c == m.token
<1>1. Pieces(r, R, a, b, c) BY TurnFacts
<1>2. \A k \in 1..a : r[k] = k - 1 BY TurnFacts
<1>3. MaskStart(text, s \ {i}, r) /\ MaskKept(text, s \ {i}, r) BY DEF Turn, Masking
<1>4. i \in s /\ \A j \in s : a <= text.matches[j].start BY DEF Turn
<1>5. /\ text.length \in Nat /\ b <= text.length
      /\ \A j \in s : text.matches[j].start \in Nat /\ text.matches[j].end \in Nat /\ text.matches[j].start < text.matches[j].end
  BY <1>4, TextFacts DEF Turn
<1> HIDE DEF R
<1> SUFFICES ASSUME \A x, y \in s : x # y => text.matches[x].end <= text.matches[y].start \/ text.matches[y].end <= text.matches[x].start,
                    NEW p \in 0..text.length - 1, ~\E j \in s : Inside(text.matches[j], p)
             PROVE  \E k \in 1..Len(R) : R[k] = p
  BY DEF MaskKept, R
<1>6. /\ a \in Nat /\ b \in Nat /\ a < b /\ Len(r) \in Nat /\ Len(R) \in Nat /\ a <= Len(R)
      /\ \A k \in 1..a : R[k] = r[k]
      /\ \A h \in b + 1..Len(r) : \E k \in 1..Len(R) : R[k] = r[h]
  <2> HIDE DEF a, b, c
  <2>1. /\ a \in Nat /\ b \in Nat /\ a < b /\ a <= Len(R)
        /\ \A k \in 1..a : R[k] = r[k]
        /\ \A h \in b + 1..Len(r) : \E k \in 1..Len(R) : R[k] = r[h]
    BY <1>1 DEF Pieces
  <2>2. r \in Seq(Int) /\ R \in Seq(Int) BY <1>1 DEF Pieces
  <2> QED BY <2>1, <2>2
<1>7. PICK h \in 1..Len(r) : r[h] = p
  <2>1. \A x, y \in s \ {i} : x # y => text.matches[x].end <= text.matches[y].start \/ text.matches[y].end <= text.matches[x].start
    OBVIOUS
  <2> QED BY <1>3, <2>1 DEF MaskKept
<1>8. b <= Len(r) /\ \A k \in 1..b : r[k] = k - 1
  <2>1. ASSUME NEW j \in s \ {i} PROVE b <= text.matches[j].start
    <3>1. b <= text.matches[j].start \/ text.matches[j].end <= a BY <1>4
    <3>2. a <= text.matches[j].start /\ text.matches[j].start < text.matches[j].end BY <1>4, <1>5
    <3>3. text.matches[j].start \in Nat /\ text.matches[j].end \in Nat BY <1>5
    <3> HIDE DEF a, b
    <3> QED BY <1>6, <3>1, <3>2, <3>3
  <2>2. b \in 0..text.length
    <3> HIDE DEF b
    <3> QED BY <1>5, <1>6
  <2> HIDE DEF b
  <2> QED BY <1>3, <2>1, <2>2 DEF MaskStart
<1>9. p < a \/ b <= p BY <1>4, <1>5, <1>6 DEF Inside
<1> HIDE DEF a, b
<1>10. CASE p < a
  <2>1. p + 1 \in 1..a /\ p + 1 \in 1..Len(R) BY <1>6, <1>10, <1>5
  <2>2. R[p + 1] = p BY <1>2, <1>6, <2>1, <1>5
  <2> QED BY <2>1, <2>2
<1>11. CASE b <= p
  <2>1. h \in b + 1..Len(r) BY <1>5, <1>6, <1>7, <1>8, <1>11
  <2> QED BY <1>6, <1>7, <2>1
<1> QED BY <1>9, <1>10, <1>11

\* The next replacement.
LEMMA MaskingMore ==
  ASSUME NEW text, NEW s, NEW i, NEW r, Turn(text, s, i, r)
  PROVE  Masking(text, s, Replace(r, text.matches[i]))
<1>1. Replace(r, text.matches[i]) \in Seq(Int) BY TurnFacts DEF Pieces
<1> QED BY <1>1, TurnStart, TurnShift, TurnGone, TurnKept DEF Masking

\* f has, for each set of matches, the text without them.
Masks(text, f) ==
  /\ f[{}] = RawText(text)
  /\ \A s \in SUBSET MatchesOf(text) : s # {} =>
       LET i == LastTurn(text.matches, s)
       IN  Masking(text, s \ {i}, f[s \ {i}]) => f[s] = Replace(f[s \ {i}], text.matches[i])

LEMMA MasksAll ==
  ASSUME NEW text, Text(text), NEW f, Masks(text, f)
  PROVE  \A s \in SUBSET MatchesOf(text) : Masking(text, s, f[s])
<1> DEFINE M == MatchesOf(text)
           P == {s \in SUBSET M : Masking(text, s, f[s])}
<1>1. IsFiniteSet(M) BY TextFacts
<1>2. {} \in P
  <2>1. Masking(text, {}, f[{}]) BY MaskingNone DEF Masks
  <2> QED BY <2>1
<1>3. ASSUME NEW s \in SUBSET M, s # {} PROVE \E i \in s : s \ {i} \in P => s \in P
  <2> DEFINE i == LastTurn(text.matches, s)
  <2>1. i \in s /\ \A j \in s : text.matches[i].start <= text.matches[j].start BY <1>3, LastTurnFacts
  <2>2. ASSUME s \ {i} \in P PROVE s \in P
    <3>1. Masking(text, s \ {i}, f[s \ {i}]) BY <2>2
    <3>2. f[s] = Replace(f[s \ {i}], text.matches[i]) BY <1>3, <3>1 DEF Masks
    <3> HIDE DEF i
    <3>3. Turn(text, s, i, f[s \ {i}]) BY <2>1, <3>1 DEF Turn
    <3>4. Masking(text, s, Replace(f[s \ {i}], text.matches[i])) BY <3>3, MaskingMore
    <3> QED BY <3>2, <3>4
  <2> QED BY <2>1, <2>2
<1>4. SUBSET M \subseteq P
  <2> HIDE DEF M, P
  <2> QED BY <1>1, <1>2, <1>3, SubsetInduction
<1> QED BY <1>4

\* The iteration of Mask.
MaskIter(text, f) ==
  [s \in SUBSET MatchesOf(text) |->
     IF s = {} THEN RawText(text)
     ELSE Replace(f[s \ {LastTurn(text.matches, s)}], text.matches[LastTurn(text.matches, s)])]

LEMMA MaskIterExists ==
  ASSUME NEW text, Text(text)
  PROVE  \E f : f = MaskIter(text, f)
<1> DEFINE M == MatchesOf(text)
           A == Seq(Int)
           base == RawText(text)
           m == text.matches
           step == [i \in M |-> [r \in A |-> IF StartsIn(r, m[i]) THEN Replace(r, m[i]) ELSE <<>>]]
           c == [s \in (SUBSET M) \ {{}} |-> LastTurn(m, s)]
<1>1. IsFiniteSet(M) BY TextFacts
<1>2. base \in A BY MaskingNone DEF Masking
<1>3. step \in [M -> [A -> A]]
  <2>1. \A i \in M : \A r \in A : (IF StartsIn(r, m[i]) THEN Replace(r, m[i]) ELSE <<>>) \in A
    BY ReplaceFacts
  <2> HIDE DEF A, M, m
  <2> QED BY <2>1
<1>4. \A s \in (SUBSET M) \ {{}} : c[s] \in s /\ c[s] = LastTurn(m, s) BY LastTurnFacts
<1>5. c \in [(SUBSET M) \ {{}} -> M] BY <1>4
<1> HIDE DEF c, step
<1>6. PICK f \in [SUBSET M -> A] : Folds(f, M, base, step, c)
  <2> HIDE DEF A, M, base
  <2> QED BY <1>1, <1>2, <1>3, <1>4, <1>5, FoldExists
<1>7. f[{}] = base BY <1>6 DEF Folds
<1>8. ASSUME NEW s \in SUBSET M, s # {}, Masking(text, s \ {LastTurn(m, s)}, f[s \ {LastTurn(m, s)}])
      PROVE  f[s] = Replace(f[s \ {LastTurn(m, s)}], m[LastTurn(m, s)])
  <2> DEFINE i == LastTurn(m, s)
             r == f[s \ {i}]
  <2>1. i \in s /\ \A j \in s : m[i].start <= m[j].start BY <1>8, LastTurnFacts
  <2>2. f[s] = step[i][r]
    <3>1. f[s] = step[c[s]][f[s \ {c[s]}]] BY <1>6, <1>8 DEF Folds
    <3> QED BY <1>4, <1>8, <3>1
  <2>3. r \in A BY <1>8 DEF Masking
  <2>4. i \in M BY <2>1
  <2>5. Turn(text, s, i, r) BY <1>8, <2>1 DEF Turn
  <2>6. StartsIn(r, m[i])
    <3>1. Pieces(r, Replace(r, m[i]), m[i].start, m[i].end, m[i].token) BY <2>5, TurnFacts
    <3> QED BY <3>1 DEF Pieces, StartsIn
  <2> HIDE DEF i, r, A, M, m
  <2>7. step[i][r] = Replace(r, m[i]) BY <2>3, <2>4, <2>6 DEF step
  <2> QED BY <2>2, <2>7 DEF i, r
<1>9. Masks(text, f) BY <1>7, <1>8 DEF Masks
<1>10. ASSUME NEW s \in SUBSET M, s # {} PROVE f[s] = Replace(f[s \ {LastTurn(m, s)}], m[LastTurn(m, s)])
  <2>1. s \ {LastTurn(m, s)} \in SUBSET M OBVIOUS
  <2>2. Masking(text, s \ {LastTurn(m, s)}, f[s \ {LastTurn(m, s)}]) BY <1>9, <2>1, MasksAll
  <2> QED BY <1>8, <1>10, <2>2
<1>11. f = MaskIter(text, f)
  <2>1. f = [s \in SUBSET M |-> f[s]] BY <1>6
  <2>2. \A s \in SUBSET M : f[s] = MaskIter(text, f)[s] BY <1>7, <1>10 DEF MaskIter
  <2> QED BY <2>1, <2>2 DEF MaskIter
<1> QED BY <1>11

LEMMA MaskFacts ==
  ASSUME NEW text, Text(text)
  PROVE  Masking(text, MatchesOf(text), Mask(text))
<1> DEFINE M == MatchesOf(text)
           f == CHOOSE g : g = MaskIter(text, g)
           Jt(g) == [s \in SUBSET DOMAIN text.matches |->
                       IF s = {} THEN RawText(text)
                       ELSE Replace(g[s \ {LastTurn(text.matches, s)}], text.matches[LastTurn(text.matches, s)])]
<1>1. Mask(text) = f[M]
  <2>1. Mask(text) = (CHOOSE g : g = Jt(g))[DOMAIN text.matches] BY DEF Mask, MapThenFoldSet
  <2>2. DOMAIN text.matches = M BY TextFacts
  <2>3. ASSUME NEW g PROVE Jt(g) = MaskIter(text, g) BY <2>2 DEF MaskIter
  <2>4. (CHOOSE g : g = Jt(g)) = f
    <3> HIDE DEF Jt
    <3> QED BY <2>3
  <2> QED BY <2>1, <2>2, <2>4
<1>2. f = MaskIter(text, f) BY MaskIterExists
<1> HIDE DEF f
<1>3. Masks(text, f)
  <2>1. f[{}] = RawText(text) BY <1>2 DEF MaskIter
  <2>2. ASSUME NEW s \in SUBSET M, s # {}
        PROVE f[s] = Replace(f[s \ {LastTurn(text.matches, s)}], text.matches[LastTurn(text.matches, s)])
    BY <1>2, <2>2 DEF MaskIter
  <2> QED BY <2>1, <2>2 DEF Masks
<1> QED BY <1>1, <1>3, MasksAll

------------------------------------------------------------------------------
(***************************************************************************)
(* brain/pipeline/silver.py: batches of any size.                          *)
(***************************************************************************)

\* The records of a batch, of which k have been seen.
Records(raws) == {raws[k] : k \in 1..Len(raws)}
IsBatch(raws) ==
  /\ Len(raws) \in Nat /\ DOMAIN raws = 1..Len(raws)
  /\ \A k \in 1..Len(raws) : raws[k].complete \in BOOLEAN
KeyOf(src, raws, k) == DedupKey(src, raws[k])
Kept(src, raws) == [seen : SUBSET {KeyOf(src, raws, k) : k \in 1..Len(raws)}, kept : Seq(Records(raws))]

\* The step of Valid's loop.
Next1(src, acc, r) ==
  IF ~r.complete \/ DedupKey(src, r) \in acc.seen THEN acc
  ELSE [seen |-> acc.seen \cup {DedupKey(src, r)}, kept |-> Append(acc.kept, r)]
None == [seen |-> {}, kept |-> <<>>]

\* The j-th record is the first complete one with its key.
Leads(src, raws, j) ==
  raws[j].complete /\ \A h \in 1..j - 1 : ~(raws[h].complete /\ KeyOf(src, raws, h) = KeyOf(src, raws, j))

\* f says where the kept ones of the first k records are.
Places(src, raws, k, kept, f) ==
  /\ f \in [1..Len(kept) -> 1..k]
  /\ \A i \in 1..Len(kept) : kept[i] = raws[f[i]] /\ Leads(src, raws, f[i])
  /\ \A i, j \in 1..Len(kept) : i < j => f[i] < f[j]

KeptFirst(src, raws, k, acc) ==
  /\ acc \in Kept(src, raws)
  /\ \A j \in 1..k : raws[j].complete => KeyOf(src, raws, j) \in acc.seen
  /\ \A key \in acc.seen : \E i \in 1..Len(acc.kept) : DedupKey(src, acc.kept[i]) = key
  /\ \A i \in 1..Len(acc.kept) : DedupKey(src, acc.kept[i]) \in acc.seen
  /\ \E f : Places(src, raws, k, acc.kept, f)

LEMMA Next1Type ==
  ASSUME NEW src, NEW raws, IsBatch(raws), NEW acc \in Kept(src, raws), NEW k \in 1..Len(raws)
  PROVE  Next1(src, acc, raws[k]) \in Kept(src, raws)
<1>1. raws[k] \in Records(raws) BY DEF Records
<1>2. DedupKey(src, raws[k]) \in {KeyOf(src, raws, j) : j \in 1..Len(raws)} BY DEF KeyOf
<1>3. Append(acc.kept, raws[k]) \in Seq(Records(raws))
  <2> acc.kept \in Seq(Records(raws)) BY DEF Kept
  <2> HIDE DEF Records
  <2> QED BY <1>1
<1>4. acc.seen \cup {DedupKey(src, raws[k])} \in SUBSET {KeyOf(src, raws, j) : j \in 1..Len(raws)}
  <2> acc.seen \in SUBSET {KeyOf(src, raws, j) : j \in 1..Len(raws)} BY DEF Kept
  <2> QED BY <1>2
<1>5. CASE ~raws[k].complete \/ DedupKey(src, raws[k]) \in acc.seen
  <2> Next1(src, acc, raws[k]) = acc BY <1>5 DEF Next1
  <2> QED OBVIOUS
<1>6. CASE ~(~raws[k].complete \/ DedupKey(src, raws[k]) \in acc.seen)
  <2> Next1(src, acc, raws[k]) = [seen |-> acc.seen \cup {DedupKey(src, raws[k])}, kept |-> Append(acc.kept, raws[k])]
    BY <1>6 DEF Next1
  <2> QED BY <1>3, <1>4 DEF Kept
<1> QED BY <1>5, <1>6

LEMMA KeptFirstMore ==
  ASSUME NEW src, NEW raws, IsBatch(raws), NEW k \in 1..Len(raws), NEW acc, KeptFirst(src, raws, k - 1, acc)
  PROVE  KeptFirst(src, raws, k, Next1(src, acc, raws[k]))
<1> DEFINE r == raws[k]
           key == DedupKey(src, r)
           new == Next1(src, acc, r)
           n == Len(acc.kept)
<1>0. k \in Nat /\ n \in Nat /\ acc.kept \in Seq(Records(raws)) /\ r \in Records(raws)
  <2>1. k \in Nat BY DEF IsBatch
  <2>2. acc.kept \in Seq(Records(raws)) BY DEF KeptFirst, Kept
  <2>3. n \in Nat
    <3> HIDE DEF Records
    <3> QED BY <2>2
  <2> QED BY <2>1, <2>2, <2>3 DEF Records
<1>1. new \in Kept(src, raws) BY Next1Type DEF KeptFirst
<1>2. PICK f : Places(src, raws, k - 1, acc.kept, f) BY DEF KeptFirst
<1>3. CASE ~r.complete \/ key \in acc.seen
  <2>1. new = acc BY <1>3 DEF Next1
  <2>2. \A j \in 1..k : raws[j].complete => KeyOf(src, raws, j) \in acc.seen
    <3>1. \A j \in 1..k - 1 : raws[j].complete => KeyOf(src, raws, j) \in acc.seen BY DEF KeptFirst
    <3>2. \A j \in 1..k : j = k \/ j \in 1..k - 1 BY <1>0
    <3>3. r.complete => KeyOf(src, raws, k) \in acc.seen BY <1>3 DEF KeyOf
    <3> QED BY <3>1, <3>2, <3>3
  <2>3. Places(src, raws, k, acc.kept, f)
    <3>1. 1..k - 1 \subseteq 1..k BY <1>0
    <3>2. f \in [1..n -> 1..k] BY <1>2, <3>1 DEF Places
    <3> QED BY <1>2, <3>2 DEF Places
  <2> QED BY <1>1, <2>1, <2>2, <2>3 DEF KeptFirst
<1>4. CASE ~(~r.complete \/ key \in acc.seen)
  <2> DEFINE kept == Append(acc.kept, r)
             g == [i \in 1..n + 1 |-> IF i = n + 1 THEN k ELSE f[i]]
  <2>1. new.seen = acc.seen \cup {key} /\ new.kept = kept BY <1>4 DEF Next1
  <2>2. Len(kept) = n + 1 /\ kept[n + 1] = r /\ \A i \in 1..n : kept[i] = acc.kept[i]
    <3> HIDE DEF Records, r
    <3> QED BY <1>0
  <2>3. \A j \in 1..k : raws[j].complete => KeyOf(src, raws, j) \in new.seen
    <3>1. \A j \in 1..k - 1 : raws[j].complete => KeyOf(src, raws, j) \in acc.seen BY DEF KeptFirst
    <3>2. \A j \in 1..k : j = k \/ j \in 1..k - 1 BY <1>0
    <3>3. KeyOf(src, raws, k) = key BY DEF KeyOf
    <3> HIDE DEF new, key
    <3> QED BY <2>1, <3>1, <3>2, <3>3
  <2> HIDE DEF new, kept
  <2>4. \A x \in 1..n + 1 : x = n + 1 \/ x \in 1..n BY <1>0
  <2>5. \A x \in new.seen : \E i \in 1..Len(new.kept) : DedupKey(src, new.kept[i]) = x
    <3>1. \A x \in acc.seen : \E i \in 1..n : DedupKey(src, acc.kept[i]) = x BY DEF KeptFirst
    <3>2. 1..n \subseteq 1..n + 1 /\ n + 1 \in 1..n + 1 BY <1>0
    <3>3. ASSUME NEW x \in acc.seen PROVE \E i \in 1..n + 1 : DedupKey(src, kept[i]) = x
      <4>1. PICK i \in 1..n : DedupKey(src, acc.kept[i]) = x BY <3>1
      <4>2. i \in 1..n + 1 /\ kept[i] = acc.kept[i] BY <2>2, <3>2
      <4> QED BY <4>1, <4>2
    <3>4. DedupKey(src, kept[n + 1]) = key BY <2>2
    <3> HIDE DEF key, n
    <3> QED BY <2>1, <2>2, <3>2, <3>3, <3>4
  <2>6. \A i \in 1..Len(new.kept) : DedupKey(src, new.kept[i]) \in new.seen
    <3>1. \A i \in 1..n : DedupKey(src, acc.kept[i]) \in acc.seen BY DEF KeptFirst
    <3>2. ASSUME NEW i \in 1..n + 1 PROVE DedupKey(src, kept[i]) \in new.seen
      <4>1. CASE i = n + 1 BY <2>1, <2>2, <4>1
      <4>2. CASE i \in 1..n
        <5>1. kept[i] = acc.kept[i] BY <2>2, <4>2
        <5>2. DedupKey(src, kept[i]) \in acc.seen BY <3>1, <4>2, <5>1
        <5> QED BY <2>1, <5>2
      <4> QED BY <2>4, <4>1, <4>2
    <3> HIDE DEF n
    <3> QED BY <2>1, <2>2, <3>2
  <2>7. Leads(src, raws, k)
    <3>1. \A j \in 1..k - 1 : raws[j].complete => KeyOf(src, raws, j) \in acc.seen BY DEF KeptFirst
    <3> QED BY <1>4, <3>1 DEF Leads, KeyOf
  <2>8. f \in [1..n -> 1..k - 1] BY <1>2 DEF Places
  <2>9. g[n + 1] = k /\ \A i \in 1..n : g[i] = f[i] /\ f[i] \in 1..k - 1
    <3>1. n + 1 \in 1..n + 1 /\ \A i \in 1..n : i \in 1..n + 1 /\ i # n + 1 BY <1>0
    <3> HIDE DEF n
    <3> QED BY <2>8, <3>1
  <2>10. g \in [1..n + 1 -> 1..k]
    <3>1. \A i \in 1..n + 1 : g[i] \in 1..k
      <4>1. 1..k - 1 \subseteq 1..k /\ k \in 1..k BY <1>0
      <4> HIDE DEF g, n
      <4> QED BY <2>4, <2>9, <4>1
    <3> QED BY <3>1
  <2> HIDE DEF g
  <2>11. ASSUME NEW i \in 1..n + 1 PROVE kept[i] = raws[g[i]] /\ Leads(src, raws, g[i])
    <3>1. CASE i = n + 1 BY <2>2, <2>7, <2>9, <3>1
    <3>2. CASE i \in 1..n BY <1>2, <2>2, <2>9, <3>2 DEF Places
    <3> QED BY <2>4, <3>1, <3>2
  <2>12. ASSUME NEW i \in 1..n + 1, NEW j \in 1..n + 1, i < j PROVE g[i] < g[j]
    <3>1. i \in 1..n BY <1>0, <2>12
    <3>2. CASE j = n + 1 BY <1>0, <2>9, <3>1, <3>2
    <3>3. CASE j \in 1..n BY <1>2, <2>9, <2>12, <3>1, <3>3 DEF Places
    <3> QED BY <2>4, <3>2, <3>3
  <2>13. Places(src, raws, k, new.kept, g)
    <3> HIDE DEF n
    <3> QED BY <2>1, <2>2, <2>10, <2>11, <2>12 DEF Places
  <2> QED BY <1>1, <2>3, <2>5, <2>6, <2>13 DEF KeptFirst, new
<1> QED BY <1>3, <1>4

\* What the loop of Valid has after each record.
LEMMA ValidFold ==
  ASSUME NEW src, NEW raws, IsBatch(raws)
  PROVE  \E v : /\ v[0] = None /\ \A k \in 1..Len(raws) : v[k] = Next1(src, v[k - 1], raws[k])
                /\ v[Len(raws)].kept = Valid(src, raws)
<1> DEFINE n == Len(raws)
           A == Kept(src, raws)
           It(f) == [t \in SUBSET (1..n) |-> IF t = {} THEN None ELSE Next1(src, f[t \ {Max(t)}], raws[Max(t)])]
           step == [k \in 1..n |-> [acc \in A |-> Next1(src, acc, raws[k])]]
<1>1. n \in Nat /\ DOMAIN raws = 1..n BY DEF IsBatch
<1>2. Valid(src, raws) = (CHOOSE f : f = It(f))[1..n].kept
  <2> DEFINE Jt(f) == [t \in SUBSET DOMAIN raws |-> IF t = {} THEN None ELSE Next1(src, f[t \ {Max(t)}], raws[Max(t)])]
  <2>1. Valid(src, raws) = (CHOOSE f : f = Jt(f))[DOMAIN raws].kept
    BY DEF Valid, FoldLeft, MapThenFoldSet, None, Next1
  <2>2. ASSUME NEW f PROVE Jt(f) = It(f) BY <1>1
  <2>3. (CHOOSE f : f = Jt(f)) = (CHOOSE f : f = It(f))
    <3> HIDE DEF It, Jt
    <3> QED BY <2>2
  <2> QED BY <1>1, <2>1, <2>3
<1>3. Steps(step, n, A, None)
  <2>1. \A k \in 1..n : \A acc \in A : Next1(src, acc, raws[k]) \in A BY Next1Type
  <2>2. None \in A BY DEF None, Kept
  <2> HIDE DEF A
  <2> QED BY <2>1, <2>2 DEF Steps
<1> HIDE DEF n, A
<1>4. \E f : f = It(f)
  <2>1. PICK f : FoldsLeft(f, n, A, None, step)
    <3> HIDE DEF step
    <3> QED BY <1>1, <1>3, LeftFoldExists
  <2>2. \A t \in SUBSET (1..n) : t # {} => Max(t) \in 1..n BY <1>1, MaxOfSet
  <2>3. f = It(f) BY <2>1, <2>2 DEF FoldsLeft
  <2> QED BY <2>3
<1> DEFINE g == CHOOSE f : f = It(f)
<1>5. g = It(g) BY <1>4
<1>6. g[{}] = None BY <1>5
<1> HIDE DEF g
<1>7. ASSUME NEW k \in 1..n PROVE g[1..k] = Next1(src, g[1..k - 1], raws[k])
  <2>1. 1..k \in SUBSET (1..n) /\ 1..k # {} /\ Max(1..k) = k /\ (1..k) \ {k} = 1..k - 1 BY <1>1, MaxOfPrefix
  <2> QED BY <2>1, <1>5
<1>8. Iterates(g, n, A, None, step) BY <1>3, <1>6, <1>7 DEF Iterates
<1>9. PICK v : Traces(v, n, A, None, step, g[1..n])
  <2> HIDE DEF step
  <2> QED BY <1>1, <1>8, LeftFoldValues
<1>10. ASSUME NEW k \in 1..n PROVE v[k] = Next1(src, v[k - 1], raws[k])
  <2>1. v[k] = step[k][v[k - 1]] /\ k - 1 \in 0..n BY <1>1, <1>9 DEF Traces
  <2>2. v[k - 1] \in A BY <1>9, <2>1 DEF Traces
  <2> QED BY <2>1, <2>2
<1>11. v[0] = None /\ v[n] = g[1..n] BY <1>9 DEF Traces
<1> QED BY <1>2, <1>10, <1>11 DEF g, n

LEMMA ValidKeepsFirst ==
  ASSUME NEW src, NEW raws, IsBatch(raws)
  PROVE  \E acc : KeptFirst(src, raws, Len(raws), acc) /\ acc.kept = Valid(src, raws)
<1>1. PICK v : /\ v[0] = None /\ \A k \in 1..Len(raws) : v[k] = Next1(src, v[k - 1], raws[k])
               /\ v[Len(raws)].kept = Valid(src, raws)
  BY ValidFold
<1> DEFINE P == {k \in 0..Len(raws) : KeptFirst(src, raws, k, v[k])}
<1>2. Len(raws) \in Nat BY DEF IsBatch
<1>3. 0 \in P
  <2>1. None \in Kept(src, raws) /\ None.seen = {} /\ None.kept = <<>> BY DEF None, Kept
  <2>2. Places(src, raws, 0, <<>>, <<>>) BY DEF Places
  <2>3. KeptFirst(src, raws, 0, None) BY <2>1, <2>2 DEF KeptFirst
  <2> QED BY <1>1, <1>2, <2>3
<1>4. ASSUME NEW k \in 0..Len(raws) - 1, k \in P PROVE k + 1 \in P
  <2>1. k + 1 \in 1..Len(raws) /\ k + 1 \in 0..Len(raws) /\ (k + 1) - 1 = k BY <1>2
  <2>2. v[k + 1] = Next1(src, v[k], raws[k + 1]) BY <1>1, <2>1
  <2>3. KeptFirst(src, raws, k + 1, Next1(src, v[k], raws[k + 1])) BY <1>4, <2>1, KeptFirstMore
  <2> QED BY <2>1, <2>2, <2>3
<1>5. 0..Len(raws) \subseteq P
  <2> HIDE DEF P
  <2> QED BY <1>2, <1>3, <1>4, BoundedInduction
<1>6. KeptFirst(src, raws, Len(raws), v[Len(raws)]) BY <1>2, <1>5
<1> QED BY <1>1, <1>6

\* The keys of the records kept are those of the complete ones, each at its first.
LEMMA ValidFacts ==
  ASSUME NEW src, NEW raws, IsBatch(raws)
  PROVE  /\ Len(Valid(src, raws)) \in Nat /\ DOMAIN Valid(src, raws) = 1..Len(Valid(src, raws))
         /\ {DedupKey(src, Valid(src, raws)[i]) : i \in DOMAIN Valid(src, raws)}
              = {KeyOf(src, raws, k) : k \in {j \in 1..Len(raws) : raws[j].complete}}
         /\ \E f : Places(src, raws, Len(raws), Valid(src, raws), f)
<1> DEFINE out == Valid(src, raws)
           keys == {KeyOf(src, raws, k) : k \in {j \in 1..Len(raws) : raws[j].complete}}
<1>1. PICK acc : KeptFirst(src, raws, Len(raws), acc) /\ acc.kept = out BY ValidKeepsFirst
<1>2. out \in Seq(Records(raws)) BY <1>1 DEF KeptFirst, Kept
<1>3. Len(out) \in Nat /\ DOMAIN out = 1..Len(out)
  <2> HIDE DEF out
  <2> QED BY <1>2
<1>4. PICK f : Places(src, raws, Len(raws), out, f) BY <1>1 DEF KeptFirst
<1> HIDE DEF out
<1>5. \A key \in keys : \E i \in DOMAIN out : DedupKey(src, out[i]) = key
  <2>1. keys \subseteq acc.seen BY <1>1 DEF KeptFirst
  <2> HIDE DEF keys
  <2> QED BY <1>1, <1>3, <2>1 DEF KeptFirst
<1>6. \A i \in DOMAIN out : DedupKey(src, out[i]) \in keys
  <2>1. ASSUME NEW i \in 1..Len(out) PROVE DedupKey(src, out[i]) \in keys
    <3>1. f[i] \in 1..Len(raws) /\ out[i] = raws[f[i]] /\ raws[f[i]].complete BY <1>4 DEF Places, Leads
    <3>2. DedupKey(src, out[i]) = KeyOf(src, raws, f[i]) BY <3>1 DEF KeyOf
    <3> QED BY <3>1, <3>2
  <2> QED BY <1>3, <2>1
<1>7. {DedupKey(src, out[i]) : i \in DOMAIN out} = keys
  <2> HIDE DEF keys
  <2> QED BY <1>5, <1>6
<1> QED BY <1>3, <1>4, <1>7 DEF out

\* Batches are of records as AddRecord makes them.
BatchTypeOK ==
  /\ source \in {"todoist", "calendar", "gmail"}
  /\ batch \in Seq([id : SampleIds, text : SampleTexts, complete : BOOLEAN])

LEMMA BatchTypeCorrect == SilverSpec => []BatchTypeOK
<1>1. SilverInit => BatchTypeOK BY DEF SilverInit, BatchTypeOK
<1>2. BatchTypeOK /\ [SilverNext]_silverVars => BatchTypeOK'
  <2> SUFFICES ASSUME BatchTypeOK, [SilverNext]_silverVars PROVE BatchTypeOK' OBVIOUS
  <2>1. CASE UNCHANGED silverVars BY <2>1 DEF BatchTypeOK, silverVars
  <2>2. CASE SilverNext
    <3>1. PICK id \in SampleIds, text \in SampleTexts, complete \in BOOLEAN : AddRecord(id, text, complete)
      BY <2>2 DEF SilverNext
    <3>2. [id |-> id, text |-> text, complete |-> complete] \in [id : SampleIds, text : SampleTexts, complete : BOOLEAN]
      OBVIOUS
    <3> DEFINE Rs == [id : SampleIds, text : SampleTexts, complete : BOOLEAN]
               r == [id |-> id, text |-> text, complete |-> complete]
    <3>3. batch \in Seq(Rs) /\ batch' = Append(batch, r) /\ source' = source BY <3>1 DEF AddRecord, BatchTypeOK
    <3>4. batch' \in Seq(Rs)
      <4> HIDE DEF Rs, r
      <4>1. r \in Rs BY <3>2 DEF Rs, r
      <4> QED BY <3>3, <4>1
    <3> QED BY <3>3, <3>4 DEF BatchTypeOK
  <2> QED BY <2>1, <2>2
<1> QED BY <1>1, <1>2, PTL DEF SilverSpec

LEMMA BatchFacts ==
  ASSUME BatchTypeOK
  PROVE  /\ IsBatch(batch)
         /\ \A k \in 1..Len(batch) : Text(batch[k].text)
<1> DEFINE Rs == [id : SampleIds, text : SampleTexts, complete : BOOLEAN]
<1>1. batch \in Seq(Rs) BY DEF BatchTypeOK
<1>2. Len(batch) \in Nat /\ DOMAIN batch = 1..Len(batch) /\ \A k \in 1..Len(batch) : batch[k] \in Rs
  <2> HIDE DEF Rs
  <2> QED BY <1>1
<1>3. \A r \in Rs : r.complete \in BOOLEAN /\ r.text \in SampleTexts OBVIOUS
<1>4. \A t \in SampleTexts : Text(t) BY SilverAssumption DEF Text
<1> HIDE DEF Rs
<1> QED BY <1>2, <1>3, <1>4 DEF IsBatch

LEMMA ProcessedFacts ==
  ASSUME BatchTypeOK
  PROVE  Processed = [i \in DOMAIN Valid(source, batch) |->
                        [id |-> Valid(source, batch)[i].id, text |-> Mask(Valid(source, batch)[i].text)]]
<1>1. Processed = Masked(Valid(source, batch))
  <2>1. source = "todoist" \/ source = "calendar" \/ source = "gmail" BY DEF BatchTypeOK
  <2>2. CASE source = "todoist" BY <2>2, Zenon DEF Processed, ProcessTodoist
  <2>3. CASE source = "calendar" BY <2>3 DEF Processed, ProcessCalendar
  <2>4. CASE source = "gmail" BY <2>4 DEF Processed, ProcessGmail
  <2> QED BY <2>1, <2>2, <2>3, <2>4
<1> QED BY <1>1 DEF Masked

\* What SilverIsClean says of one masked text.
LEMMA MaskedIsClean ==
  ASSUME NEW text, Text(text)
  PROVE  /\ \A k \in DOMAIN text.matches : NothingGrowsIn(text, k) =>
              \A p \in ToSet(Mask(text)) \ {Token} : ~Inside(text.matches[k], p)
         /\ Apart(text) => \A p \in 0..text.length - 1 : Matched(text, p) \/ p \in ToSet(Mask(text))
<1> DEFINE r == Mask(text)
           M == MatchesOf(text)
<1>1. r \in Seq(Int) /\ MaskGone(text, M, r) /\ MaskKept(text, M, r) BY MaskFacts DEF Masking
<1>2. DOMAIN text.matches = M BY TextFacts
<1> HIDE DEF r, M
<1>3. ToSet(r) = {r[k] : k \in 1..Len(r)} BY <1>1 DEF ToSet
<1>4. ASSUME NEW i \in M, NothingGrowsIn(text, i), NEW p \in ToSet(r) PROVE ~Inside(text.matches[i], p)
  <2>1. PICK k \in 1..Len(r) : p = r[k] BY <1>3
  <2>2. \A j \in M : j # i /\ Inside(text.matches[i], text.matches[j].start) => Shrinks(text.matches[j])
    BY <1>2, <1>4 DEF NothingGrowsIn, Shrinks
  <2> QED BY <1>1, <2>1, <2>2 DEF MaskGone
<1>5. ASSUME Apart(text), NEW p \in 0..text.length - 1 PROVE Matched(text, p) \/ p \in ToSet(r)
  <2>1. \A x, y \in M : x # y => text.matches[x].end <= text.matches[y].start \/ text.matches[y].end <= text.matches[x].start
    BY <1>2, <1>5 DEF Apart
  <2>2. (\E j \in M : Inside(text.matches[j], p)) \/ \E k \in 1..Len(r) : r[k] = p BY <1>1, <2>1 DEF MaskKept
  <2> QED BY <1>2, <1>3, <2>2 DEF Matched
<1> QED BY <1>2, <1>4, <1>5 DEF r

\* The one first record with a key.
LEMMA LeadsOnce ==
  ASSUME NEW src, NEW raws, NEW i \in 1..Len(raws), NEW j \in 1..Len(raws), Len(raws) \in Nat,
         Leads(src, raws, i), Leads(src, raws, j), KeyOf(src, raws, i) = KeyOf(src, raws, j)
  PROVE  i = j
<1>1. i \in Nat /\ j \in Nat OBVIOUS
<1>2. ~(i < j)
  <2>1. ASSUME i < j PROVE FALSE
    <3>1. i \in 1..j - 1 BY <1>1, <2>1
    <3> QED BY <3>1 DEF Leads
  <2> QED BY <2>1
<1>3. ~(j < i)
  <2>1. ASSUME j < i PROVE FALSE
    <3>1. j \in 1..i - 1 BY <1>1, <2>1
    <3> QED BY <3>1 DEF Leads
  <2> QED BY <2>1
<1> QED BY <1>1, <1>2, <1>3

LEMMA BatchIsClean == BatchTypeOK => SilverIsClean
<1> SUFFICES ASSUME BatchTypeOK PROVE SilverIsClean OBVIOUS
<1> DEFINE out == Valid(source, batch)
           n == Len(batch)
           complete == {DedupKey(source, r) : r \in {x \in ToSet(batch) : x.complete}}
           Is(r, i) == /\ batch[i].complete /\ DedupKey(source, batch[i]) = DedupKey(source, r)
                       /\ \A j \in 1..i - 1 : ~(batch[j].complete /\ DedupKey(source, batch[j]) = DedupKey(source, r))
           Earliest(r) == CHOOSE i \in DOMAIN batch : Is(r, i)
<1>1. n \in Nat /\ DOMAIN batch = 1..n /\ IsBatch(batch) /\ \A k \in 1..n : Text(batch[k].text) BY BatchFacts DEF IsBatch
<1>2. /\ Len(out) \in Nat /\ DOMAIN out = 1..Len(out)
      /\ {DedupKey(source, out[i]) : i \in DOMAIN out} = {KeyOf(source, batch, k) : k \in {j \in 1..n : batch[j].complete}}
  BY <1>1, ValidFacts
<1>3. PICK f : Places(source, batch, n, out, f) BY <1>1, ValidFacts
<1> HIDE DEF out
<1>4. /\ \A i \in 1..Len(out) : f[i] \in 1..n /\ out[i] = batch[f[i]] /\ Leads(source, batch, f[i])
      /\ \A i, j \in 1..Len(out) : i < j => f[i] < f[j]
  BY <1>3 DEF Places
<1>5. complete = {KeyOf(source, batch, k) : k \in {j \in 1..n : batch[j].complete}}
  <2>1. ToSet(batch) = {batch[k] : k \in 1..n} BY <1>1 DEF ToSet
  <2> QED BY <2>1 DEF KeyOf
<1>6. ASSUME NEW i \in 1..Len(out) PROVE Earliest(out[i]) = f[i]
  <2>1. f[i] \in 1..n /\ out[i] = batch[f[i]] /\ Leads(source, batch, f[i]) BY <1>4
  <2>2. Is(out[i], f[i]) BY <2>1 DEF Leads, KeyOf
  <2>3. ASSUME NEW j \in 1..n, Is(out[i], j) PROVE j = f[i]
    <3>1. Leads(source, batch, j) /\ KeyOf(source, batch, j) = KeyOf(source, batch, f[i])
      BY <2>1, <2>3 DEF Leads, KeyOf
    <3> QED BY <1>1, <2>1, <3>1, LeadsOnce
  <2> HIDE DEF Is
  <2> QED BY <1>1, <2>1, <2>2, <2>3
<1>7. \A i, j \in DOMAIN out : i < j => Earliest(out[i]) < Earliest(out[j])
  <2> HIDE DEF Earliest
  <2> QED BY <1>2, <1>4, <1>6
<1>8. Processed = [i \in DOMAIN out |-> [id |-> out[i].id, text |-> Mask(out[i].text)]]
  BY ProcessedFacts DEF out
<1>9. Len(Processed) = Len(out)
  <2>1. DOMAIN Processed = 1..Len(out) BY <1>2, <1>8
  <2> DEFINE S == {Processed[i] : i \in 1..Len(out)}
  <2>2. Processed \in [1..Len(out) -> S] BY <1>8, <2>1
  <2> HIDE DEF S, Earliest
  <2> QED BY <1>2, <2>2
<1>10. ASSUME NEW i \in DOMAIN out
       PROVE  LET text == out[i].text
                  left == ToSet(Processed[i].text)
              IN  /\ \A k \in DOMAIN text.matches : NothingGrowsIn(text, k) =>
                       \A p \in left \ {Token} : ~Inside(text.matches[k], p)
                  /\ Apart(text) => \A p \in 0..text.length - 1 : Matched(text, p) \/ p \in left
  <2>1. Text(out[i].text) BY <1>1, <1>2, <1>4
  <2>2. Processed[i].text = Mask(out[i].text) BY <1>8
  <2> QED BY <2>1, <2>2, MaskedIsClean
<1>11. {DedupKey(source, out[i]) : i \in DOMAIN out} = complete BY <1>2, <1>5
<1> HIDE DEF complete
<1> QED BY <1>7, <1>9, <1>10, <1>11 DEF SilverIsClean, out, complete

\* process_todoist and its like: for every batch, of any length, and every text.
THEOREM SilverAlwaysClean == SilverSpec => []SilverIsClean
BY BatchTypeCorrect, BatchIsClean, PTL

------------------------------------------------------------------------------
(***************************************************************************)
(* brain/planner.py: any tasks, however many, and any bookings.  Sections  *)
(* of a ranking are sets, ordered by the sort key; what is shown of one    *)
(* are the tasks with fewer than n before them.                            *)
(***************************************************************************)

\* lt is a strict order of the finite set S.
Orders(lt, S) ==
  /\ IsFiniteSet(S)
  /\ \A a \in S : <<a, a>> \notin lt
  /\ \A a, b, c \in S : <<a, b>> \in lt /\ <<b, c>> \in lt => <<a, c>> \in lt
  /\ \A a, b \in S : a = b \/ <<a, b>> \in lt \/ <<b, a>> \in lt

Earlier(lt, S, s) == {u \in S : <<u, s>> \in lt}
Firsts(lt, S, n) == {s \in S : Cardinality(Earlier(lt, S, s)) < n}

LEMMA OrdersParts ==
  ASSUME NEW lt, NEW S, Orders(lt, S), NEW T \in SUBSET S
  PROVE  /\ Orders(lt, T) /\ IsFiniteSet(T) /\ Cardinality(T) \in Nat
         /\ Cardinality(T) <= Cardinality(S) /\ (Cardinality(S) = Cardinality(T) => S = T)
<1>1. IsFiniteSet(T) /\ Cardinality(T) <= Cardinality(S) /\ (Cardinality(S) = Cardinality(T) => S = T)
  BY FS_Subset DEF Orders
<1>2. Cardinality(T) \in Nat BY <1>1, FS_CardinalityType
<1>3. Orders(lt, T) BY <1>1 DEF Orders
<1> QED BY <1>1, <1>2, <1>3

\* A last element.
LEMMA LastExists ==
  ASSUME NEW lt, NEW S, Orders(lt, S)
  PROVE  \A t \in SUBSET S : t # {} => \E x \in t : \A u \in t : u = x \/ <<u, x>> \in lt
<1> DEFINE HasLast(t) == \E x \in t : \A u \in t : u = x \/ <<u, x>> \in lt
           P == {t \in SUBSET S : t # {} => HasLast(t)}
<1>1. IsFiniteSet(S) BY DEF Orders
<1>2. {} \in P OBVIOUS
<1>3. ASSUME NEW t \in SUBSET S, t # {} PROVE \E x \in t : t \ {x} \in P => t \in P
  <2>1. PICK x \in t : TRUE BY <1>3
  <2>2. ASSUME t \ {x} \in P PROVE HasLast(t)
    <3>1. CASE t \ {x} = {} BY <3>1
    <3>2. CASE t \ {x} # {}
      <4>1. PICK y \in t \ {x} : \A u \in t \ {x} : u = y \/ <<u, y>> \in lt BY <2>2, <3>2
      <4>2. <<x, y>> \in lt \/ <<y, x>> \in lt BY <4>1 DEF Orders
      <4>3. CASE <<x, y>> \in lt BY <4>1, <4>3
      <4>4. CASE <<y, x>> \in lt
        <5>1. \A u \in t : u = x \/ <<u, x>> \in lt BY <4>1, <4>4 DEF Orders
        <5> QED BY <5>1
      <4> QED BY <4>2, <4>3, <4>4
    <3> QED BY <3>1, <3>2
  <2>3. t \ {x} \in P => t \in P
    <3> HIDE DEF HasLast
    <3> QED BY <2>2
  <2> QED BY <2>3
<1>4. SUBSET S \subseteq P
  <2> HIDE DEF P
  <2> QED BY <1>1, <1>2, <1>3, SubsetInduction
<1> QED BY <1>4

\* How many are taken of a section.
LEMMA FirstsCount ==
  ASSUME NEW lt, NEW S, Orders(lt, S), NEW n \in Nat
  PROVE  Cardinality(Firsts(lt, S, n)) = IF n <= Cardinality(S) THEN n ELSE Cardinality(S)
<1> DEFINE Least(t) == IF n <= Cardinality(t) THEN n ELSE Cardinality(t)
           P == {t \in SUBSET S : Cardinality(Firsts(lt, t, n)) = Least(t)}
<1>1. IsFiniteSet(S) BY DEF Orders
<1>2. {} \in P
  <2>1. Firsts(lt, {}, n) = {} BY DEF Firsts
  <2>2. Cardinality({}) = 0 BY FS_EmptySet
  <2> QED BY <2>1, <2>2
<1>3. ASSUME NEW t \in SUBSET S, t # {} PROVE \E x \in t : t \ {x} \in P => t \in P
  <2>1. PICK x \in t : \A u \in t : u = x \/ <<u, x>> \in lt BY <1>3, LastExists
  <2> DEFINE r == t \ {x}
  <2>2. \A u \in r : u \in S /\ <<u, x>> \in lt /\ <<x, u>> \notin lt BY <2>1 DEF Orders
  <2>3. \A u \in r : Earlier(lt, t, u) = Earlier(lt, r, u) BY <2>2 DEF Earlier
  <2>4. <<x, x>> \notin lt BY DEF Orders
  <2>5. Earlier(lt, t, x) = r BY <2>2, <2>4 DEF Earlier
  <2>6. /\ IsFiniteSet(r) /\ Cardinality(r) \in Nat /\ Cardinality(t) \in Nat /\ Cardinality(t) = Cardinality(r) + 1
    <3>1. IsFiniteSet(t) /\ Cardinality(t) \in Nat /\ IsFiniteSet(r) /\ Cardinality(r) \in Nat BY OrdersParts
    <3>2. Cardinality(r) = Cardinality(t) - 1 BY <3>1, FS_RemoveElement
    <3> QED BY <3>1, <3>2
  <2>7. Firsts(lt, t, n) = IF Cardinality(r) < n THEN Firsts(lt, r, n) \cup {x} ELSE Firsts(lt, r, n)
    <3>1. \A u \in r : u \in Firsts(lt, t, n) <=> u \in Firsts(lt, r, n) BY <2>3 DEF Firsts
    <3>2. x \in Firsts(lt, t, n) <=> Cardinality(r) < n BY <2>5 DEF Firsts
    <3>3. Firsts(lt, t, n) \subseteq t /\ Firsts(lt, r, n) \subseteq r BY DEF Firsts
    <3> QED BY <3>1, <3>2, <3>3
  <2>8. IsFiniteSet(Firsts(lt, r, n)) /\ Cardinality(Firsts(lt, r, n)) \in Nat /\ x \notin Firsts(lt, r, n)
    <3>1. Firsts(lt, r, n) \in SUBSET r BY DEF Firsts
    <3>2. IsFiniteSet(Firsts(lt, r, n)) BY <2>6, <3>1, FS_Subset
    <3> QED BY <3>1, <3>2, FS_CardinalityType
  <2>9. Cardinality(Firsts(lt, r, n) \cup {x}) = Cardinality(Firsts(lt, r, n)) + 1 BY <2>8, FS_AddElement
  <2>10. ASSUME r \in P PROVE t \in P
    <3>1. Cardinality(Firsts(lt, r, n)) = Least(r) BY <2>10
    <3>2. CASE Cardinality(r) < n
      <4>1. Cardinality(Firsts(lt, r, n)) = Cardinality(r) BY <2>6, <3>1, <3>2
      <4>2. Cardinality(Firsts(lt, t, n)) = Cardinality(t) BY <2>6, <2>7, <2>9, <3>2, <4>1
      <4>3. Least(t) = Cardinality(t) BY <2>6, <3>2
      <4> QED BY <4>2, <4>3
    <3>3. CASE ~(Cardinality(r) < n)
      <4>1. Least(r) = n /\ Least(t) = n BY <2>6, <3>3
      <4> QED BY <2>7, <3>1, <3>3, <4>1
    <3> QED BY <3>2, <3>3
  <2> QED BY <2>10
<1>4. SUBSET S \subseteq P
  <2> HIDE DEF P
  <2> QED BY <1>1, <1>2, <1>3, SubsetInduction
<1> QED BY <1>4

\* What is taken of a section are its first; all of it, or as many as wanted.
LEMMA FirstsFacts ==
  ASSUME NEW lt, NEW S, Orders(lt, S), NEW n \in Nat
  PROVE  LET F == Firsts(lt, S, n)
         IN  /\ F \in SUBSET S /\ IsFiniteSet(F)
             /\ Cardinality(F) = Min({n, Cardinality(S)})
             /\ \A s \in F, u \in S \ F : <<s, u>> \in lt
             /\ F = S \/ Cardinality(F) = n
             /\ Cardinality(S) <= n => F = S
<1> DEFINE F == Firsts(lt, S, n)
<1>1. F \in SUBSET S BY DEF Firsts
<1>2. IsFiniteSet(F) /\ (Cardinality(S) = Cardinality(F) => S = F) /\ Cardinality(F) \in Nat /\ Cardinality(S) \in Nat
  BY <1>1, OrdersParts
<1>3. Cardinality(F) = IF n <= Cardinality(S) THEN n ELSE Cardinality(S) BY FirstsCount
<1>4. ASSUME NEW s \in F, NEW u \in S \ F PROVE <<s, u>> \in lt
  <2>1. SUFFICES ASSUME <<u, s>> \in lt PROVE FALSE BY <1>1, <1>4 DEF Orders
  <2>2. s \in S /\ u \in S BY <1>1
  <2>3. Earlier(lt, S, u) \in SUBSET Earlier(lt, S, s) BY <2>1, <2>2 DEF Orders, Earlier
  <2>4. Earlier(lt, S, s) \in SUBSET S /\ Earlier(lt, S, u) \in SUBSET S BY DEF Earlier
  <2>5. IsFiniteSet(Earlier(lt, S, s)) /\ Cardinality(Earlier(lt, S, s)) \in Nat /\ Cardinality(Earlier(lt, S, u)) \in Nat
    BY <2>4, OrdersParts
  <2>6. Cardinality(Earlier(lt, S, u)) <= Cardinality(Earlier(lt, S, s)) BY <2>3, <2>5, FS_Subset
  <2>7. Cardinality(Earlier(lt, S, s)) < n /\ ~(Cardinality(Earlier(lt, S, u)) < n) BY <2>2 DEF Firsts
  <2> QED BY <2>5, <2>6, <2>7
<1>5. Cardinality(F) = Min({n, Cardinality(S)})
  <2>1. {n, Cardinality(S)} \subseteq Nat BY <1>2
  <2>2. Min({n, Cardinality(S)}) \in {n, Cardinality(S)} /\ \A i \in {n, Cardinality(S)} : Min({n, Cardinality(S)}) <= i
    BY <2>1, MinOfSet
  <2> QED BY <1>2, <1>3, <2>2
<1>6. F = S \/ Cardinality(F) = n BY <1>2, <1>3
<1>7. Cardinality(S) <= n => F = S BY <1>2, <1>3
<1> HIDE DEF F
<1> QED BY <1>1, <1>2, <1>4, <1>5, <1>6, <1>7 DEF F

\* The planner's input: a list of tasks, when midnight passes, the weekend's events.
PlannerTypeOK == taskList \in Seq(SampleTasks) /\ midnight \in Nat /\ booked \in Bookings

LEMMA PlannerTypeCorrect == PlannerSpec => []PlannerTypeOK
<1>1. PlannerInit => PlannerTypeOK
  BY PlannerAssumption DEF PlannerInit, PlannerTypeOK
<1>2. PlannerTypeOK /\ [PlannerNext]_plannerVars => PlannerTypeOK'
  <2> SUFFICES ASSUME PlannerTypeOK, [PlannerNext]_plannerVars PROVE PlannerTypeOK' OBVIOUS
  <2>1. ASSUME NEW t \in SampleTasks, AddTask(t) PROVE PlannerTypeOK'
    BY <2>1 DEF PlannerTypeOK, AddTask
  <2>2. CASE UNCHANGED plannerVars BY <2>2 DEF PlannerTypeOK, plannerVars
  <2> QED BY <2>1, <2>2 DEF PlannerNext
<1> QED BY <1>1, <1>2, PTL DEF PlannerSpec

\* The fields the score and the sort key read.
IsTask(t) == /\ t.id \in Nat /\ t.due \in Int /\ t.priority \in 1..4 /\ t.minutes \in Nat

\* The image of a finite set, and when it has as many elements.
LEMMA ImageFacts ==
  ASSUME NEW S, IsFiniteSet(S), NEW f, DOMAIN f = S
  PROVE  LET T == {f[x] : x \in S}
         IN  /\ IsFiniteSet(T)
             /\ (\A x, y \in S : f[x] = f[y] => x = y) => Cardinality(T) = Cardinality(S)
<1> DEFINE T == {f[x] : x \in S}
           g == [x \in S |-> f[x]]
<1>1. g \in [S -> T] /\ \A t \in T : \E x \in S : g[x] = t OBVIOUS
<1>2. g \in Surjection(S, T) BY <1>1 DEF Surjection
<1>3. IsFiniteSet(T) BY <1>2, FS_Surjection
<1>4. ASSUME \A x, y \in S : f[x] = f[y] => x = y PROVE Cardinality(T) = Cardinality(S)
  <2>1. g \in Injection(S, T) BY <1>1, <1>4 DEF Injection, IsInjective
  <2> HIDE DEF g, T
  <2> QED BY <1>2, <2>1, FS_Surjection
<1> QED BY <1>3, <1>4

LEMMA ScoreType ==
  ASSUME PlannerAssumption, NEW t, IsTask(t), NEW day \in Nat, NEW weekend \in BOOLEAN
  PROVE  Score(t, day, weekend) \in Int
<1>1. DuePoints(t, day) \in Int
  <2> DEFINE left == t.due - day
  <2>1. left \in Int BY DEF IsTask
  <2>2. ASSUME left < 0 PROVE Min({-left, 7}) \in Int
    <3>1. {-left, 7} \subseteq Nat BY <2>1, <2>2
    <3> QED BY <3>1, MinOfSet
  <2> HIDE DEF left
  <2>3. ASSUME left < 0 PROVE 20 * Min({-left, 7}) \in Int BY <2>2, <2>3
  <2> QED BY <2>1, <2>3 DEF DuePoints, left
<1>2. <<0, 4, 10, 18>>[t.priority] \in Int BY DEF IsTask
<1>3. Minutes(t) \in Int /\ DurationPoints(t) \in Int
  <2>1. Minutes(t) = DefaultMinutes \/ Minutes(t) = t.minutes BY DEF Minutes
  <2>2. Minutes(t) \in Int BY <2>1 DEF IsTask, PlannerAssumption
  <2> QED BY <2>2 DEF DurationPoints
<1>4. SectionPoints(t) \in Int BY DEF SectionPoints, IsTask
<1> QED BY <1>1, <1>2, <1>3, <1>4 DEF Score

\* A ranking: scored tasks, each at its place of the list; and Ahead as a relation.
IsScored(s) == /\ IsTask(s.task) /\ s.score \in Int /\ s.pos \in Nat
AllScored(R) == /\ \A s \in R : IsScored(s)
                /\ \A s, u \in R : s.pos = u.pos => s = u
AheadIn(R) == {p \in R \X R : Ahead(p[1], p[2])}

\* The sort key leaves no two tasks undecided, so that the ranking is one order.
LEMMA AheadOrders ==
  ASSUME NEW R, IsFiniteSet(R), AllScored(R)
  PROVE  Orders(AheadIn(R), R)
<1>1. \A a, b \in R : <<a, b>> \in AheadIn(R) <=> Ahead(a, b) BY DEF AheadIn
<1>t. \A a \in R : /\ a.score \in Int /\ a.pos \in Nat
                   /\ a.task.due \in Int /\ a.task.priority \in Int /\ a.task.id \in Nat
  BY DEF AllScored, IsScored, IsTask
<1>2. ASSUME NEW a \in R PROVE ~Ahead(a, a) BY <1>t DEF Ahead
<1>3. ASSUME NEW a \in R, NEW b \in R, NEW c \in R, Ahead(a, b), Ahead(b, c) PROVE Ahead(a, c)
  BY <1>t, <1>3 DEF Ahead
<1>4. ASSUME NEW a \in R, NEW b \in R PROVE a = b \/ Ahead(a, b) \/ Ahead(b, a)
  BY <1>t DEF Ahead, AllScored
<1> HIDE DEF AheadIn
<1>5. \A a, b \in R : a = b \/ <<a, b>> \in AheadIn(R) \/ <<b, a>> \in AheadIn(R) BY <1>1, <1>4
<1>6. \A a, b, c \in R : <<a, b>> \in AheadIn(R) /\ <<b, c>> \in AheadIn(R) => <<a, c>> \in AheadIn(R) BY <1>1, <1>3
<1> QED BY <1>1, <1>2, <1>5, <1>6 DEF Orders

\* rank_tasks ranks every task of the list, and nothing else.
LEMMA RankFacts ==
  ASSUME PlannerAssumption, PlannerTypeOK, NEW weekend \in BOOLEAN
  PROVE  LET R == RankTasks(taskList, weekend)
         IN  /\ IsFiniteSet(R) /\ AllScored(R) /\ Orders(AheadIn(R), R)
             /\ \A i \in DOMAIN taskList : \E s \in R : s.pos = i /\ s.task = taskList[i]
             /\ \A s \in R : s.pos \in DOMAIN taskList /\ s.task = taskList[s.pos]
<1> DEFINE rec(i) == [pos |-> i, task |-> taskList[i], score |-> Score(taskList[i], IF i < midnight THEN 0 ELSE 1, weekend)]
           D == DOMAIN taskList
           R == {rec(i) : i \in D}
<1>1. D = 1..Len(taskList) /\ Len(taskList) \in Nat /\ \A i \in D : taskList[i] \in SampleTasks
  BY DEF PlannerTypeOK
<1>2. \A i \in D : IsTask(taskList[i]) BY <1>1 DEF PlannerAssumption, IsTask
<1>3. \A i \in D : IsScored(rec(i)) /\ rec(i).pos = i /\ rec(i).task = taskList[i]
  <2> TAKE i \in D
  <2> DEFINE day == IF i < midnight THEN 0 ELSE 1
  <2>1. day \in Nat OBVIOUS
  <2>2. Score(taskList[i], day, weekend) \in Int BY <2>1, <1>2, ScoreType
  <2>3. i \in Nat BY <1>1
  <2> QED BY <1>2, <2>2, <2>3 DEF IsScored
<1>4. IsFiniteSet(R)
  <2> DEFINE f == [i \in D |-> rec(i)]
  <2> HIDE DEF rec
  <2>1. IsFiniteSet(D) BY <1>1, FS_Interval
  <2>2. IsFiniteSet({f[i] : i \in D}) BY <2>1, ImageFacts
  <2>3. R = {f[i] : i \in D} OBVIOUS
  <2> QED BY <2>2, <2>3
<1> HIDE DEF rec
<1>5. AllScored(R)
  <2>1. \A s \in R : IsScored(s) BY <1>3
  <2>2. ASSUME NEW s \in R, NEW u \in R, s.pos = u.pos PROVE s = u
    <3>1. PICK i \in D : s = rec(i) OBVIOUS
    <3>2. PICK j \in D : u = rec(j) OBVIOUS
    <3> QED BY <3>1, <3>2, <2>2, <1>3
  <2> QED BY <2>1, <2>2 DEF AllScored
<1>6. Orders(AheadIn(R), R) BY <1>4, <1>5, AheadOrders
<1>7. \A i \in D : \E s \in R : s.pos = i /\ s.task = taskList[i] BY <1>3
<1>8. \A s \in R : s.pos \in D /\ s.task = taskList[s.pos] BY <1>3
<1>9. R = RankTasks(taskList, weekend) BY DEF RankTasks, rec
<1> QED BY <1>4, <1>5, <1>6, <1>7, <1>8, <1>9

\* The first of a section of the ranking.
LEMMA FirstFacts ==
  ASSUME NEW R, Orders(AheadIn(R), R), NEW S \in SUBSET R, NEW n \in Nat
  PROVE  LET F == ShownOf(S, n)
         IN  /\ F \in SUBSET S /\ IsFiniteSet(F) /\ IsFiniteSet(S)
             /\ Cardinality(F) = Min({n, Cardinality(S)})
             /\ Shows(F, S, n)
             /\ F = S \/ Cardinality(F) = n
             /\ Cardinality(S) <= n => F = S
             /\ ShownOf(S, n) = Firsts(AheadIn(R), S, n)
<1>1. \A a, b \in R : <<a, b>> \in AheadIn(R) <=> Ahead(a, b) BY DEF AheadIn
<1>2. Orders(AheadIn(R), S) /\ IsFiniteSet(S) BY OrdersParts
<1> HIDE DEF AheadIn
<1>3. \A s \in S : {u \in S : Ahead(u, s)} = Earlier(AheadIn(R), S, s) BY <1>1 DEF Earlier
<1>4. ShownOf(S, n) = Firsts(AheadIn(R), S, n) BY <1>3 DEF ShownOf, FirstOf, Firsts
<1> DEFINE F == Firsts(AheadIn(R), S, n)
<1>5. /\ F \in SUBSET S /\ IsFiniteSet(F)
      /\ Cardinality(F) = Min({n, Cardinality(S)})
      /\ \A s \in F, u \in S \ F : <<s, u>> \in AheadIn(R)
      /\ F = S \/ Cardinality(F) = n
      /\ Cardinality(S) <= n => F = S
  BY <1>2, FirstsFacts
<1> HIDE DEF F
<1>6. \A s \in F, u \in S \ F : Ahead(s, u) BY <1>1, <1>5
<1>7. Shows(F, S, n) BY <1>5, <1>6 DEF Shows
<1> QED BY <1>2, <1>4, <1>5, <1>7 DEF F

\* The overdue tasks as the alert reads them, and its order.
Late == {[pos |-> i, task |-> taskList[i]] : i \in {j \in DOMAIN taskList : taskList[j].due < 0}}
OlderIn(A) == {p \in A \X A : Older(p[1], p[2])}

LEMMA LateFacts ==
  ASSUME PlannerAssumption, PlannerTypeOK
  PROVE  /\ IsFiniteSet(Late) /\ Orders(OlderIn(Late), Late)
         /\ Cardinality(Late) = Cardinality(OverdueOf(RankTasks(taskList, FALSE)))
         /\ {s.pos : s \in Late} = {s.pos : s \in OverdueOf(RankTasks(taskList, FALSE))}
<1> DEFINE D == {j \in DOMAIN taskList : taskList[j].due < 0}
           f == [i \in D |-> [pos |-> i, task |-> taskList[i]]]
           R == RankTasks(taskList, FALSE)
           O == OverdueOf(R)
           g == [s \in O |-> s.pos]
<1>1. DOMAIN taskList = 1..Len(taskList) /\ Len(taskList) \in Nat /\ \A i \in DOMAIN taskList : taskList[i] \in SampleTasks
  BY DEF PlannerTypeOK
<1>2. IsFiniteSet(D)
  <2>1. IsFiniteSet(DOMAIN taskList) BY <1>1, FS_Interval
  <2> QED BY <2>1, FS_Subset
<1>3. /\ IsFiniteSet(R) /\ AllScored(R) /\ Orders(AheadIn(R), R)
      /\ \A i \in DOMAIN taskList : \E s \in R : s.pos = i /\ s.task = taskList[i]
      /\ \A s \in R : s.pos \in DOMAIN taskList /\ s.task = taskList[s.pos]
  BY RankFacts
<1>4. Late = {f[i] : i \in D} BY DEF Late
<1>5. IsFiniteSet(Late) /\ Cardinality(Late) = Cardinality(D)
  <2>1. \A i, j \in D : f[i] = f[j] => i = j OBVIOUS
  <2> HIDE DEF f, D
  <2>2. DOMAIN f = D BY DEF f
  <2> QED BY <1>2, <1>4, <2>1, <2>2, ImageFacts
<1> HIDE DEF R
<1>6. IsFiniteSet(O) /\ D = {g[s] : s \in O} /\ \A s, u \in O : g[s] = g[u] => s = u
  <2>1. O \in SUBSET R BY DEF OverdueOf
  <2>2. IsFiniteSet(O) BY <1>3, <2>1, FS_Subset
  <2>3. \A s \in O : g[s] \in D BY <1>3, <2>1 DEF OverdueOf
  <2>4. ASSUME NEW i \in D PROVE \E s \in O : g[s] = i
    <3>1. PICK s \in R : s.pos = i /\ s.task = taskList[i] BY <1>3
    <3>2. s \in O BY <3>1 DEF OverdueOf
    <3> QED BY <3>1, <3>2
  <2>5. \A s, u \in O : g[s] = g[u] => s = u BY <1>3, <2>1 DEF AllScored
  <2> HIDE DEF g, O, D
  <2> QED BY <2>2, <2>3, <2>4, <2>5
<1>7. Cardinality(D) = Cardinality(O)
  <2> HIDE DEF g, O, D
  <2>1. DOMAIN g = O BY DEF g
  <2> QED BY <1>6, <2>1, ImageFacts
<1>8. {s.pos : s \in Late} = D /\ {s.pos : s \in O} = D
  <2>1. {s.pos : s \in Late} = D
    <3>1. \A i \in D : f[i].pos = i OBVIOUS
    <3> HIDE DEF f, D
    <3> QED BY <1>4, <3>1
  <2>2. {s.pos : s \in O} = {g[s] : s \in O} OBVIOUS
  <2> QED BY <1>6, <2>1, <2>2
<1>9. Orders(OlderIn(Late), Late)
  <2>1. \A s \in Late : s.pos \in D /\ s.task = taskList[s.pos] /\ s = [pos |-> s.pos, task |-> s.task] BY DEF Late
  <2>2. \A s \in Late : s.pos \in Nat /\ s.task.due \in Int BY <1>1, <2>1 DEF PlannerAssumption
  <2>3. \A a, b \in Late : <<a, b>> \in OlderIn(Late) <=> Older(a, b) BY DEF OlderIn
  <2>4. ASSUME NEW a \in Late PROVE ~Older(a, a) BY <2>2 DEF Older
  <2>5. ASSUME NEW a \in Late, NEW b \in Late, NEW c \in Late, Older(a, b), Older(b, c) PROVE Older(a, c)
    BY <2>2, <2>5 DEF Older
  <2>6. ASSUME NEW a \in Late, NEW b \in Late PROVE a = b \/ Older(a, b) \/ Older(b, a)
    <3>1. a.pos = b.pos => a = b BY <2>1
    <3> QED BY <2>2, <3>1 DEF Older
  <2> HIDE DEF OlderIn
  <2>7. \A a, b, c \in Late : <<a, b>> \in OlderIn(Late) /\ <<b, c>> \in OlderIn(Late) => <<a, c>> \in OlderIn(Late)
    BY <2>3, <2>5
  <2>8. \A a, b \in Late : a = b \/ <<a, b>> \in OlderIn(Late) \/ <<b, a>> \in OlderIn(Late) BY <2>3, <2>6
  <2> QED BY <1>5, <2>3, <2>4, <2>7, <2>8 DEF Orders
<1> HIDE DEF D, O
<1>10. /\ IsFiniteSet(Late) /\ Orders(OlderIn(Late), Late)
       /\ Cardinality(Late) = Cardinality(O)
       /\ {s.pos : s \in Late} = {s.pos : s \in O}
  BY <1>5, <1>7, <1>8, <1>9
<1> QED BY <1>10 DEF O, R

\* build_overdue_alert lists ten of them, or all.
LEMMA AlertFacts ==
  ASSUME PlannerAssumption, PlannerTypeOK
  PROVE  /\ Cardinality(AlertOf(taskList)) = Min({10, Cardinality(Late)})
         /\ Cardinality(Late) <= 10 => AlertOf(taskList) = Late
<1>1. Orders(OlderIn(Late), Late) BY LateFacts
<1>2. \A a, b \in Late : <<a, b>> \in OlderIn(Late) <=> Older(a, b) BY DEF OlderIn
<1>3. AlertOf(taskList) = {s \in Late : Cardinality({u \in Late : Older(u, s)}) < 10}
  BY DEF AlertOf, FirstOf, Late
<1>4. \A s \in Late : {u \in Late : Older(u, s)} = Earlier(OlderIn(Late), Late, s) BY <1>2 DEF Earlier
<1>5. AlertOf(taskList) = Firsts(OlderIn(Late), Late, 10) BY <1>3, <1>4 DEF Firsts
<1>6. /\ Cardinality(Firsts(OlderIn(Late), Late, 10)) = Min({10, Cardinality(Late)})
      /\ Cardinality(Late) <= 10 => Firsts(OlderIn(Late), Late, 10) = Late
  BY <1>1, FirstsFacts
<1> QED BY <1>5, <1>6

\* The digest, the review and the alert of one list.
LEMMA DigestConsistent ==
  ASSUME PlannerAssumption, PlannerTypeOK
  PROVE  DigestIsConsistent
<1> DEFINE R == RankTasks(taskList, FALSE)
           labelled == {s \in R : "focus" \in s.task.labels}
           week == {s \in R : s.task.due \in 1..7}
           over == ShownOf(OverdueOf(R), OverdueLimit)
           foc == ShownOf(FocusOf(R), 5)
           up == ShownOf(UpcomingOf(R), 7)
           sections == <<over, DueTodayOf(R), foc, up>>
           shown == UNION {sections[i] : i \in 1..4}
           top == ShownOf(OnceEach(R), TopLimit)
           behind == ShownOf(OverdueOf(R), 10)
           next == ShownOf(week, 7)
           five == ShownOf(labelled, 5)
<1>0. TopLimit \in Nat /\ OverdueLimit \in Nat /\ 5 \in Nat /\ 7 \in Nat BY DEF PlannerAssumption
<1>1. /\ IsFiniteSet(R) /\ AllScored(R) /\ Orders(AheadIn(R), R)
      /\ \A i \in DOMAIN taskList : \E s \in R : s.pos = i /\ s.task = taskList[i]
      /\ \A s \in R : s.pos \in DOMAIN taskList /\ s.task = taskList[s.pos]
  BY RankFacts
<1> HIDE DEF R
<1>d. \A s \in R : s.task.due \in Int BY <1>1 DEF AllScored, IsScored, IsTask
<1>s. /\ OverdueOf(R) \in SUBSET R /\ FocusOf(R) \in SUBSET R /\ UpcomingOf(R) \in SUBSET R
      /\ DueTodayOf(R) \in SUBSET R /\ OnceEach(R) \in SUBSET R
  BY DEF OverdueOf, FocusOf, UpcomingOf, DueTodayOf, OnceEach
<1>l. labelled \in SUBSET R /\ week \in SUBSET R OBVIOUS
<1> HIDE DEF labelled, week
<1>n. \A S \in SUBSET R, n \in Nat :
        /\ ShownOf(S, n) \in SUBSET S /\ Shows(ShownOf(S, n), S, n) /\ Cardinality(ShownOf(S, n)) = Min({n, Cardinality(S)})
        /\ ShownOf(S, n) = S \/ Cardinality(ShownOf(S, n)) = n
        /\ Cardinality(S) <= n => ShownOf(S, n) = S
        /\ ShownOf(S, n) = Firsts(AheadIn(R), S, n)
  BY <1>1, FirstFacts
<1>2. Shows(over, OverdueOf(R), OverdueLimit) /\ over \in SUBSET OverdueOf(R)
      /\ (over = OverdueOf(R) \/ Cardinality(over) = OverdueLimit)
  BY <1>0, <1>n, <1>s
<1>3. Shows(foc, FocusOf(R), 5) /\ foc \in SUBSET FocusOf(R) /\ (foc = FocusOf(R) \/ Cardinality(foc) = 5)
  BY <1>0, <1>n, <1>s
<1>4. Shows(up, UpcomingOf(R), 7) /\ up \in SUBSET UpcomingOf(R) /\ (up = UpcomingOf(R) \/ Cardinality(up) = 7)
  BY <1>0, <1>n, <1>s
<1>5. shown = over \cup DueTodayOf(R) \cup foc \cup up
  <2> HIDE DEF over, foc, up
  <2>1. /\ sections[1] = over /\ sections[2] = DueTodayOf(R) /\ sections[3] = foc /\ sections[4] = up
        /\ 1..4 = {1, 2, 3, 4}
    OBVIOUS
  <2> HIDE DEF sections
  <2> QED BY <2>1
<1>6. Distinct => Shows(top, R, TopLimit)
  <2>1. ASSUME Distinct PROVE OnceEach(R) = R
    <3>1. ASSUME NEW s \in R, NEW u \in R, Ahead(u, s) PROVE u.task.id # s.task.id
      <4>1. <<u, s>> \in AheadIn(R) BY <3>1 DEF AheadIn
      <4>2. u # s BY <1>1, <4>1 DEF Orders
      <4>3. u.pos # s.pos BY <1>1, <4>2 DEF AllScored
      <4> QED BY <1>1, <2>1, <4>3 DEF Distinct
    <3> QED BY <3>1 DEF OnceEach
  <2>2. ASSUME Distinct PROVE Shows(ShownOf(R, TopLimit), R, TopLimit)
    BY <1>0, <1>n
  <2> QED BY <2>1, <2>2
<1> HIDE DEF over, foc, up
<1>7. \A s \in R \ shown :
          \/ s.task.due < 0 /\ Cardinality(over) = OverdueLimit
          \/ s.task.due > 0 /\ "focus" \in s.task.labels /\ Cardinality(foc) = 5
          \/ s.task.due > 0 /\ "focus" \notin s.task.labels /\ Cardinality(up) = 7
          \/ s.task.due = NoDue /\ "focus" \notin s.task.labels
  <2> TAKE s \in R \ shown
  <2>1. s \in R /\ s \notin over /\ s \notin DueTodayOf(R) /\ s \notin foc /\ s \notin up BY <1>5
  <2> HIDE DEF shown
  <2>2. s.task.due \in Int /\ s.task.due # 0 BY <1>d, <2>1 DEF DueTodayOf
  <2>3. CASE s.task.due < 0 BY <1>2, <2>1, <2>3 DEF OverdueOf
  <2>4. CASE s.task.due > 0 /\ "focus" \in s.task.labels
    <3>1. s \in FocusOf(R) BY <2>1, <2>2, <2>4 DEF FocusOf, OverdueOf, DueTodayOf
    <3> QED BY <1>3, <2>1, <2>4, <3>1
  <2>5. CASE s.task.due > 0 /\ "focus" \notin s.task.labels
    <3>1. s \in UpcomingOf(R) \/ s.task.due = NoDue BY <2>1, <2>5 DEF UpcomingOf, FocusOf
    <3> QED BY <1>4, <2>1, <2>5, <3>1
  <2> QED BY <2>2, <2>3, <2>4, <2>5
<1>8. next \subseteq shown \/ Cardinality(foc) = 5 \/ Cardinality(up) = 7
  <2>1. next \in SUBSET week BY <1>n, <1>l
  <2> USE DEF week
  <2>2. ASSUME NEW s \in next, s \notin shown PROVE Cardinality(foc) = 5 \/ Cardinality(up) = 7
    <3>1. s \in R \ shown /\ s.task.due \in 1..7 BY <2>1, <2>2
    <3> HIDE DEF shown
    <3>2. ~(s.task.due < 0) /\ s.task.due # NoDue BY <3>1 DEF NoDue
    <3> QED BY <1>7, <3>1, <3>2
  <2> HIDE DEF shown, next
  <2> QED BY <2>2
<1>9. five \ OverdueOf(R) \subseteq shown
  <2>1. five \in SUBSET labelled /\ five = Firsts(AheadIn(R), labelled, 5) BY <1>n, <1>l
  <2>2. foc = Firsts(AheadIn(R), FocusOf(R), 5) BY <1>0, <1>n, <1>s DEF foc
  <2>3. FocusOf(R) = labelled \ (OverdueOf(R) \cup DueTodayOf(R)) BY DEF FocusOf, labelled
  <2>4. Orders(AheadIn(R), labelled) BY <1>1, <1>l, OrdersParts
  <2> HIDE DEF labelled, five, shown
  <2>5. ASSUME NEW s \in five, s \notin OverdueOf(R) PROVE s \in shown
    <3>1. CASE s \in DueTodayOf(R) BY <1>5, <3>1
    <3>2. CASE s \notin DueTodayOf(R)
      <4>1. s \in FocusOf(R) /\ s \in labelled BY <2>1, <2>3, <2>5, <3>2
      <4>2. Cardinality(Earlier(AheadIn(R), labelled, s)) < 5 BY <2>1 DEF Firsts
      <4>3. Earlier(AheadIn(R), FocusOf(R), s) \in SUBSET Earlier(AheadIn(R), labelled, s)
            /\ Earlier(AheadIn(R), labelled, s) \in SUBSET labelled
            /\ Earlier(AheadIn(R), FocusOf(R), s) \in SUBSET labelled
        BY <2>3 DEF Earlier
      <4>4. IsFiniteSet(Earlier(AheadIn(R), labelled, s)) /\ Cardinality(Earlier(AheadIn(R), labelled, s)) \in Nat
            /\ Cardinality(Earlier(AheadIn(R), FocusOf(R), s)) \in Nat
        BY <2>4, <4>3, OrdersParts
      <4>5. Cardinality(Earlier(AheadIn(R), FocusOf(R), s)) <= Cardinality(Earlier(AheadIn(R), labelled, s))
        BY <4>3, <4>4, FS_Subset
      <4>6. s \in foc BY <2>2, <4>1, <4>2, <4>4, <4>5 DEF Firsts
      <4> QED BY <1>5, <4>6
    <3> QED BY <3>1, <3>2
  <2> QED BY <2>5
<1>10. /\ Cardinality(AlertOf(taskList)) = Cardinality(behind)
       /\ Cardinality(OverdueOf(R)) <= 10 => {s.pos : s \in AlertOf(taskList)} = {s.pos : s \in behind}
  <2>1. /\ Cardinality(behind) = Min({10, Cardinality(OverdueOf(R))})
        /\ Cardinality(OverdueOf(R)) <= 10 => behind = OverdueOf(R)
    BY <1>n, <1>s
  <2>2. /\ Cardinality(AlertOf(taskList)) = Min({10, Cardinality(Late)})
        /\ Cardinality(Late) <= 10 => AlertOf(taskList) = Late
    BY AlertFacts
  <2>3. Cardinality(Late) = Cardinality(OverdueOf(R)) /\ {s.pos : s \in Late} = {s.pos : s \in OverdueOf(R)}
    BY LateFacts DEF R
  <2> HIDE DEF behind
  <2> QED BY <2>1, <2>2, <2>3
<1>11. over \cap DueTodayOf(R) = {} /\ over \cap foc = {} /\ over \cap up = {}
       /\ DueTodayOf(R) \cap foc = {} /\ DueTodayOf(R) \cap up = {} /\ foc \cap up = {}
  <2>1. OverdueOf(R) \cap DueTodayOf(R) = {} /\ OverdueOf(R) \cap FocusOf(R) = {}
        /\ DueTodayOf(R) \cap FocusOf(R) = {} BY <1>d DEF OverdueOf, DueTodayOf, FocusOf
  <2>2. OverdueOf(R) \cap UpcomingOf(R) = {} /\ DueTodayOf(R) \cap UpcomingOf(R) = {}
    BY <1>d DEF OverdueOf, DueTodayOf, UpcomingOf
  <2>3. FocusOf(R) \cap UpcomingOf(R) = {} BY DEF UpcomingOf
  <2> QED BY <1>2, <1>3, <1>4, <2>1, <2>2, <2>3
<1>12. \A i, j \in 1..4 : i # j => sections[i] \cap sections[j] = {}
  <2>1. /\ sections[1] = over /\ sections[2] = DueTodayOf(R) /\ sections[3] = foc /\ sections[4] = up
        /\ 1..4 = {1, 2, 3, 4}
    OBVIOUS
  <2> HIDE DEF sections
  <2> QED BY <1>11, <2>1
<1>13. DailyDigest(taskList) =
         [overdueCount |-> Cardinality(OverdueOf(R)), todayCount |-> Cardinality(DueTodayOf(R)),
          top |-> top, overdue |-> over, dueToday |-> DueTodayOf(R), focus |-> foc, upcoming |-> up]
  BY DEF DailyDigest, R, over, foc, up
<1>14. WeeklyReview(taskList) =
         [overdueCount |-> Cardinality(OverdueOf(R)), fallingBehind |-> behind, nextWeek |-> next, focus |-> five]
  BY DEF WeeklyReview, R, labelled, week
<1> HIDE DEF top, behind, next, five
<1>15. /\ DailyDigest(taskList).overdue = over /\ DailyDigest(taskList).dueToday = DueTodayOf(R)
       /\ DailyDigest(taskList).focus = foc /\ DailyDigest(taskList).upcoming = up /\ DailyDigest(taskList).top = top
       /\ DailyDigest(taskList).overdueCount = Cardinality(OverdueOf(R))
  BY <1>13
<1>16. /\ WeeklyReview(taskList).fallingBehind = behind /\ WeeklyReview(taskList).nextWeek = next
       /\ WeeklyReview(taskList).focus = five
  BY <1>14
<1>17. RankTasks(taskList, FALSE) = R BY DEF R
<1> DEFINE d == DailyDigest(taskList)
           r == WeeklyReview(taskList)
<1>18. sections = <<d.overdue, d.dueToday, d.focus, d.upcoming>> BY <1>15
<1>19. shown = UNION {<<d.overdue, d.dueToday, d.focus, d.upcoming>>[i] : i \in 1..4} BY <1>18
<1> HIDE DEF d, r, sections, shown
<1>20. /\ Shows(d.overdue, OverdueOf(R), OverdueLimit)
       /\ Shows(d.focus, FocusOf(R), 5) /\ Shows(d.upcoming, UpcomingOf(R), 7)
       /\ Distinct => Shows(d.top, R, TopLimit)
       /\ r.nextWeek \subseteq shown \/ Cardinality(d.focus) = 5 \/ Cardinality(d.upcoming) = 7
       /\ r.focus \ OverdueOf(R) \subseteq shown
       /\ Cardinality(AlertOf(taskList)) = Cardinality(r.fallingBehind)
       /\ d.overdueCount <= 10 => {s.pos : s \in AlertOf(taskList)} = {s.pos : s \in r.fallingBehind}
  BY <1>2, <1>3, <1>4, <1>6, <1>8, <1>9, <1>10, <1>15, <1>16, Zenon DEF d, r
<1>21. \A s \in R \ shown :
          \/ s.task.due < 0 /\ Cardinality(d.overdue) = OverdueLimit
          \/ s.task.due > 0 /\ "focus" \in s.task.labels /\ Cardinality(d.focus) = 5
          \/ s.task.due > 0 /\ "focus" \notin s.task.labels /\ Cardinality(d.upcoming) = 7
          \/ s.task.due = NoDue /\ "focus" \notin s.task.labels
  BY <1>7, <1>15, Zenon DEF d
<1> QED BY <1>12, <1>17, <1>18, <1>19, <1>20, <1>21 DEF DigestIsConsistent, d, r

\* The minutes of a day's tasks.
Spent(day) == FoldLeft(LAMBDA x, y : x + y, 0, [k \in DOMAIN day |-> Minutes(day[k].task)])
Timed(t) == \A s \in t : Minutes(s.task) \in Nat
MinutesOf(day) == [k \in DOMAIN day |-> Minutes(day[k].task)]

\* A day of tasks of t, each once.
Day(t, day) == day \in Seq(t) /\ IsInjective(day)

LEMMA DayFacts ==
  ASSUME NEW t, Timed(t), NEW day, Day(t, day)
  PROVE  /\ Len(day) \in Nat /\ DOMAIN day = 1..Len(day)
         /\ \A k \in 1..Len(day) : day[k] \in t
         /\ Lengths(MinutesOf(day)) /\ Len(MinutesOf(day)) = Len(day)
         /\ \A k \in 1..Len(day) : MinutesOf(day)[k] = Minutes(day[k].task)
         /\ Spent(day) \in Nat
         /\ day = <<>> => Spent(day) = 0
         /\ Len(day) > 0 \/ day = <<>>
<1>1. Len(day) \in Nat /\ DOMAIN day = 1..Len(day) /\ (\A k \in 1..Len(day) : day[k] \in t) /\ (Len(day) > 0 \/ day = <<>>)
  BY DEF Day
<1>2. \A k \in 1..Len(day) : Minutes(day[k].task) \in Nat BY <1>1 DEF Timed
<1>3. MinutesOf(day) = [k \in 1..Len(day) |-> Minutes(day[k].task)] BY <1>1 DEF MinutesOf
<1> DEFINE m == MinutesOf(day)
<1>4. m \in [1..Len(day) -> Nat] BY <1>2, <1>3
<1>5. m \in Seq(Nat) /\ Len(m) = Len(day)
  <2> HIDE DEF m
  <2> QED BY <1>1, <1>4
<1>6. Lengths(m) BY <1>5 DEF Lengths
<1> HIDE DEF m
<1>7. PICK v : Sums(v, m) /\ v[Len(m)] = FoldLeft(LAMBDA x, y : x + y, 0, m) BY <1>6, SumsOf
<1>8. Spent(day) = v[Len(m)] BY <1>7 DEF Spent, MinutesOf, m
<1>9. Spent(day) \in Nat
  <2>1. Len(m) \in 0..Len(m) BY <1>1, <1>5
  <2> QED BY <2>1, <1>7, <1>8 DEF Sums
<1>10. day = <<>> => Spent(day) = 0
  <2>1. day = <<>> => Len(m) = 0 BY <1>5
  <2> QED BY <1>7, <1>8, <2>1 DEF Sums
<1>11. \A k \in 1..Len(day) : m[k] = Minutes(day[k].task) BY <1>3 DEF m
<1> QED BY <1>1, <1>5, <1>6, <1>9, <1>10, <1>11 DEF m

\* One task more.
LEMMA DayMore ==
  ASSUME NEW t, Timed(t), NEW x \in t, NEW day, Day(t \ {x}, day)
  PROVE  /\ Day(t, day)
         /\ Day(t, Append(day, x)) /\ Len(Append(day, x)) = Len(day) + 1
         /\ \A k \in 1..Len(day) : Append(day, x)[k] = day[k]
         /\ Append(day, x)[Len(day) + 1] = x
         /\ Spent(Append(day, x)) = Spent(day) + Minutes(x.task)
<1> DEFINE r == Append(day, x)
           n == Len(day)
           m == MinutesOf(day)
           p == MinutesOf(r)
<1>1. Timed(t \ {x}) BY DEF Timed
<1>2. n \in Nat /\ DOMAIN day = 1..n /\ \A k \in 1..n : day[k] \in t \ {x} BY <1>1, DayFacts
<1>3. r \in Seq(t) /\ Len(r) = n + 1 /\ r[n + 1] = x /\ (\A k \in 1..n : r[k] = day[k]) /\ day \in Seq(t) /\ DOMAIN r = 1..n + 1
  BY DEF Day
<1>4. Day(t, day) BY <1>3 DEF Day
<1> HIDE DEF r, n
<1>5. Day(t, r)
  <2>1. ASSUME NEW i \in 1..n + 1, NEW j \in 1..n + 1, r[i] = r[j] PROVE i = j
    <3>1. \A k \in 1..n : r[k] = day[k] /\ r[k] # x BY <1>2, <1>3
    <3>2. (i \in 1..n \/ i = n + 1) /\ (j \in 1..n \/ j = n + 1) BY <1>2
    <3>3. \A a, b \in 1..n : day[a] = day[b] => a = b BY <1>2 DEF Day, IsInjective
    <3> QED BY <1>3, <2>1, <3>1, <3>2, <3>3
  <2> QED BY <1>3, <2>1 DEF Day, IsInjective
<1>6. /\ Lengths(m) /\ Len(m) = n /\ \A k \in 1..n : m[k] = Minutes(day[k].task)
  BY <1>4, DayFacts DEF n
<1>7. /\ Lengths(p) /\ Len(p) = n + 1 /\ \A k \in 1..n + 1 : p[k] = Minutes(r[k].task)
  BY <1>3, <1>5, DayFacts
<1> HIDE DEF m, p
<1>8. SubSeq(p, 1, n) = m
  <2>1. Lengths(SubSeq(p, 1, n)) /\ Len(SubSeq(p, 1, n)) = n /\ \A k \in 1..n : SubSeq(p, 1, n)[k] = p[k]
    <3>1. 1 \in 1..Len(p) + 1 /\ 1 - 1 <= n /\ n <= Len(p) /\ n - 1 + 1 = n /\ \A k \in 1..n : 1 + k - 1 = k BY <1>2, <1>7
    <3> QED BY <1>2, <1>7, <3>1, LengthsFacts
  <2>2. \A k \in 1..n : p[k] = m[k]
    <3>1. \A k \in 1..n : k \in 1..n + 1 /\ r[k] = day[k] BY <1>2, <1>3
    <3> QED BY <1>6, <1>7, <3>1
  <2> DEFINE q == SubSeq(p, 1, n)
  <2> HIDE DEF q
  <2>3. q \in Seq(Nat) /\ m \in Seq(Nat) /\ Len(q) = Len(m) /\ \A k \in 1..Len(q) : q[k] = m[k]
    BY <1>6, <2>1, <2>2 DEF Lengths, q
  <2>4. q = m BY <2>3, SeqEqual
  <2> QED BY <2>4 DEF q
<1>9. SubSeq(p, 1, n + 1) = p
  <2> DEFINE q == SubSeq(p, 1, n + 1)
  <2>1. Lengths(q) /\ Len(q) = n + 1 /\ \A k \in 1..n + 1 : q[k] = p[k]
    <3>1. 1 \in 1..Len(p) + 1 /\ n + 1 \in Nat /\ 1 - 1 <= n + 1 /\ n + 1 <= Len(p) /\ n + 1 - 1 + 1 = n + 1 /\ \A k \in 1..n + 1 : 1 + k - 1 = k
      BY <1>2, <1>7
    <3> QED BY <1>7, <3>1, LengthsFacts
  <2> HIDE DEF q
  <2>2. q \in Seq(Nat) /\ p \in Seq(Nat) /\ Len(q) = Len(p) /\ \A k \in 1..Len(q) : q[k] = p[k]
    BY <1>7, <2>1 DEF Lengths
  <2>3. q = p BY <2>2, SeqEqual
  <2> QED BY <2>3 DEF q
<1>10. Letters(p, 1, n + 1) = Letters(p, 1, n) + p[n + 1]
  <2> DEFINE a == 1
             b == n + 1
  <2>1. a \in Nat /\ b \in Nat /\ 1 <= a /\ a - 1 <= b /\ a <= b /\ b <= Len(p) /\ b - 1 = n BY <1>2, <1>7
  <2> HIDE DEF a, b
  <2>2. Letters(p, a, b) = Letters(p, a, b - 1) + p[b] BY <1>7, <2>1, LettersFacts
  <2>3. Letters(p, a, b) = Letters(p, a, n) + p[b] BY <2>1, <2>2
  <2> QED BY <2>3 DEF a, b
<1>11. Letters(p, 1, n) = Spent(day) BY <1>8 DEF Letters, Spent, MinutesOf, m
<1>12. Letters(p, 1, n + 1) = Spent(r) BY <1>9 DEF Letters, Spent, MinutesOf, p
<1>13. p[n + 1] = Minutes(x.task)
  <2>1. n + 1 \in 1..n + 1 BY <1>2
  <2> QED BY <1>3, <1>7, <2>1
<1> QED BY <1>3, <1>4, <1>5, <1>10, <1>11, <1>12, <1>13 DEF r, n

\* Free minutes are never negative, however much is booked.
LEMMA FreeType ==
  ASSUME PlannerAssumption, PlannerTypeOK
  PROVE  Free(booked[1]) \in Nat /\ Free(booked[2]) \in Nat
<1>1. booked[1] \in Int /\ booked[2] \in Int /\ CapacityHours * 60 \in Int
  <2>1. booked \in Nat \X Nat /\ CapacityHours \in Nat BY DEF PlannerAssumption, PlannerTypeOK
  <2> QED BY <2>1
<1>2. ASSUME NEW x \in Int PROVE Max({0, x}) \in Nat
  <2>1. \E y \in {0, x} : \A z \in {0, x} : y >= z BY <1>2
  <2>2. Max({0, x}) \in {0, x} /\ Max({0, x}) >= 0 BY <2>1 DEF Max
  <2> QED BY <1>2, <2>2
<1>3. \A b \in Int : CapacityHours * 60 - b \in Int BY <1>1
<1> QED BY <1>1, <1>2, <1>3 DEF Free

\* What build_weekend_digest has while its loop runs.
Plannings(Q) == [sat : Q, sun : Q, overflow : Q, satUsed : Nat, sunUsed : Nat, full : BOOLEAN]
Plans(T) == Plannings(Seq(T))

LEMMA OverflowField ==
  ASSUME NEW Q, NEW plan \in Plannings(Q), NEW q \in Q
  PROVE  LET p == [plan EXCEPT !.overflow = q]
         IN  /\ p \in Plannings(Q) /\ p.overflow = q
             /\ p.sat = plan.sat /\ p.satUsed = plan.satUsed /\ p.sun = plan.sun /\ p.sunUsed = plan.sunUsed
BY DEF Plannings

LEMMA FullField ==
  ASSUME NEW Q, NEW plan \in Plannings(Q), NEW b \in BOOLEAN
  PROVE  LET p == [plan EXCEPT !.full = b]
         IN  /\ p \in Plannings(Q) /\ p.full = b /\ p.overflow = plan.overflow
             /\ p.sat = plan.sat /\ p.satUsed = plan.satUsed /\ p.sun = plan.sun /\ p.sunUsed = plan.sunUsed
BY DEF Plannings

LEMMA RoomLeft ==
  ASSUME NEW a \in Nat, NEW b \in Nat, NEW limit \in Nat, a + b < limit
  PROVE  /\ a + 1 + b <= limit /\ a + (b + 1) <= limit /\ a + b <= limit
         /\ a + 1 + b >= limit \/ a + 1 + b < limit
         /\ a + (b + 1) >= limit \/ a + (b + 1) < limit
OBVIOUS

\* What a task's turn does to the plan.
OnSaturday(plan, s, p) ==
  /\ ~plan.full /\ plan.satUsed + Minutes(s.task) <= Free(booked[1])
  /\ p.sat = Append(plan.sat, s) /\ p.satUsed = plan.satUsed + Minutes(s.task)
  /\ p.sun = plan.sun /\ p.sunUsed = plan.sunUsed /\ p.overflow = plan.overflow
OnSunday(plan, s, p) ==
  /\ ~plan.full /\ plan.sunUsed + Minutes(s.task) <= Free(booked[2])
  /\ p.sun = Append(plan.sun, s) /\ p.sunUsed = plan.sunUsed + Minutes(s.task)
  /\ p.sat = plan.sat /\ p.satUsed = plan.satUsed /\ p.overflow = plan.overflow
OnNeither(plan, s, p) ==
  /\ ~plan.full
  /\ plan.satUsed + Minutes(s.task) > Free(booked[1]) /\ plan.sunUsed + Minutes(s.task) > Free(booked[2])
  /\ p.overflow = Append(plan.overflow, s)
  /\ p.sat = plan.sat /\ p.satUsed = plan.satUsed /\ p.sun = plan.sun /\ p.sunUsed = plan.sunUsed
Placed(plan, s, p) ==
  \/ plan.full /\ p = plan
  \/ /\ OnSaturday(plan, s, p) \/ OnSunday(plan, s, p) \/ OnNeither(plan, s, p)
     /\ p.full <=> Len(p.sat) + Len(p.sun) >= WeekendLimit

\* The branches of the loop come down to three.
LEMMA PlaceFacts ==
  ASSUME PlannerAssumption, PlannerTypeOK, NEW T, Timed(T), NEW plan \in Plans(T), NEW s \in T
  PROVE  Placed(plan, s, Place(plan, s)) /\ Place(plan, s) \in Plans(T)
<1> DEFINE n == Minutes(s.task)
           onSat == [plan EXCEPT !.sat = Append(@, s), !.satUsed = @ + n]
           onSun == [plan EXCEPT !.sun = Append(@, s), !.sunUsed = @ + n]
           left == [plan EXCEPT !.overflow = Append(@, s)]
           fitsSat == plan.satUsed + n <= Free(booked[1])
           fitsSun == plan.sunUsed + n <= Free(booked[2])
           placed == IF "focus" \in s.task.labels /\ fitsSat THEN onSat
                     ELSE IF fitsSun THEN onSun
                     ELSE IF fitsSat THEN onSat ELSE left
           done(q) == [q EXCEPT !.full = Len(q.sat) + Len(q.sun) >= WeekendLimit]
<1>1. n \in Nat /\ Free(booked[1]) \in Nat /\ Free(booked[2]) \in Nat BY FreeType DEF Timed
<1>2. /\ plan.sat \in Seq(T) /\ plan.sun \in Seq(T) /\ plan.overflow \in Seq(T)
      /\ plan.satUsed \in Nat /\ plan.sunUsed \in Nat
  BY DEF Plans, Plannings
<1>3. Place(plan, s) = IF plan.full THEN plan ELSE done(placed) BY DEF Place
<1> HIDE DEF n
<1> DEFINE Q == Seq(T)
           m == plan.satUsed + n
           l == plan.sunUsed + n
<1>q. /\ Append(plan.sat, s) \in Q /\ Append(plan.sun, s) \in Q /\ Append(plan.overflow, s) \in Q
      /\ m \in Nat /\ l \in Nat
  <2>1. \A q \in Seq(T) : Append(q, s) \in Seq(T) OBVIOUS
  <2>2. \A u \in Nat : u + n \in Nat BY <1>1
  <2> HIDE DEF n
  <2> QED BY <1>2, <2>1, <2>2, Zenon
<1>r. Plans(T) = Plannings(Q) /\ plan \in Plannings(Q) BY DEF Plans
<1> HIDE DEF Q, m, l
<1>4. onSat \in Plans(T) /\ onSat.sat = Append(plan.sat, s) /\ onSat.satUsed = plan.satUsed + n
      /\ onSat.sun = plan.sun /\ onSat.sunUsed = plan.sunUsed /\ onSat.overflow = plan.overflow
  <2> DEFINE a == Append(plan.sat, s)
             o == [plan EXCEPT !.sat = a, !.satUsed = m]
  <2>1. onSat = o BY DEF m
  <2>0. a \in Q BY <1>q
  <2> HIDE DEF a, onSat
  <2>2. o \in Plannings(Q) /\ o.sat = a /\ o.satUsed = m /\ o.sun = plan.sun /\ o.sunUsed = plan.sunUsed /\ o.overflow = plan.overflow
    <3>1. m \in Nat /\ plan \in Plannings(Q) BY <1>q, <1>r
        <3> QED BY <2>0, <3>1 DEF Plannings
  <2> HIDE DEF o
  <2> QED BY <1>r, <2>1, <2>2 DEF a, m
<1>5. onSun \in Plans(T) /\ onSun.sun = Append(plan.sun, s) /\ onSun.sunUsed = plan.sunUsed + n
      /\ onSun.sat = plan.sat /\ onSun.satUsed = plan.satUsed /\ onSun.overflow = plan.overflow
  <2> DEFINE a == Append(plan.sun, s)
             o == [plan EXCEPT !.sun = a, !.sunUsed = l]
  <2>1. onSun = o BY DEF l
  <2>0. a \in Q BY <1>q
  <2> HIDE DEF a, onSun
  <2>2. o \in Plannings(Q) /\ o.sun = a /\ o.sunUsed = l /\ o.sat = plan.sat /\ o.satUsed = plan.satUsed /\ o.overflow = plan.overflow
    <3>1. l \in Nat /\ plan \in Plannings(Q) BY <1>q, <1>r
        <3> QED BY <2>0, <3>1 DEF Plannings
  <2> HIDE DEF o
  <2> QED BY <1>r, <2>1, <2>2 DEF a, l
<1>6. left \in Plans(T) /\ left.overflow = Append(plan.overflow, s)
      /\ left.sat = plan.sat /\ left.satUsed = plan.satUsed /\ left.sun = plan.sun /\ left.sunUsed = plan.sunUsed
  <2> DEFINE a == Append(plan.overflow, s)
             o == [plan EXCEPT !.overflow = a]
  <2>1. left = o OBVIOUS
  <2>0. a \in Q BY <1>q
  <2> HIDE DEF a, left
  <2>2. o \in Plannings(Q) /\ o.overflow = a /\ o.sat = plan.sat /\ o.satUsed = plan.satUsed /\ o.sun = plan.sun /\ o.sunUsed = plan.sunUsed BY <1>q, <1>r, <2>0, OverflowField
  <2> HIDE DEF o
  <2> QED BY <1>r, <2>1, <2>2 DEF a
<1>7. ASSUME NEW q \in Plans(T)
      PROVE  /\ done(q) \in Plans(T) /\ done(q).sat = q.sat /\ done(q).satUsed = q.satUsed /\ done(q).sun = q.sun
             /\ done(q).sunUsed = q.sunUsed /\ done(q).overflow = q.overflow
             /\ done(q).full <=> Len(q.sat) + Len(q.sun) >= WeekendLimit
  <2> DEFINE b == Len(q.sat) + Len(q.sun) >= WeekendLimit
  <2>1. b \in BOOLEAN OBVIOUS
  <2> DEFINE o == [q EXCEPT !.full = b]
  <2>2. done(q) = o OBVIOUS
  <2>0. q \in Plannings(Q) BY <1>r
  <2> HIDE DEF b, done
  <2>3. /\ o \in Plannings(Q) /\ o.full = b /\ o.overflow = q.overflow
        /\ o.sat = q.sat /\ o.satUsed = q.satUsed /\ o.sun = q.sun /\ o.sunUsed = q.sunUsed
    BY <2>0, <2>1, FullField
  <2> HIDE DEF o
  <2> QED BY <1>r, <2>2, <2>3 DEF b
<1>8. \/ fitsSat /\ placed = onSat
      \/ fitsSun /\ placed = onSun
      \/ ~fitsSat /\ ~fitsSun /\ placed = left
  <2> HIDE DEF fitsSat, fitsSun, onSat, onSun, left
  <2> QED OBVIOUS
<1> HIDE DEF onSat, onSun, left, placed, done
<1>9. CASE plan.full BY <1>3, <1>9 DEF Placed
<1>10. CASE ~plan.full
  <2>1. Place(plan, s) = done(placed) BY <1>3, <1>10
  <2>2. CASE fitsSat /\ placed = onSat
    <3>1. OnSaturday(plan, s, done(onSat)) BY <1>4, <1>7, <1>10, <2>2 DEF OnSaturday, n
    <3>2. done(onSat).full <=> Len(done(onSat).sat) + Len(done(onSat).sun) >= WeekendLimit
      <4>1. onSat \in Plans(T) BY <1>4
      <4>2. done(onSat).sat = onSat.sat /\ done(onSat).sun = onSat.sun BY <1>7, <4>1, Zenon
      <4>3. done(onSat).full <=> Len(onSat.sat) + Len(onSat.sun) >= WeekendLimit BY <1>7, <4>1, Zenon
      <4> QED BY <4>2, <4>3, Zenon
    <3> QED BY <1>4, <1>7, <2>1, <2>2, <3>1, <3>2 DEF Placed
  <2>3. CASE fitsSun /\ placed = onSun
    <3>1. OnSunday(plan, s, done(onSun)) BY <1>5, <1>7, <1>10, <2>3 DEF OnSunday, n
    <3>2. done(onSun).full <=> Len(done(onSun).sat) + Len(done(onSun).sun) >= WeekendLimit
      <4>1. onSun \in Plans(T) BY <1>5
      <4>2. done(onSun).sat = onSun.sat /\ done(onSun).sun = onSun.sun BY <1>7, <4>1, Zenon
      <4>3. done(onSun).full <=> Len(onSun.sat) + Len(onSun.sun) >= WeekendLimit BY <1>7, <4>1, Zenon
      <4> QED BY <4>2, <4>3, Zenon
    <3> QED BY <1>5, <1>7, <2>1, <2>3, <3>1, <3>2 DEF Placed
  <2>4. CASE ~fitsSat /\ ~fitsSun /\ placed = left
    <3>0. plan.satUsed + n > Free(booked[1]) /\ plan.sunUsed + n > Free(booked[2])
      <4> HIDE DEF n
      <4>1. ~(plan.satUsed + n <= Free(booked[1])) /\ ~(plan.sunUsed + n <= Free(booked[2])) BY <2>4, Zenon
      <4>2. plan.satUsed \in Nat /\ plan.sunUsed \in Nat BY <1>2
      <4>3. n \in Nat /\ Free(booked[1]) \in Nat /\ Free(booked[2]) \in Nat BY <1>1
      <4> QED BY <4>1, <4>2, <4>3
    <3>1. OnNeither(plan, s, done(left)) BY <1>6, <1>7, <1>10, <3>0 DEF OnNeither, n
    <3>2. done(left).full <=> Len(done(left).sat) + Len(done(left).sun) >= WeekendLimit BY <1>6, <1>7
    <3> QED BY <1>6, <1>7, <2>1, <2>4, <3>1, <3>2 DEF Placed
  <2> QED BY <1>8, <2>2, <2>3, <2>4
<1> QED BY <1>9, <1>10

\* The plan of the tasks t.
ApartFrom(sat, sun) == \A i \in 1..Len(sat), j \in 1..Len(sun) : sat[i] # sun[j]
PlanFits(t, plan) ==
  /\ Day(t, plan.sat) /\ plan.satUsed = Spent(plan.sat) /\ plan.satUsed <= Free(booked[1])
  /\ Day(t, plan.sun) /\ plan.sunUsed = Spent(plan.sun) /\ plan.sunUsed <= Free(booked[2])
  /\ ApartFrom(plan.sat, plan.sun)
  /\ \A k \in 1..Len(plan.overflow) :
       /\ plan.satUsed + Minutes(plan.overflow[k].task) > Free(booked[1])
       /\ plan.sunUsed + Minutes(plan.overflow[k].task) > Free(booked[2])
  /\ Len(plan.sat) + Len(plan.sun) <= WeekendLimit
Planned(t, plan) ==
  /\ PlanFits(t, plan)
  /\ ~plan.full => Len(plan.sat) + Len(plan.sun) < WeekendLimit

\* The loop's invariant after one task more.
LEMMA PlannedMore ==
  ASSUME PlannerAssumption, PlannerTypeOK, NEW T, Timed(T), NEW t \in SUBSET T, NEW x \in t,
         NEW plan \in Plans(T), Planned(t \ {x}, plan)
  PROVE  Planned(t, Place(plan, x))
<1> DEFINE p == Place(plan, x)
           n == Minutes(x.task)
<1>1. Timed(t) /\ Timed(t \ {x}) /\ x \in T /\ n \in Nat BY DEF Timed
<1>2. Placed(plan, x, p) /\ p \in Plans(T) BY <1>1, PlaceFacts
<1>3. Day(t \ {x}, plan.sat) /\ Day(t \ {x}, plan.sun) BY DEF PlanFits, Planned
<1>4. WeekendLimit \in Nat /\ Free(booked[1]) \in Nat /\ Free(booked[2]) \in Nat BY FreeType DEF PlannerAssumption
<1>5. /\ Day(t, plan.sat) /\ Day(t, Append(plan.sat, x)) /\ Len(Append(plan.sat, x)) = Len(plan.sat) + 1
      /\ \A k \in 1..Len(plan.sat) : Append(plan.sat, x)[k] = plan.sat[k]
      /\ Append(plan.sat, x)[Len(plan.sat) + 1] = x
      /\ Spent(Append(plan.sat, x)) = Spent(plan.sat) + n
  BY <1>1, <1>3, DayMore
<1>6. /\ Day(t, plan.sun) /\ Day(t, Append(plan.sun, x)) /\ Len(Append(plan.sun, x)) = Len(plan.sun) + 1
      /\ \A k \in 1..Len(plan.sun) : Append(plan.sun, x)[k] = plan.sun[k]
      /\ Append(plan.sun, x)[Len(plan.sun) + 1] = x
      /\ Spent(Append(plan.sun, x)) = Spent(plan.sun) + n
  BY <1>1, <1>3, DayMore
<1>7. /\ Len(plan.sat) \in Nat /\ (\A k \in 1..Len(plan.sat) : plan.sat[k] # x) /\ Spent(plan.sat) \in Nat
      /\ Len(plan.sun) \in Nat /\ (\A k \in 1..Len(plan.sun) : plan.sun[k] # x) /\ Spent(plan.sun) \in Nat
  <2>1. \A k \in 1..Len(plan.sat) : plan.sat[k] \in t \ {x} BY <1>1, <1>3, DayFacts
  <2>2. \A k \in 1..Len(plan.sun) : plan.sun[k] \in t \ {x} BY <1>1, <1>3, DayFacts
  <2> QED BY <1>1, <1>3, <2>1, <2>2, DayFacts
<1>8. plan.overflow \in Seq(T) /\ p.overflow \in Seq(T) BY <1>2 DEF Plans, Plannings
<1>9. \A k \in 1..Len(plan.overflow) : Minutes(plan.overflow[k].task) \in Nat BY <1>8 DEF Timed
<1> HIDE DEF p, n
<1>10. ASSUME plan.full, p = plan PROVE Planned(t, p) BY <1>5, <1>6, <1>10 DEF PlanFits, Planned
<1>11. ASSUME OnSaturday(plan, x, p), p.full <=> Len(p.sat) + Len(p.sun) >= WeekendLimit PROVE Planned(t, p)
  <2>1. /\ plan.satUsed = Spent(plan.sat) /\ plan.sunUsed = Spent(plan.sun) /\ plan.sunUsed <= Free(booked[2])
        /\ Len(plan.sat) + Len(plan.sun) < WeekendLimit /\ ApartFrom(plan.sat, plan.sun)
    BY <1>11 DEF PlanFits, Planned, OnSaturday
  <2>2. p.sat = Append(plan.sat, x) /\ p.sun = plan.sun /\ p.satUsed = plan.satUsed + n /\ p.sunUsed = plan.sunUsed
        /\ p.overflow = plan.overflow /\ p.satUsed <= Free(booked[1])
    BY <1>11 DEF OnSaturday, n
  <2>3. Len(p.sat) + Len(p.sun) <= WeekendLimit /\ (~p.full => Len(p.sat) + Len(p.sun) < WeekendLimit)
    <3>1. Len(p.sat) = Len(plan.sat) + 1 /\ Len(p.sun) = Len(plan.sun) BY <1>5, <2>2
    <3> QED BY <1>4, <1>7, <1>11, <2>1, <3>1, RoomLeft, Zenon
  <2>4. ApartFrom(p.sat, p.sun)
    <3>1. ASSUME NEW i \in 1..Len(plan.sat) + 1, NEW j \in 1..Len(plan.sun) PROVE Append(plan.sat, x)[i] # plan.sun[j]
      <4>1. i \in 1..Len(plan.sat) \/ i = Len(plan.sat) + 1
        <5> DEFINE c == Len(plan.sat)
        <5>1. c \in Nat /\ i \in 1..c + 1 BY <1>7
        <5> HIDE DEF c
        <5>2. i \in 1..c \/ i = c + 1 BY <5>1
        <5> QED BY <5>2 DEF c
      <4> QED BY <1>5, <1>7, <2>1, <4>1 DEF ApartFrom
    <3> QED BY <1>5, <2>2, <3>1 DEF ApartFrom
  <2>5. ASSUME NEW k \in 1..Len(p.overflow)
        PROVE  /\ p.satUsed + Minutes(p.overflow[k].task) > Free(booked[1])
               /\ p.sunUsed + Minutes(p.overflow[k].task) > Free(booked[2])
    <3> DEFINE y == Minutes(plan.overflow[k].task)
    <3>1. y \in Nat BY <1>9, <2>2
    <3>2. plan.satUsed + y > Free(booked[1]) /\ plan.sunUsed + y > Free(booked[2]) BY <2>2 DEF PlanFits, Planned
    <3> HIDE DEF y
    <3>3. plan.satUsed + n + y > Free(booked[1]) BY <1>1, <1>4, <1>7, <2>1, <3>1, <3>2
    <3> QED BY <2>2, <3>2, <3>3 DEF y
  <2> QED BY <1>5, <1>6, <2>1, <2>2, <2>3, <2>4, <2>5 DEF PlanFits, Planned
<1>12. ASSUME OnSunday(plan, x, p), p.full <=> Len(p.sat) + Len(p.sun) >= WeekendLimit PROVE Planned(t, p)
  <2>1. /\ plan.satUsed = Spent(plan.sat) /\ plan.sunUsed = Spent(plan.sun) /\ plan.satUsed <= Free(booked[1])
        /\ Len(plan.sat) + Len(plan.sun) < WeekendLimit /\ ApartFrom(plan.sat, plan.sun)
    BY <1>12 DEF PlanFits, Planned, OnSunday
  <2>2. p.sun = Append(plan.sun, x) /\ p.sat = plan.sat /\ p.sunUsed = plan.sunUsed + n /\ p.satUsed = plan.satUsed
        /\ p.overflow = plan.overflow /\ p.sunUsed <= Free(booked[2])
    BY <1>12 DEF OnSunday, n
  <2>3. Len(p.sat) + Len(p.sun) <= WeekendLimit /\ (~p.full => Len(p.sat) + Len(p.sun) < WeekendLimit)
    <3>1. Len(p.sun) = Len(plan.sun) + 1 /\ Len(p.sat) = Len(plan.sat) BY <1>6, <2>2
    <3> QED BY <1>4, <1>7, <1>12, <2>1, <3>1, RoomLeft, Zenon
  <2>4. ApartFrom(p.sat, p.sun)
    <3>1. ASSUME NEW i \in 1..Len(plan.sat), NEW j \in 1..Len(plan.sun) + 1 PROVE plan.sat[i] # Append(plan.sun, x)[j]
      <4>1. j \in 1..Len(plan.sun) \/ j = Len(plan.sun) + 1
        <5> DEFINE c == Len(plan.sun)
        <5>1. c \in Nat /\ j \in 1..c + 1 BY <1>7
        <5> HIDE DEF c
        <5>2. j \in 1..c \/ j = c + 1 BY <5>1
        <5> QED BY <5>2 DEF c
      <4> QED BY <1>6, <1>7, <2>1, <4>1 DEF ApartFrom
    <3> QED BY <1>6, <2>2, <3>1 DEF ApartFrom
  <2>5. ASSUME NEW k \in 1..Len(p.overflow)
        PROVE  /\ p.satUsed + Minutes(p.overflow[k].task) > Free(booked[1])
               /\ p.sunUsed + Minutes(p.overflow[k].task) > Free(booked[2])
    <3> DEFINE y == Minutes(plan.overflow[k].task)
    <3>1. y \in Nat BY <1>9, <2>2
    <3>2. plan.satUsed + y > Free(booked[1]) /\ plan.sunUsed + y > Free(booked[2]) BY <2>2 DEF PlanFits, Planned
    <3> HIDE DEF y
    <3>3. plan.sunUsed + n + y > Free(booked[2]) BY <1>1, <1>4, <1>7, <2>1, <3>1, <3>2
    <3> QED BY <2>2, <3>2, <3>3 DEF y
  <2> QED BY <1>5, <1>6, <2>1, <2>2, <2>3, <2>4, <2>5 DEF PlanFits, Planned
<1>13. ASSUME OnNeither(plan, x, p), p.full <=> Len(p.sat) + Len(p.sun) >= WeekendLimit PROVE Planned(t, p)
  <2>1. /\ plan.satUsed = Spent(plan.sat) /\ plan.sunUsed = Spent(plan.sun)
        /\ plan.satUsed <= Free(booked[1]) /\ plan.sunUsed <= Free(booked[2])
        /\ Len(plan.sat) + Len(plan.sun) < WeekendLimit /\ ApartFrom(plan.sat, plan.sun)
    BY <1>13 DEF PlanFits, Planned, OnNeither
  <2>2. /\ p.sat = plan.sat /\ p.sun = plan.sun /\ p.satUsed = plan.satUsed /\ p.sunUsed = plan.sunUsed
        /\ p.overflow = Append(plan.overflow, x)
        /\ plan.satUsed + n > Free(booked[1]) /\ plan.sunUsed + n > Free(booked[2])
    BY <1>13 DEF OnNeither, n
  <2>3. Len(p.sat) + Len(p.sun) <= WeekendLimit /\ (~p.full => Len(p.sat) + Len(p.sun) < WeekendLimit)
    BY <1>4, <1>7, <2>1, <2>2, RoomLeft, Zenon
  <2>4. ASSUME NEW k \in 1..Len(p.overflow)
        PROVE  /\ p.satUsed + Minutes(p.overflow[k].task) > Free(booked[1])
               /\ p.sunUsed + Minutes(p.overflow[k].task) > Free(booked[2])
    <3>1. \/ k \in 1..Len(plan.overflow) /\ p.overflow[k] = plan.overflow[k]
          \/ p.overflow[k] = x
      BY <1>1, <1>8, <2>2
    <3>2. CASE p.overflow[k] = x BY <2>2, <3>2 DEF n
    <3>3. CASE k \in 1..Len(plan.overflow) /\ p.overflow[k] = plan.overflow[k] BY <2>2, <3>3 DEF PlanFits, Planned
    <3> QED BY <3>1, <3>2, <3>3
  <2> QED BY <1>5, <1>6, <2>1, <2>2, <2>3, <2>4 DEF PlanFits, Planned
<1>14. Planned(t, p) BY <1>2, <1>10, <1>11, <1>12, <1>13, Zenon DEF Placed
<1> QED BY <1>14 DEF p

\* The tasks the weekend's loop goes through.
Weekenders == ShownOf(RankTasks(taskList, TRUE), 2 * WeekendLimit)

LEMMA WeekendersFacts ==
  ASSUME PlannerAssumption, PlannerTypeOK
  PROVE  /\ IsFiniteSet(Weekenders) /\ Timed(Weekenders)
         /\ \A t \in SUBSET Weekenders : t # {} => LastOf(t) \in t
         /\ WeekendLimit = 0 => Weekenders = {}
<1> DEFINE R == RankTasks(taskList, TRUE)
           n == 2 * WeekendLimit
           T == Weekenders
<1>1. AllScored(R) /\ Orders(AheadIn(R), R) /\ IsFiniteSet(R) BY RankFacts
<1>2. n \in Nat /\ WeekendLimit \in Nat BY DEF PlannerAssumption
<1>3. R \in SUBSET R OBVIOUS
<1> HIDE DEF R, n
<1>4. T \in SUBSET R /\ IsFiniteSet(T) /\ Cardinality(T) = Min({n, Cardinality(R)})
  <2>1. T = ShownOf(R, n) BY DEF Weekenders, R, n
  <2> HIDE DEF T
  <2> QED BY <1>1, <1>2, <1>3, <2>1, FirstFacts
<1>5. Timed(T)
  <2>1. ASSUME NEW s \in R PROVE Minutes(s.task) \in Nat
    <3>1. s.task.minutes \in Nat /\ DefaultMinutes \in Nat BY <1>1 DEF AllScored, IsScored, IsTask, PlannerAssumption
    <3> QED BY <3>1 DEF Minutes
  <2> QED BY <1>4, <2>1 DEF Timed
<1>6. ASSUME NEW t \in SUBSET T, t # {} PROVE LastOf(t) \in t
  <2>1. t \in SUBSET R BY <1>4
  <2>2. \E x \in t : \A u \in t : u = x \/ <<u, x>> \in AheadIn(R) BY <1>1, <1>6, <2>1, LastExists
  <2>3. \E x \in t : \A u \in t : u = x \/ Ahead(u, x) BY <2>2 DEF AheadIn
  <2> QED BY <2>3 DEF LastOf
<1>7. WeekendLimit = 0 => T = {}
  <2>1. ASSUME WeekendLimit = 0 PROVE T = {}
    <3>1. n = 0 BY <2>1 DEF n
    <3>2. \A s \in R : {u \in R : Ahead(u, s)} \in SUBSET R OBVIOUS
    <3>3. \A s \in R : Cardinality({u \in R : Ahead(u, s)}) \in Nat BY <1>1, <3>2, OrdersParts
    <3>4. T = {s \in R : Cardinality({u \in R : Ahead(u, s)}) < n} BY DEF Weekenders, ShownOf, FirstOf, R, n
    <3> QED BY <3>1, <3>3, <3>4
  <2> QED BY <2>1
<1> QED BY <1>4, <1>5, <1>6, <1>7

\* The loop's iteration.
PlanIter(f) ==
  [t \in SUBSET Weekenders |-> IF t = {} THEN NoPlan ELSE Place(f[t \ {LastOf(t)}], LastOf(t))]

LEMMA NoPlanFits ==
  ASSUME PlannerAssumption, PlannerTypeOK
  PROVE  NoPlan \in Plans(Weekenders) /\ PlanFits({}, NoPlan) /\ (WeekendLimit > 0 => Planned({}, NoPlan))
<1>1. NoPlan \in Plans(Weekenders)
  <2>1. \A Q : <<>> \in Q => NoPlan \in Plannings(Q) BY DEF NoPlan, Plannings
  <2>2. <<>> \in Seq(Weekenders) OBVIOUS
  <2> QED BY <2>1, <2>2 DEF Plans
<1>2. NoPlan.sat = <<>> /\ NoPlan.sun = <<>> /\ NoPlan.overflow = <<>> /\ NoPlan.satUsed = 0 /\ NoPlan.sunUsed = 0
  BY DEF NoPlan
<1>3. Day({}, <<>>) BY DEF Day, IsInjective
<1>4. Timed({}) BY DEF Timed
<1>5. Spent(<<>>) = 0 BY <1>3, <1>4, DayFacts
<1>6. Free(booked[1]) \in Nat /\ Free(booked[2]) \in Nat /\ WeekendLimit \in Nat BY FreeType DEF PlannerAssumption
<1>7. 0 <= Free(booked[1]) /\ 0 <= Free(booked[2]) /\ Len(<<>>) = 0 /\ 1..0 = {} BY <1>6
<1> HIDE DEF NoPlan
<1>8. ApartFrom(<<>>, <<>>) BY <1>7 DEF ApartFrom
<1>9. Len(NoPlan.sat) + Len(NoPlan.sun) = 0 BY <1>2, <1>7
<1>10. PlanFits({}, NoPlan)
  <2>0. 0 <= WeekendLimit BY <1>6
  <2>1. Len(NoPlan.sat) + Len(NoPlan.sun) <= WeekendLimit BY <1>9, <2>0, Zenon
  <2> QED BY <1>2, <1>3, <1>5, <1>7, <1>8, <2>1 DEF PlanFits
<1>11. WeekendLimit > 0 => Len(NoPlan.sat) + Len(NoPlan.sun) < WeekendLimit BY <1>6, <1>9
<1> QED BY <1>1, <1>10, <1>11 DEF Planned

LEMMA PlanIterExists ==
  ASSUME PlannerAssumption, PlannerTypeOK
  PROVE  \E f \in [SUBSET Weekenders -> Plans(Weekenders)] : f = PlanIter(f)
<1> DEFINE T == Weekenders
           A == Plans(T)
           step == [s \in T |-> [p \in A |-> Place(p, s)]]
           c == [t \in (SUBSET T) \ {{}} |-> LastOf(t)]
<1>1. IsFiniteSet(T) /\ Timed(T) /\ \A t \in SUBSET T : t # {} => LastOf(t) \in t BY WeekendersFacts
<1>2. NoPlan \in A BY NoPlanFits
<1>3. step \in [T -> [A -> A]]
  <2>1. \A s \in T : \A p \in A : Place(p, s) \in A BY <1>1, PlaceFacts
  <2> HIDE DEF T, A
  <2> QED BY <2>1
<1>4. \A t \in (SUBSET T) \ {{}} : c[t] = LastOf(t) /\ c[t] \in t BY <1>1
<1>5. c \in [(SUBSET T) \ {{}} -> T] BY <1>4
<1> HIDE DEF T, A, step, c
<1>6. PICK f \in [SUBSET T -> A] : Folds(f, T, NoPlan, step, c) 
  <2>1. \A t \in (SUBSET T) \ {{}} : c[t] \in t BY <1>4
  <2>2. IsFiniteSet(T) BY <1>1
  <2> QED BY <1>2, <1>3, <1>5, <2>1, <2>2, FoldExists
<1>7. ASSUME NEW t \in SUBSET T PROVE f[t] = IF t = {} THEN NoPlan ELSE Place(f[t \ {LastOf(t)}], LastOf(t))
  <2>1. CASE t = {} BY <1>6, <2>1 DEF Folds
  <2>2. CASE t # {}
    <3>1. t \in (SUBSET T) \ {{}} BY <2>2
    <3>2. f[t] = step[c[t]][f[t \ {c[t]}]] BY <1>6, <2>2 DEF Folds
    <3>3. c[t] = LastOf(t) /\ LastOf(t) \in T BY <1>4, <3>1
    <3>4. f[t \ {LastOf(t)}] \in A BY <1>6
    <3>5. step[LastOf(t)][f[t \ {LastOf(t)}]] = Place(f[t \ {LastOf(t)}], LastOf(t)) BY <3>3, <3>4 DEF step
    <3> QED BY <2>2, <3>2, <3>3, <3>5
  <2> QED BY <2>1, <2>2
<1>8. f = [t \in SUBSET T |-> f[t]] BY <1>6
<1>9. f = PlanIter(f) BY <1>7, <1>8 DEF PlanIter, T
<1> QED BY <1>6, <1>9 DEF T, A

\* WeekendPlan is what the loop has after its last task.
LEMMA PlanFacts ==
  ASSUME PlannerAssumption, PlannerTypeOK
  PROVE  PlanFits(Weekenders, WeekendPlan(taskList)) /\ WeekendPlan(taskList) \in Plans(Weekenders)
<1> DEFINE T == Weekenders
           f == CHOOSE g : g = PlanIter(g)
           Jt(g) == [t \in SUBSET T |-> IF t = {} THEN NoPlan ELSE Place(g[t \ {LastOf(t)}], LastOf(t))]
<1>1. WeekendPlan(taskList) = f[T]
  <2>1. WeekendPlan(taskList) = (CHOOSE g : g = Jt(g))[T] BY DEF WeekendPlan, MapThenFoldSet, Weekenders
  <2>2. \A g : Jt(g) = PlanIter(g) BY DEF PlanIter
  <2>3. (CHOOSE g : g = Jt(g)) = f
    <3> HIDE DEF Jt
    <3> QED BY <2>2
  <2> QED BY <2>1, <2>3
<1>2. f = PlanIter(f) BY PlanIterExists
<1> HIDE DEF f
<1>3. f[{}] = NoPlan /\ \A t \in SUBSET T : t # {} => f[t] = Place(f[t \ {LastOf(t)}], LastOf(t)) BY <1>2 DEF PlanIter
<1>4. IsFiniteSet(T) /\ Timed(T) /\ (\A t \in SUBSET T : t # {} => LastOf(t) \in t) /\ (WeekendLimit = 0 => T = {})
  BY WeekendersFacts
<1>5. NoPlan \in Plans(T) /\ PlanFits({}, NoPlan) /\ (WeekendLimit > 0 => Planned({}, NoPlan)) BY NoPlanFits
<1>6. WeekendLimit = 0 \/ WeekendLimit > 0 BY DEF PlannerAssumption
<1> HIDE DEF T
<1>7. CASE WeekendLimit = 0 BY <1>1, <1>3, <1>4, <1>5, <1>7 DEF T
<1>8. CASE WeekendLimit > 0
  <2> DEFINE P == {t \in SUBSET T : f[t] \in Plans(T) /\ Planned(t, f[t])}
  <2>1. {} \in P BY <1>3, <1>5, <1>8
  <2>2. ASSUME NEW t \in SUBSET T, t # {} PROVE \E x \in t : t \ {x} \in P => t \in P
    <3> DEFINE x == LastOf(t)
    <3>1. x \in t /\ x \in T BY <1>4, <2>2
    <3>2. f[t] = Place(f[t \ {x}], x) BY <1>3, <2>2
    <3> HIDE DEF x
    <3>3. ASSUME t \ {x} \in P PROVE t \in P
      <4>1. f[t \ {x}] \in Plans(T) /\ Planned(t \ {x}, f[t \ {x}]) BY <3>3
      <4>2. Place(f[t \ {x}], x) \in Plans(T) BY <1>4, <3>1, <4>1, PlaceFacts
      <4>3. Planned(t, Place(f[t \ {x}], x)) BY <1>4, <3>1, <4>1, PlannedMore
      <4> QED BY <3>2, <4>2, <4>3
    <3> HIDE DEF P
    <3> QED BY <3>1, <3>3
  <2>3. SUBSET T \subseteq P
    <3> HIDE DEF P
    <3> QED BY <1>4, <2>1, <2>2, SubsetInduction
  <2>4. T \in P BY <2>3
  <2> QED BY <1>1, <2>4 DEF Planned, T
<1> QED BY <1>6, <1>7, <1>8

\* The plan when the loop has ended.
LEMMA WeekendAlwaysFits ==
  ASSUME PlannerAssumption, PlannerTypeOK
  PROVE  WeekendFits
<1> DEFINE plan == WeekendPlan(taskList)
           Total(day) == FoldLeft(LAMBDA x, y : x + y, 0, [k \in DOMAIN day |-> Minutes(day[k].task)])
<1>1. PlanFits(Weekenders, plan) /\ plan \in Plans(Weekenders) /\ Timed(Weekenders) BY PlanFacts, WeekendersFacts
<1>2. plan.sat \in Seq(Weekenders) /\ plan.sun \in Seq(Weekenders) /\ plan.overflow \in Seq(Weekenders)
  BY <1>1 DEF Plans, Plannings
<1> HIDE DEF plan
<1>3. Total(plan.sat) = plan.satUsed /\ Total(plan.sun) = plan.sunUsed BY <1>1 DEF PlanFits, Spent
<1> HIDE DEF Total
<1>4. Total(plan.sat) <= Free(booked[1]) /\ Total(plan.sun) <= Free(booked[2])
      /\ Len(plan.sat) + Len(plan.sun) <= WeekendLimit
  BY <1>1, <1>3 DEF PlanFits
<1>5. ASSUME NEW s \in ToSet(plan.overflow)
      PROVE  /\ Total(plan.sat) + Minutes(s.task) > Free(booked[1])
             /\ Total(plan.sun) + Minutes(s.task) > Free(booked[2])
  <2>1. PICK k \in 1..Len(plan.overflow) : s = plan.overflow[k] BY <1>2, <1>5 DEF ToSet
  <2> QED BY <1>1, <1>3, <2>1 DEF PlanFits
<1>6. IsInjective(plan.sat \o plan.sun)
  <2> DEFINE a == plan.sat
             b == plan.sun
             l == Len(plan.sat)
             m == Len(plan.sun)
             q == a \o b
  <2>1. Day(Weekenders, a) /\ Day(Weekenders, b) /\ ApartFrom(a, b) BY <1>1 DEF PlanFits
  <2>2. l \in Nat /\ m \in Nat /\ DOMAIN a = 1..l /\ DOMAIN b = 1..m BY <1>1, <2>1, DayFacts
  <2>3. /\ DOMAIN q = 1..l + m /\ \A i \in 1..l : q[i] = a[i]
        /\ \A i \in 1..l + m : i \notin 1..l => q[i] = b[i - l]
    <3>1. q \in Seq(Weekenders) /\ Len(q) = l + m
          /\ \A i \in 1..l + m : q[i] = IF i <= l THEN a[i] ELSE b[i - l]
      BY <1>2, ConcatProperties
    <3>2. DOMAIN q = 1..l + m BY <3>1
    <3> HIDE DEF q, a, b, l, m
    <3>3. (\A i \in 1..l : i \in 1..l + m /\ i <= l) /\ (\A i \in 1..l + m : i \notin 1..l => ~(i <= l)) BY <2>2
    <3> QED BY <3>1, <3>2, <3>3
  <2>4. \A i, j \in 1..l : a[i] = a[j] => i = j BY <2>1, <2>2 DEF Day, IsInjective
  <2>5. \A i, j \in 1..m : b[i] = b[j] => i = j BY <2>1, <2>2 DEF Day, IsInjective
  <2>6. \A i \in 1..l, j \in 1..m : a[i] # b[j] BY <2>1 DEF ApartFrom
  <2> HIDE DEF a, b, l, m, q
  <2>7. ASSUME NEW i \in 1..l + m, NEW j \in 1..l + m, q[i] = q[j] PROVE i = j
    <3>1. \A k \in 1..l + m : k \notin 1..l => k - l \in 1..m BY <2>2
    <3>2. CASE i \in 1..l /\ j \in 1..l BY <2>3, <2>4, <2>7, <3>2
    <3>3. CASE i \in 1..l /\ j \notin 1..l BY <2>3, <2>6, <2>7, <3>1, <3>3
    <3>4. CASE i \notin 1..l /\ j \in 1..l BY <2>3, <2>6, <2>7, <3>1, <3>4
    <3>5. CASE i \notin 1..l /\ j \notin 1..l
      <4>1. q[i] = b[i - l] /\ q[j] = b[j - l] /\ i - l \in 1..m /\ j - l \in 1..m BY <2>3, <3>1, <3>5
      <4>2. i - l = j - l BY <2>5, <2>7, <4>1
      <4> QED BY <2>2, <4>2
    <3> QED BY <3>2, <3>3, <3>4, <3>5
  <2> QED BY <2>3, <2>7 DEF IsInjective, q, a, b
<1> QED BY <1>4, <1>5, <1>6 DEF WeekendFits, plan, Total

\* brain/planner.py: whatever tasks a digest is built of and whatever is booked on the
\* weekend, no task is in two sections, a section shows the first of its tasks, none is
\* lost but for room, and neither day of the weekend holds more than is free.
THEOREM PlansAlwaysConsistent == PlannerSpec => []PlansAreConsistent
<1>1. PlannerTypeOK => PlansAreConsistent
  BY PlannerAssumption, DigestConsistent, WeekendAlwaysFits DEF PlansAreConsistent
<1> QED BY <1>1, PlannerTypeCorrect, PTL
==============================================================================
