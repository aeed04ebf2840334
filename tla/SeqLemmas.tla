----------------------------- MODULE SeqLemmas -----------------------------
(***************************************************************************)
(* Lemmas about the sequence operators the models are built from, used by  *)
(* the proof modules.  A sequence here mostly stands for a linked list, in *)
(* which no element occurs twice, or for the call stack.                   *)
(***************************************************************************)
EXTENDS Integers, Sequences, SequencesExt, SequenceTheorems, FiniteSetTheorems,
        WellFoundedInduction, TLAPS

-----------------------------------------------------------------------------
(* Sequences without repetitions.                                           *)

\* Removing an element that a sequence without repetitions holds once takes out
\* exactly that element and keeps the order of the others.
LEMMA RemoveFirstProperties ==
  ASSUME NEW S, NEW s \in Seq(S), IsInjective(s), NEW k \in 1 .. Len(s)
  PROVE  /\ RemoveFirst(s, s[k]) \in Seq(S)
         /\ Len(RemoveFirst(s, s[k])) = Len(s) - 1
         /\ \A i \in 1 .. Len(s) - 1 :
              RemoveFirst(s, s[k])[i] = IF i < k THEN s[i] ELSE s[i + 1]
<1>1. SelectInSeq(s, LAMBDA v : v = s[k]) = k
  <2> DEFINE I == {i \in 1 .. Len(s) : s[i] = s[k]}
  <2>1. I = {k}
    BY DEF IsInjective
  <2>2. Min({k}) = k
    BY DEF Min
  <2>. QED BY <2>1, <2>2 DEF SelectInSeq
<1>2. RemoveFirst(s, s[k]) = SubSeq(s, 1, k - 1) \o SubSeq(s, k + 1, Len(s))
  BY <1>1 DEF RemoveFirst, RemoveAt
<1> DEFINE l == SubSeq(s, 1, k - 1)
           r == SubSeq(s, k + 1, Len(s))
<1>3. Len(s) \in Nat /\ k \in Int /\ \A i \in 1 .. Len(s) : s[i] \in S
  BY LenProperties, ElementOfSeq
<1>4. l \in Seq(S) /\ Len(l) = k - 1 /\ \A i \in 1 .. k - 1 : l[i] = s[i]
  BY <1>3
<1>5. r \in Seq(S) /\ Len(r) = Len(s) - k /\ \A i \in 1 .. Len(s) - k : r[i] = s[k + i]
  BY <1>3
<1> HIDE DEF l, r
<1>6. /\ l \o r \in Seq(S)
      /\ Len(l \o r) = Len(s) - 1
      /\ \A i \in 1 .. Len(s) - 1 :
           (l \o r)[i] = IF i <= k - 1 THEN l[i] ELSE r[i - (k - 1)]
  BY <1>3, <1>4, <1>5, ConcatProperties
<1>7. ASSUME NEW i \in 1 .. Len(s) - 1
      PROVE  (l \o r)[i] = IF i < k THEN s[i] ELSE s[i + 1]
  <2>1. CASE i < k
    BY <2>1, <1>3, <1>4, <1>6
  <2>2. CASE ~(i < k)
    <3>1. i - (k - 1) \in 1 .. Len(s) - k
      BY <2>2, <1>3
    <3>2. r[i - (k - 1)] = s[k + (i - (k - 1))]
      BY <3>1, <1>5
    <3>3. k + (i - (k - 1)) = i + 1
      BY <1>3
    <3>. QED BY <3>2, <3>3, <2>2, <1>3, <1>6
  <2>. QED BY <2>1, <2>2
<1>. QED BY <1>2, <1>6, <1>7 DEF l, r

\* The same, as sets: the element leaves, the others stay, and none is repeated.
LEMMA RemoveFirstSet ==
  ASSUME NEW S, NEW s \in Seq(S), IsInjective(s), NEW e \in ToSet(s)
  PROVE  /\ RemoveFirst(s, e) \in Seq(S)
         /\ IsInjective(RemoveFirst(s, e))
         /\ ToSet(RemoveFirst(s, e)) = ToSet(s) \ {e}
<1>1. PICK k \in 1 .. Len(s) : e = s[k]
  BY LenProperties DEF ToSet
<1> DEFINE t == RemoveFirst(s, e)
<1>2. /\ t \in Seq(S)
      /\ Len(t) = Len(s) - 1
      /\ \A i \in 1 .. Len(s) - 1 : t[i] = IF i < k THEN s[i] ELSE s[i + 1]
  BY <1>1, RemoveFirstProperties
<1>3. DOMAIN s = 1 .. Len(s) /\ DOMAIN t = 1 .. Len(s) - 1 /\ Len(s) \in Nat
  BY <1>2, LenProperties
<1>4. \A i, j \in 1 .. Len(s) : s[i] = s[j] => i = j
  BY <1>3 DEF IsInjective
<1> HIDE DEF t
<1>5. IsInjective(t)
  BY <1>2, <1>3, <1>4 DEF IsInjective
<1>6. ASSUME NEW x \in ToSet(t) PROVE x \in ToSet(s) \ {e}
  <2>1. PICK i \in 1 .. Len(s) - 1 : x = t[i]
    BY <1>3 DEF ToSet
  <2>2. PICK j \in 1 .. Len(s) : j # k /\ x = s[j]
    BY <2>1, <1>2, <1>3
  <2>. QED BY <2>2, <1>1, <1>3, <1>4 DEF ToSet
<1>7. ASSUME NEW x \in ToSet(s) \ {e} PROVE x \in ToSet(t)
  <2>1. PICK j \in 1 .. Len(s) : x = s[j] /\ j # k
    BY <1>1, <1>3 DEF ToSet
  <2>2. PICK i \in 1 .. Len(s) - 1 : t[i] = s[j]
    <3>1. CASE j < k
      BY <3>1, <1>2, <1>3
    <3>2. CASE j > k
      <4>1. j - 1 \in 1 .. Len(s) - 1 /\ t[j - 1] = s[j]
        BY <3>2, <1>2, <1>3
      <4>. QED BY <4>1
    <3>. QED BY <3>1, <3>2, <2>1, <1>3
  <2>. QED BY <2>1, <2>2, <1>3 DEF ToSet
<1>. QED BY <1>2, <1>5, <1>6, <1>7 DEF t

\* Appending an element that the sequence does not hold.
LEMMA AppendSet ==
  ASSUME NEW S, NEW s \in Seq(S), IsInjective(s), NEW e \in S, e \notin ToSet(s)
  PROVE  /\ Append(s, e) \in Seq(S)
         /\ IsInjective(Append(s, e))
         /\ ToSet(Append(s, e)) = ToSet(s) \union {e}
<1>1. /\ Append(s, e) \in Seq(S)
      /\ Len(Append(s, e)) = Len(s) + 1
      /\ \A i \in 1 .. Len(s) : Append(s, e)[i] = s[i]
      /\ Append(s, e)[Len(s) + 1] = e
  BY AppendProperties
<1>2. DOMAIN s = 1 .. Len(s) /\ DOMAIN Append(s, e) = 1 .. Len(s) + 1 /\ Len(s) \in Nat
  BY <1>1, LenProperties
<1>3. \A i \in 1 .. Len(s) : s[i] # e
  BY <1>2 DEF ToSet
<1>4. IsInjective(Append(s, e))
  BY <1>1, <1>2, <1>3 DEF IsInjective
<1>5. ToSet(Append(s, e)) = ToSet(s) \union {e}
  BY <1>1, <1>2 DEF ToSet
<1>. QED BY <1>1, <1>4, <1>5

\* An element that was appended is the one removed again.
LEMMA RemoveAppended ==
  ASSUME NEW S, NEW s \in Seq(S), IsInjective(s), NEW e \in S, e \notin ToSet(s)
  PROVE  RemoveFirst(Append(s, e), e) = s
<1> DEFINE t == Append(s, e)
           u == RemoveFirst(t, e)
<1>1. /\ t \in Seq(S) /\ Len(t) = Len(s) + 1 /\ t[Len(s) + 1] = e
      /\ \A i \in 1 .. Len(s) : t[i] = s[i]
      /\ Len(s) \in Nat /\ IsInjective(t)
  BY AppendProperties, AppendSet, LenProperties
<1> HIDE DEF t
<1>2. /\ u \in Seq(S) /\ Len(u) = Len(s)
      /\ \A i \in 1 .. Len(s) : u[i] = s[i]
  <2>1. Len(t) \in 1 .. Len(t) /\ e = t[Len(t)]
    BY <1>1
  <2>2. /\ u \in Seq(S) /\ Len(u) = Len(t) - 1
        /\ \A i \in 1 .. Len(t) - 1 : u[i] = IF i < Len(t) THEN t[i] ELSE t[i + 1]
    BY ZenonT(30), <1>1, <2>1, RemoveFirstProperties
  <2>. QED BY <1>1, <2>2
<1> HIDE DEF u
<1>3. u = s
  BY <1>2, SeqEqual
<1>. QED BY <1>3 DEF u, t

\* Putting an element that the sequence does not hold in front of it, and taking
\* the front element away.
LEMMA PrependSet ==
  ASSUME NEW S, NEW s \in Seq(S), IsInjective(s), NEW e \in S, e \notin ToSet(s)
  PROVE  /\ <<e>> \o s \in Seq(S)
         /\ IsInjective(<<e>> \o s)
         /\ ToSet(<<e>> \o s) = ToSet(s) \union {e}
<1> DEFINE t == <<e>> \o s
<1>1. /\ t \in Seq(S)
      /\ Len(t) = Len(s) + 1
      /\ t[1] = e
      /\ \A i \in 2 .. Len(s) + 1 : t[i] = s[i - 1]
  OBVIOUS
<1>2. DOMAIN s = 1 .. Len(s) /\ DOMAIN t = 1 .. Len(s) + 1 /\ Len(s) \in Nat
  BY <1>1, LenProperties
<1>3. \A i \in 1 .. Len(s) : s[i] # e
  BY <1>2 DEF ToSet
<1>4. \A i, j \in 1 .. Len(s) : s[i] = s[j] => i = j
  BY <1>2 DEF IsInjective
<1> HIDE DEF t
<1>5. IsInjective(t)
  BY <1>1, <1>2, <1>3, <1>4 DEF IsInjective
<1>6. \A x \in ToSet(t) : x \in ToSet(s) \union {e}
  BY <1>1, <1>2 DEF ToSet
<1>7. ASSUME NEW x \in ToSet(s) PROVE x \in ToSet(t)
  <2>1. PICK i \in 1 .. Len(s) : x = s[i]
    BY <1>2 DEF ToSet
  <2>2. i + 1 \in 1 .. Len(s) + 1 /\ t[i + 1] = x
    BY <2>1, <1>1, <1>2
  <2>. QED BY <2>2, <1>2 DEF ToSet
<1>8. e \in ToSet(t)
  BY <1>1, <1>2 DEF ToSet
<1>. QED BY <1>1, <1>5, <1>6, <1>7, <1>8 DEF t

\* The elements of the tail are the others than the head.
LEMMA TailSet ==
  ASSUME NEW S, NEW s \in Seq(S), IsInjective(s), s # <<>>
  PROVE  /\ Tail(s) \in Seq(S)
         /\ IsInjective(Tail(s))
         /\ ToSet(Tail(s)) = ToSet(s) \ {Head(s)}
         /\ Head(s) \in ToSet(s)
         /\ Head(s) \in S
<1>1. /\ Tail(s) \in Seq(S)
      /\ Len(Tail(s)) = Len(s) - 1
      /\ \A i \in 1 .. Len(s) - 1 : Tail(s)[i] = s[i + 1]
      /\ Head(s) = s[1]
      /\ Len(s) \in Nat /\ Len(s) >= 1
  BY HeadTailProperties, LenProperties
<1>2. DOMAIN s = 1 .. Len(s) /\ DOMAIN Tail(s) = 1 .. Len(s) - 1
  BY <1>1, LenProperties
<1>3. \A i, j \in 1 .. Len(s) : s[i] = s[j] => i = j
  BY <1>2 DEF IsInjective
<1>4. IsInjective(Tail(s))
  BY <1>1, <1>2, <1>3 DEF IsInjective
<1>5. \A x \in ToSet(Tail(s)) : x \in ToSet(s) \ {Head(s)}
  <2>. TAKE x \in ToSet(Tail(s))
  <2>1. PICK i \in 1 .. Len(s) - 1 : x = s[i + 1]
    BY <1>1, <1>2 DEF ToSet
  <2>2. s[i + 1] # s[1]
    BY <1>1, <1>3
  <2>. QED BY <2>1, <2>2, <1>1, <1>2 DEF ToSet
<1>6. ASSUME NEW x \in ToSet(s) \ {Head(s)} PROVE x \in ToSet(Tail(s))
  <2>1. PICK i \in 1 .. Len(s) : x = s[i]
    BY <1>2 DEF ToSet
  <2>2. i - 1 \in 1 .. Len(s) - 1 /\ Tail(s)[i - 1] = x
    BY <2>1, <1>1
  <2>. QED BY <2>2, <1>2 DEF ToSet
<1>7. Head(s) \in ToSet(s) /\ Head(s) \in S
  BY <1>1, <1>2 DEF ToSet
<1>. QED BY <1>1, <1>4, <1>5, <1>6, <1>7

-----------------------------------------------------------------------------
(* The call stack, whose top is the last element.                           *)

\* The front is the sequence without its last element.
LEMMA FrontProperties ==
  ASSUME NEW S, NEW s \in Seq(S), s # <<>>
  PROVE  /\ Front(s) \in Seq(S)
         /\ Len(Front(s)) = Len(s) - 1
         /\ \A i \in 1 .. Len(s) - 1 : Front(s)[i] = s[i]
<1>1. Len(s) \in Nat /\ \A i \in 1 .. Len(s) - 1 : s[i] \in S
  BY LenProperties, ElementOfSeq
<1>2. Len(s) >= 1
  BY <1>1, EmptySeq
<1>3. Len(s) - 1 \in Int /\ 1 \in Int /\ (Len(s) - 1) - 1 + 1 = Len(s) - 1
  BY <1>1
<1>4. SubSeq(s, 1, Len(s) - 1) \in Seq(S)
  BY <1>1, <1>3, SubSeqProperties
<1>5. Len(SubSeq(s, 1, Len(s) - 1)) = Len(s) - 1
  <2> DEFINE n == Len(s)
             t == SubSeq(s, 1, Len(s) - 1)
  <2>1. Len(t) = IF 1 <= n - 1 THEN (n - 1) - 1 + 1 ELSE 0
    BY <1>1, <1>3, SubSeqProperties
  <2>2. n \in Nat /\ n >= 1
    BY <1>1, <1>2
  <2> HIDE DEF n, t
  <2>3. Len(t) = n - 1
    BY <2>1, <2>2
  <2>. QED BY <2>3 DEF n, t
<1>6. \A i \in 1 .. Len(s) - 1 : SubSeq(s, 1, Len(s) - 1)[i] = s[i]
  BY <1>1, <1>2
<1>. QED BY <1>4, <1>5, <1>6 DEF Front

\* The last element is the one at the length.
LEMMA LastProperties ==
  ASSUME NEW S, NEW s \in Seq(S), s # <<>>
  PROVE  Last(s) \in S /\ Last(s) = s[Len(s)] /\ Len(s) \in 1 .. Len(s)
BY EmptySeq, LenProperties, ElementOfSeq DEF Last

-----------------------------------------------------------------------------
(* The greatest of a bounded set of numbers.                                *)

\* The maximum of numbers that are bounded is one of them and none is greater.
LEMMA MaxProperties ==
  ASSUME NEW S \in SUBSET Nat, S # {}, NEW n \in Nat, \A x \in S : x <= n
  PROVE  Max(S) \in S /\ \A x \in S : Max(S) >= x
<1> DEFINE T == {n - x : x \in S}
<1>1. T \subseteq Nat /\ T # {}
  <2>1. \A x \in S : n - x \in Nat
    OBVIOUS
  <2>. QED BY <2>1
<1>2. PICK m \in T : \A y \in T : ~(<<y, m>> \in OpToRel(<, Nat))
  <2> HIDE DEF T
  <2>. QED BY <1>1, NatLessThanWellFounded, WFMin
<1>3. \A y \in T : ~(y < m)
  BY <1>1, <1>2 DEF OpToRel
<1>4. PICK x \in S : m = n - x
  OBVIOUS
<1>5. \A y \in S : x >= y
  BY <1>3, <1>4
<1>. QED BY <1>4, <1>5 DEF Max

\* The empty sequence has no elements.
LEMMA LenOfEmpty == Len(<<>>) = 0
OBVIOUS

-----------------------------------------------------------------------------
(* Induction and folds.  The folds of the community modules are recursive   *)
(* functions over the subsets of a set; what they compute is proved by      *)
(* induction, for a set of numbers and not for a predicate, which would be  *)
(* an operator.                                                             *)

\* Induction over the natural numbers, for a set of numbers.
LEMMA SetInduction ==
  ASSUME NEW S, 0 \in S, \A n \in Nat : n \in S => n + 1 \in S
  PROVE  \A n \in Nat : n \in S
<1> DEFINE T == Nat \ S
<1>. SUFFICES ASSUME T # {} PROVE FALSE
  OBVIOUS
<1>1. PICK m \in T : \A y \in T : ~(<<y, m>> \in OpToRel(<, Nat))
  <2>1. T \subseteq Nat
    OBVIOUS
  <2> HIDE DEF T
  <2>. QED BY <2>1, NatLessThanWellFounded, WFMin
<1>2. m \in Nat /\ m # 0 /\ m - 1 \in Nat /\ (m - 1) + 1 = m /\ m - 1 < m
  OBVIOUS
<1>3. m - 1 \in S
  <2>1. <<m - 1, m>> \in OpToRel(<, Nat)
    BY <1>2 DEF OpToRel
  <2>. QED BY <1>1, <1>2, <2>1
<1>. QED BY <1>2, <1>3

\* What a fold over S with values in V needs: a first value, an element to take out
\* of each set that has one, and the value with that element put back.
Foldable(S, V, base, pick, step) ==
  /\ IsFiniteSet(S) /\ base \in V
  /\ \A s \in SUBSET S : s # {} => pick[s] \in s
  /\ \A x \in S, v \in V : step[<<x, v>>] \in V

\* f is that fold, over S and every subset of it.
FoldsOver(f, S, V, base, pick, step) ==
  /\ f \in [SUBSET S -> V]
  /\ \A s \in SUBSET S :
       f[s] = IF s = {} THEN base ELSE step[<<pick[s], f[s \ {pick[s]}]>>]

\* A fold exists, so that the recursive definition of it defines one.
LEMMA FoldExists ==
  ASSUME NEW S, NEW V, NEW base, NEW pick, NEW step, Foldable(S, V, base, pick, step)
  PROVE  \E f : FoldsOver(f, S, V, base, pick, step)
<1>0. /\ IsFiniteSet(S) /\ base \in V
      /\ \A s \in SUBSET S : s # {} => pick[s] \in s
      /\ \A x \in S, v \in V : step[<<x, v>>] \in V
  BY DEF Foldable
<1> DEFINE Good(f, n) == \A s \in SUBSET S : Cardinality(s) <= n =>
             f[s] = IF s = {} THEN base ELSE step[<<pick[s], f[s \ {pick[s]}]>>]
           N == {n \in Nat : \E f \in [SUBSET S -> V] : Good(f, n)}
<1>1. \A s \in SUBSET S : IsFiniteSet(s) /\ Cardinality(s) \in Nat
                          /\ Cardinality(s) <= Cardinality(S)
  BY <1>0, FS_Subset, FS_CardinalityType
<1>2. 0 \in N
  <2> DEFINE f == [s \in SUBSET S |-> base]
  <2>1. f \in [SUBSET S -> V]
    BY <1>0
  <2>2. \A s \in SUBSET S : Cardinality(s) <= 0 => s = {}
    <3>1. ASSUME NEW s \in SUBSET S, Cardinality(s) <= 0 PROVE s = {}
      <4>1. IsFiniteSet(s) /\ Cardinality(s) \in Nat
        BY <1>1
      <4>2. Cardinality(s) = 0
        BY <3>1, <4>1
      <4>. QED BY <4>1, <4>2, FS_EmptySet
    <3>. QED BY <3>1
  <2>3. Good(f, 0)
    BY <2>2
  <2> HIDE DEF f, Good
  <2>. QED BY <2>1, <2>3
<1>3. ASSUME NEW n \in Nat, n \in N PROVE n + 1 \in N
  <2>1. PICK f \in [SUBSET S -> V] : Good(f, n)
    BY <1>3
  <2> DEFINE Next(s) == IF s = {} THEN base ELSE step[<<pick[s], f[s \ {pick[s]}]>>]
             g == [s \in SUBSET S |-> Next(s)]
  <2>2. g \in [SUBSET S -> V]
    <3>1. ASSUME NEW s \in SUBSET S PROVE Next(s) \in V
      <4>1. CASE s = {}
        BY <1>0, <4>1
      <4>2. CASE s # {}
        <5>1. pick[s] \in S /\ s \ {pick[s]} \in SUBSET S
          BY <1>0, <4>2
        <5>2. f[s \ {pick[s]}] \in V
          BY <5>1
        <5>. QED BY <1>0, <4>2, <5>1, <5>2
      <4>. QED BY <4>1, <4>2
    <3>. QED BY <3>1
  <2>3. \A s \in SUBSET S : Cardinality(s) <= n => g[s] = f[s]
    BY <2>1
  <2>4. ASSUME NEW s \in SUBSET S, Cardinality(s) <= n + 1
        PROVE  g[s] = IF s = {} THEN base ELSE step[<<pick[s], g[s \ {pick[s]}]>>]
    <3>1. CASE s = {}
      BY <3>1
    <3>2. CASE s # {}
      <4>1. PICK t \in SUBSET S : t = s \ {pick[s]}
        OBVIOUS
      <4>2. Cardinality(t) = Cardinality(s) - 1
        BY <1>0, <1>1, <3>2, <4>1, FS_RemoveElement
      <4>3. g[t] = f[t]
        <5>1. Cardinality(t) <= n
          <6>1. Cardinality(s) \in Nat
            BY <1>1
          <6>. QED BY <2>4, <4>2, <6>1
        <5>. QED BY <2>3, <5>1
      <4>. QED BY <3>2, <4>1, <4>3
    <3>. QED BY <3>1, <3>2
  <2> HIDE DEF g
  <2>5. Good(g, n + 1)
    BY <2>4
  <2>6. n + 1 \in Nat
    OBVIOUS
  <2> HIDE DEF Good
  <2>. QED BY <2>2, <2>5, <2>6
<1>4. Cardinality(S) \in N
  <2> HIDE DEF N
  <2>. QED BY <1>1, <1>2, <1>3, SetInduction
<1>5. PICK f \in [SUBSET S -> V] : Good(f, Cardinality(S))
  <2> HIDE DEF Good
  <2>. QED BY <1>4
<1>. QED BY <1>1, <1>5 DEF FoldsOver

\* FoldLeft takes the greatest of the indices 1 .. n out first.
LeftPick(n) == [s \in SUBSET (1 .. n) |-> Max(s)]

\* A left fold over the first n positions takes the greatest position last.
LEMMA LeftPicks ==
  ASSUME NEW n \in Nat, NEW s \in SUBSET (1 .. n), s # {}
  PROVE  Max(s) \in s /\ LeftPick(n)[s] = Max(s)
<1>1. s \in SUBSET Nat /\ \A x \in s : x <= n
  OBVIOUS
<1>2. Max(s) \in s
  BY <1>1, MaxProperties
<1>. QED BY <1>2 DEF LeftPick

\* A left fold whose step stays in V is a function over the sets of positions.
LEMMA LeftFoldExists ==
  ASSUME NEW n \in Nat, NEW V, NEW base, NEW step, base \in V,
         \A i \in 1 .. n, v \in V : step[<<i, v>>] \in V
  PROVE  \E f : FoldsOver(f, 1 .. n, V, base, LeftPick(n), step)
<1> DEFINE pick == LeftPick(n)
<1>1. IsFiniteSet(1 .. n)
  BY FS_Interval
<1>2. \A s \in SUBSET (1 .. n) : s # {} => pick[s] \in s
  BY LeftPicks
<1> HIDE DEF pick
<1>3. Foldable(1 .. n, V, base, pick, step)
  BY <1>1, <1>2 DEF Foldable
<1>. QED BY <1>3, FoldExists DEF pick

\* Seen from the other end, it goes through the indices in their order.
LEMMA LeftLadder ==
  ASSUME NEW k \in Nat \ {0}
  PROVE  1 .. k # {} /\ Max(1 .. k) = k /\ (1 .. k) \ {k} = 1 .. (k - 1)
<1>1. PICK s : s = 1 .. k
  OBVIOUS
<1>2. s \in SUBSET Nat /\ s # {} /\ k \in s /\ \A x \in s : x <= k
  BY <1>1
<1>3. Max(s) \in s /\ Max(s) >= k
  BY <1>2, MaxProperties
<1>. QED BY <1>1, <1>2, <1>3

-----------------------------------------------------------------------------
(* One sequence after the other.                                            *)

\* Flattening appends one sequence after the other to what it has.
LEMMA FlattenLadder ==
  ASSUME NEW S, NEW ss \in Seq(Seq(S))
  PROVE  \E t \in [0 .. Len(ss) -> Seq(S)] :
           /\ t[0] = <<>> /\ FlattenSeq(ss) = t[Len(ss)]
           /\ \A i \in 1 .. Len(ss) : t[i] = t[i - 1] \o ss[i]
<1>1. Len(ss) \in Nat /\ DOMAIN ss = 1 .. Len(ss) /\ \A i \in 1 .. Len(ss) : ss[i] \in Seq(S)
  BY LenProperties, ElementOfSeq
<1>2. <<>> \in Seq(S)
  BY EmptySeq
<1>3. CASE Len(ss) = 0
  <2>1. ss = <<>> /\ FlattenSeq(ss) = ss
    BY <1>3, EmptySeq DEF FlattenSeq
  <2> DEFINE t == [i \in 0 .. 0 |-> <<>>]
  <2>2. t \in [0 .. Len(ss) -> Seq(S)] /\ t[0] = <<>>
    BY <1>2, <1>3
  <2> HIDE DEF t
  <2>. QED BY <1>3, <2>1, <2>2
<1>4. CASE Len(ss) # 0
  <2>1. PICK n \in Nat : n = Len(ss) /\ n # 0
    <3>1. Len(ss) \in Nat /\ Len(ss) # 0
      BY <1>1, <1>4
    <3>. QED BY ONLY <3>1, Zenon
  <2> DEFINE Eq(f) == f = [i \in 1 .. n |-> IF i = 1 THEN ss[i] ELSE f[i - 1] \o ss[i]]
             flatten == CHOOSE f : Eq(f)
             Upto(k, t) == t[0] = <<>> /\ \A i \in 1 .. k : t[i] = t[i - 1] \o ss[i]
             K == {k \in Nat : k <= n => \E t \in [0 .. k -> Seq(S)] : Upto(k, t)}
  <2>3. FlattenSeq(ss) = flatten[n]
    BY <2>1 DEF FlattenSeq
  <2> HIDE DEF flatten
  <2>4. PICK t \in [0 .. n -> Seq(S)] : Upto(n, t)
    <3>1. 0 \in K
      <4> DEFINE u == [i \in 0 .. 0 |-> <<>>]
      <4>1. u \in [0 .. 0 -> Seq(S)] /\ Upto(0, u)
        BY <1>2
      <4> HIDE DEF u, Upto
      <4>. QED BY <4>1
    <3>2. ASSUME NEW k \in Nat, k \in K PROVE k + 1 \in K
      <4>1. SUFFICES ASSUME k + 1 <= n PROVE \E u \in [0 .. (k + 1) -> Seq(S)] : Upto(k + 1, u)
        <5>1. k + 1 \in Nat
          OBVIOUS
        <5> HIDE DEF Upto
        <5>. QED BY <5>1
      <4>2. k <= n /\ k + 1 \in 1 .. n
        BY <4>1, <2>1
      <4>3. PICK v \in [0 .. k -> Seq(S)] : Upto(k, v)
        <5> HIDE DEF Upto
        <5>. QED BY <3>2, <4>2
      <4>4. v[k] \o ss[k + 1] \in Seq(S)
        BY <1>1, <2>1, <4>2, ConcatProperties
      <4> DEFINE u == [i \in 0 .. (k + 1) |-> IF i = k + 1 THEN v[k] \o ss[k + 1] ELSE v[i]]
      <4>5. u \in [0 .. (k + 1) -> Seq(S)]
        <5>1. \A i \in 0 .. (k + 1) : i # k + 1 => i \in 0 .. k
          OBVIOUS
        <5>. QED BY <4>4, <5>1
      <4>6. u[0] = <<>>
        BY <4>3
      <4>7. ASSUME NEW i \in 1 .. (k + 1) PROVE u[i] = u[i - 1] \o ss[i]
        <5>0. \A j \in 0 .. (k + 1) : u[j] = IF j = k + 1 THEN v[k] \o ss[k + 1] ELSE v[j]
          OBVIOUS
        <5> HIDE DEF u
        <5>1. CASE i = k + 1
          <6>1. i - 1 = k /\ i \in 0 .. (k + 1) /\ k \in 0 .. (k + 1) /\ k # k + 1
            BY <5>1
          <6>. QED BY <5>0, <5>1, <6>1
        <5>2. CASE i # k + 1
          <6>1. i \in 1 .. k /\ i \in 0 .. (k + 1) /\ i - 1 \in 0 .. (k + 1) /\ i - 1 # k + 1
            BY <5>2
          <6>2. u[i] = v[i] /\ u[i - 1] = v[i - 1]
            BY <5>0, <5>2, <6>1
          <6>. QED BY <4>3, <6>1, <6>2
        <5>. QED BY <5>1, <5>2
      <4> HIDE DEF u
      <4>. QED BY <4>5, <4>6, <4>7
    <3>3. n \in K
      <4> HIDE DEF K
      <4>. QED BY <3>1, <3>2, SetInduction
    <3> HIDE DEF Upto
    <3>. QED BY <3>3
  <2>5. \A i \in 1 .. n : i - 1 \in 0 .. n /\ t[i - 1] \in Seq(S)
    <3>1. \A i \in 1 .. n : i - 1 \in 0 .. n
      BY <2>1
    <3>. QED BY <3>1
  <2>6. \A i \in 1 .. n : t[i] = t[i - 1] \o ss[i]
    BY <2>4
  <2>7. t[1] = ss[1]
    <3>1. 1 \in 1 .. n /\ 1 - 1 = 0
      BY <2>1
    <3>2. t[1] = <<>> \o ss[1] /\ ss[1] \in Seq(S)
      BY <1>1, <2>1, <2>4, <2>6, <3>1
    <3>. QED BY <3>2, ConcatEmptySeq
  <2>8. \E f : Eq(f)
    <3> DEFINE g == [i \in 1 .. n |-> t[i]]
    <3>1. ASSUME NEW i \in 1 .. n
          PROVE  g[i] = IF i = 1 THEN ss[i] ELSE g[i - 1] \o ss[i]
      <4>1. CASE i = 1
        BY <2>7, <4>1
      <4>2. CASE i # 1
        <5>1. i - 1 \in 1 .. n
          BY <2>1, <4>2
        <5>. QED BY <2>6, <4>2, <5>1
      <4>. QED BY <4>1, <4>2
    <3>2. Eq(g)
      BY <3>1
    <3>. QED BY <3>2
  <2>9. Eq(flatten)
    <3>1. \E f : Eq(f)
      BY <2>8
    <3> HIDE DEF Eq
    <3>. QED BY <3>1 DEF flatten
  <2> DEFINE N == {k \in Nat : k + 1 \in 1 .. n => flatten[k + 1] = t[k + 1]}
  <2>10. 0 \in N
    <3>1. 0 + 1 = 1 /\ 1 \in 1 .. n
      BY <2>1
    <3>. QED BY <2>7, <2>9, <3>1
  <2>11. ASSUME NEW k \in Nat, k \in N PROVE k + 1 \in N
    <3>1. SUFFICES ASSUME (k + 1) + 1 \in 1 .. n PROVE flatten[(k + 1) + 1] = t[(k + 1) + 1]
      OBVIOUS
    <3>2. PICK j \in 1 .. n : j = (k + 1) + 1 /\ j # 1 /\ j - 1 = k + 1 /\ k + 1 \in 1 .. n
      BY <3>1
    <3>3. flatten[k + 1] = t[k + 1]
      BY <2>11, <3>2
    <3>4. flatten[j] = flatten[j - 1] \o ss[j]
      BY <2>9, <3>2
    <3>. QED BY <2>6, <3>2, <3>3, <3>4
  <2> HIDE DEF N
  <2>12. \A k \in Nat : k \in N
    BY <2>10, <2>11, SetInduction
  <2>13. flatten[n] = t[n]
    <3>1. n - 1 \in Nat /\ (n - 1) + 1 = n /\ n \in 1 .. n
      BY <2>1
    <3>. QED BY <2>12, <3>1 DEF N
  <2>. QED BY <2>1, <2>3, <2>4, <2>6, <2>13
<1>. QED BY <1>3, <1>4

\* The elements of a concatenation are those of its parts.
LEMMA ConcatSet ==
  ASSUME NEW S, NEW s \in Seq(S), NEW u \in Seq(S)
  PROVE  s \o u \in Seq(S) /\ ToSet(s \o u) = ToSet(s) \union ToSet(u)
<1>1. /\ s \o u \in Seq(S) /\ Len(s \o u) = Len(s) + Len(u)
      /\ \A i \in 1 .. Len(s) + Len(u) :
           (s \o u)[i] = IF i <= Len(s) THEN s[i] ELSE u[i - Len(s)]
  BY ConcatProperties
<1>2. /\ Len(s) \in Nat /\ DOMAIN s = 1 .. Len(s)
      /\ Len(u) \in Nat /\ DOMAIN u = 1 .. Len(u)
      /\ DOMAIN (s \o u) = 1 .. Len(s) + Len(u)
  BY <1>1, LenProperties
<1> DEFINE v == s \o u
<1>3. ASSUME NEW x \in ToSet(v) PROVE x \in ToSet(s) \union ToSet(u)
  <2>1. PICK i \in 1 .. Len(s) + Len(u) : x = v[i]
    BY <1>2, <1>3 DEF ToSet
  <2>2. CASE i <= Len(s)
    BY <1>1, <1>2, <2>1, <2>2 DEF ToSet
  <2>3. CASE ~(i <= Len(s))
    <3>1. i - Len(s) \in 1 .. Len(u)
      BY <1>2, <2>3
    <3>. QED BY <1>1, <1>2, <2>1, <2>3, <3>1 DEF ToSet
  <2>. QED BY <2>2, <2>3
<1>4. ASSUME NEW i \in 1 .. Len(s) PROVE s[i] \in ToSet(v)
  <2>1. i \in 1 .. Len(s) + Len(u) /\ v[i] = s[i]
    BY <1>1, <1>2
  <2>. QED BY <1>2, <2>1 DEF ToSet
<1>5. ASSUME NEW i \in 1 .. Len(u) PROVE u[i] \in ToSet(v)
  <2>1. /\ i + Len(s) \in 1 .. Len(s) + Len(u) /\ ~(i + Len(s) <= Len(s))
        /\ i + Len(s) - Len(s) = i
    BY <1>2
  <2>2. v[i + Len(s)] = u[i]
    BY <1>1, <2>1
  <2>. QED BY <1>2, <2>1, <2>2 DEF ToSet
<1>6. ToSet(s) \subseteq ToSet(v) /\ ToSet(u) \subseteq ToSet(v)
  <2> HIDE DEF v
  <2>. QED BY <1>2, <1>4, <1>5 DEF ToSet
<1>. QED BY <1>1, <1>3, <1>6

\* The elements of a flattened sequence are those of its parts.
LEMMA FlattenElements ==
  ASSUME NEW S, NEW ss \in Seq(Seq(S))
  PROVE  /\ FlattenSeq(ss) \in Seq(S)
         /\ ToSet(FlattenSeq(ss)) = UNION {ToSet(ss[i]) : i \in 1 .. Len(ss)}
<1>1. PICK t \in [0 .. Len(ss) -> Seq(S)] :
        /\ t[0] = <<>> /\ FlattenSeq(ss) = t[Len(ss)]
        /\ \A i \in 1 .. Len(ss) : t[i] = t[i - 1] \o ss[i]
  BY FlattenLadder
<1>2. Len(ss) \in Nat /\ \A i \in 1 .. Len(ss) : ss[i] \in Seq(S)
  BY LenProperties, ElementOfSeq
<1> DEFINE U(k) == UNION {ToSet(ss[i]) : i \in 1 .. k}
           N == {k \in Nat : k <= Len(ss) => ToSet(t[k]) = U(k)}
<1>3. 0 \in N
  <2>1. 1 .. 0 = {} /\ ToSet(<<>>) = {}
    BY DEF ToSet
  <2>. QED BY <1>1, <2>1
<1>4. ASSUME NEW k \in Nat, k \in N PROVE k + 1 \in N
  <2>1. SUFFICES ASSUME k + 1 <= Len(ss) PROVE ToSet(t[k + 1]) = U(k + 1)
    OBVIOUS
  <2>2. k + 1 \in 1 .. Len(ss) /\ (k + 1) - 1 = k /\ k \in 0 .. Len(ss) /\ k <= Len(ss)
    BY <1>2, <2>1
  <2>3. t[k + 1] = t[k] \o ss[k + 1]
    BY <1>1, <2>2
  <2>4. ToSet(t[k + 1]) = ToSet(t[k]) \union ToSet(ss[k + 1])
    <3>1. t[k] \in Seq(S) /\ ss[k + 1] \in Seq(S)
      BY <1>2, <2>2
    <3>. QED BY <2>3, <3>1, ConcatSet
  <2>5. ToSet(t[k]) = U(k)
    BY <1>4, <2>2
  <2>6. 1 .. (k + 1) = (1 .. k) \union {k + 1}
    OBVIOUS
  <2>7. U(k + 1) = U(k) \union ToSet(ss[k + 1])
    BY <2>6
  <2>. QED BY <2>4, <2>5, <2>7
<1>5. \A k \in Nat : k \in N
  <2> HIDE DEF N
  <2>. QED BY <1>3, <1>4, SetInduction
<1>6. Len(ss) \in 0 .. Len(ss) /\ Len(ss) <= Len(ss)
  BY <1>2
<1>. QED BY <1>1, <1>2, <1>5, <1>6
-----------------------------------------------------------------------------
(* Sequences without repetitions, as sets.                                  *)

\* As many elements as the sequence is long.
LEMMA InjectiveLength ==
  ASSUME NEW S, NEW s \in Seq(S), IsInjective(s)
  PROVE  IsFiniteSet(ToSet(s)) /\ Cardinality(ToSet(s)) = Len(s)
<1>1. PICK n \in Nat : n = Len(s) /\ DOMAIN s = 1 .. n /\ s \in [1 .. n -> S]
  BY LenProperties
<1>2. s \in Bijection(1 .. n, ToSet(s))
  <2>1. s \in [1 .. n -> ToSet(s)]
    BY <1>1 DEF ToSet
  <2>2. \A x \in ToSet(s) : \E i \in 1 .. n : s[i] = x
    BY <1>1 DEF ToSet
  <2>. QED BY <1>1, <2>1, <2>2 DEF Bijection, Injection, Surjection
<1>3. IsFiniteSet(1 .. n) /\ Cardinality(1 .. n) = n
  <2>1. 1 \in Int /\ n \in Int
    OBVIOUS
  <2>2. IsFiniteSet(1 .. n) /\ Cardinality(1 .. n) = IF 1 > n THEN 0 ELSE n - 1 + 1
    BY <2>1, FS_Interval
  <2>. QED BY <2>2
<1>4. ExistsBijection(1 .. n, ToSet(s))
  BY <1>2 DEF ExistsBijection
<1>. QED BY <1>1, <1>3, <1>4, FS_Bijection

\* One sequence after the other, without a common element.
LEMMA ConcatInjective ==
  ASSUME NEW S, NEW s \in Seq(S), NEW u \in Seq(S), IsInjective(s), IsInjective(u),
         ToSet(s) \cap ToSet(u) = {}
  PROVE  IsInjective(s \o u)
<1>1. PICK m \in Nat, n \in Nat : /\ m = Len(s) /\ DOMAIN s = 1 .. m
                                  /\ n = Len(u) /\ DOMAIN u = 1 .. n
  BY LenProperties
<1>2. PICK v \in Seq(S) : v = s \o u
  BY ConcatProperties
<1>3. DOMAIN v = 1 .. m + n /\ \A i \in 1 .. m + n : v[i] = IF i <= m THEN s[i] ELSE u[i - m]
  <2>1. /\ Len(v) = m + n
        /\ \A i \in 1 .. m + n : v[i] = IF i <= m THEN s[i] ELSE u[i - m]
    BY <1>1, <1>2, ConcatProperties
  <2>. QED BY <2>1, LenProperties
<1>4. /\ \A i, j \in 1 .. m : s[i] = s[j] => i = j
      /\ \A i, j \in 1 .. n : u[i] = u[j] => i = j
      /\ \A i \in 1 .. m, j \in 1 .. n : s[i] # u[j]
  <2>1. \A i \in 1 .. m, j \in 1 .. n : s[i] \in ToSet(s) /\ u[j] \in ToSet(u)
    BY <1>1 DEF ToSet
  <2>. QED BY <1>1, <2>1 DEF IsInjective
<1>5. ASSUME NEW i \in 1 .. m + n, NEW j \in 1 .. m + n, v[i] = v[j] PROVE i = j
  <2>1. CASE i <= m /\ j <= m
    BY <1>3, <1>4, <1>5, <2>1
  <2>2. CASE i <= m /\ ~(j <= m)
    <3>1. j - m \in 1 .. n /\ i \in 1 .. m
      BY <2>2
    <3>. QED BY <1>3, <1>4, <1>5, <2>2, <3>1
  <2>3. CASE ~(i <= m) /\ j <= m
    <3>1. i - m \in 1 .. n /\ j \in 1 .. m
      BY <2>3
    <3>. QED BY <1>3, <1>4, <1>5, <2>3, <3>1
  <2>4. CASE ~(i <= m) /\ ~(j <= m)
    <3>1. i - m \in 1 .. n /\ j - m \in 1 .. n
      BY <2>4
    <3>2. i - m = j - m
      BY <1>3, <1>4, <1>5, <2>4, <3>1
    <3>. QED BY <3>2
  <2>. QED BY <2>1, <2>2, <2>3, <2>4
<1>. QED BY <1>2, <1>3, <1>5 DEF IsInjective
-----------------------------------------------------------------------------
(* The least of a set of numbers.                                           *)

\* The minimum of numbers is one of them and none is less.
LEMMA MinProperties ==
  ASSUME NEW S \in SUBSET Nat, S # {}
  PROVE  Min(S) \in S /\ \A x \in S : Min(S) <= x
<1>1. PICK n \in Nat : n \in S
  OBVIOUS
<1> DEFINE T == {n - x : x \in {y \in S : y <= n}}
<1>2. T \in SUBSET Nat /\ T # {} /\ \A y \in T : y <= n
  <2>1. \A x \in S : x \in Nat
    OBVIOUS
  <2>2. n \in {y \in S : y <= n}
    BY <1>1
  <2>. QED BY <2>1, <2>2
<1>3. Max(T) \in T /\ \A y \in T : Max(T) >= y
  <2> HIDE DEF T
  <2>. QED BY <1>2, MaxProperties
<1>4. PICK x \in S : Max(T) = n - x /\ x <= n
  BY <1>3
<1>5. \A y \in S : x <= y
  <2>1. \A y \in S : y <= n => n - y \in T
    OBVIOUS
  <2>2. \A y \in S : y <= n => n - x >= n - y
    BY <1>3, <1>4, <2>1
  <2>. QED BY <1>4, <2>2
<1>. QED BY <1>5 DEF Min

-----------------------------------------------------------------------------
(* Concatenations of mapped sequences.                                      *)

Concats(u, ss, n) == u[0] = <<>> /\ \A i \in 1 .. n : u[i] = u[i - 1] \o ss[i]

\* What climbs from the empty sequence by one part after the other is the flattened one.
LEMMA FlattenIs ==
  ASSUME NEW S, NEW ss \in Seq(Seq(S)), NEW n \in Nat, n = Len(ss),
         NEW u, Concats(u, ss, n)
  PROVE  FlattenSeq(ss) = u[n] /\ FlattenSeq(ss) \in Seq(S)
<1>1. PICK t \in [0 .. n -> Seq(S)] :
        /\ t[0] = <<>> /\ FlattenSeq(ss) = t[n]
        /\ \A i \in 1 .. n : t[i] = t[i - 1] \o ss[i]
  BY FlattenLadder
<1>u. u[0] = <<>> /\ \A i \in 1 .. n : u[i] = u[i - 1] \o ss[i]
  BY DEF Concats
<1> DEFINE N == {i \in Nat : i <= n => u[i] = t[i]}
<1>2. 0 \in N
  BY <1>1, <1>u
<1>3. ASSUME NEW i \in Nat, i \in N PROVE i + 1 \in N
  <2>1. SUFFICES ASSUME i + 1 <= n PROVE u[i + 1] = t[i + 1]
    OBVIOUS
  <2>2. i + 1 \in 1 .. n /\ (i + 1) - 1 = i /\ i <= n
    BY <2>1
  <2>3. u[i] = t[i]
    BY <1>3, <2>2
  <2>4. u[i + 1] = u[(i + 1) - 1] \o ss[i + 1] /\ t[i + 1] = t[(i + 1) - 1] \o ss[i + 1]
    BY <1>1, <1>u, <2>2
  <2>. QED BY <2>2, <2>3, <2>4
<1>4. n \in N
  <2> HIDE DEF N
  <2>. QED BY <1>2, <1>3, SetInduction
<1>. QED BY <1>1, <1>4

\* Every element of s is replaced by what G maps it to.
FlatMap(G, s) == FlattenSeq([k \in DOMAIN s |-> G[s[k]]])

\* G maps the elements of A to sequences over B.
Maps(G, A, B) == G \in [A -> Seq(B)]

MapSteps(u, G, s, n) == u[0] = <<>> /\ \A i \in 1 .. n : u[i] = u[i - 1] \o G[s[i]]

\* t holds what is mapped before the first element of s, and then after each.
MapClimbs(t, B, G, s, n) ==
  /\ t \in [0 .. n -> Seq(B)] /\ t[0] = <<>> /\ FlatMap(G, s) = t[n]
  /\ \A i \in 1 .. n : t[i] = t[i - 1] \o G[s[i]]

\* The parts of a mapped sequence.
LEMMA MapParts ==
  ASSUME NEW A, NEW B, NEW G, Maps(G, A, B), NEW s \in Seq(A),
         NEW ms, ms = [k \in DOMAIN s |-> G[s[k]]]
  PROVE  ms \in Seq(Seq(B)) /\ Len(ms) = Len(s)
<1>1. PICK n \in Nat : n = Len(s) /\ DOMAIN s = 1 .. n /\ \A i \in 1 .. n : s[i] \in A
  BY LenProperties, ElementOfSeq
<1>2. ms = [k \in 1 .. n |-> G[s[k]]]
  BY <1>1
<1>3. ms \in [1 .. n -> Seq(B)]
  BY <1>1, <1>2 DEF Maps
<1>4. ms \in Seq(Seq(B)) /\ DOMAIN ms = 1 .. n
  BY <1>3
<1>5. Len(ms) = n
  BY <1>4, LenProperties
<1>. QED BY <1>1, <1>2, <1>4, <1>5

\* What is mapped climbs from the empty sequence by one part after the other.
LEMMA FlatMapLadder ==
  ASSUME NEW A, NEW B, NEW G, Maps(G, A, B), NEW s \in Seq(A), NEW n \in Nat, n = Len(s)
  PROVE  \E t : MapClimbs(t, B, G, s, n)
<1>1. PICK ms : ms = [k \in DOMAIN s |-> G[s[k]]]
  OBVIOUS
<1>2. ms \in Seq(Seq(B)) /\ Len(ms) = n /\ FlatMap(G, s) = FlattenSeq(ms)
  <2>1. FlatMap(G, s) = FlattenSeq(ms)
    BY <1>1 DEF FlatMap
  <2>2. ms \in Seq(Seq(B)) /\ Len(ms) = Len(s)
    BY <1>1, MapParts
  <2>. QED BY <2>1, <2>2
<1>3. \A i \in 1 .. n : ms[i] = G[s[i]]
  <2>1. DOMAIN s = 1 .. n
    BY LenProperties
  <2>. QED BY <1>1, <2>1
<1>4. PICK t \in [0 .. n -> Seq(B)] :
        /\ t[0] = <<>> /\ FlattenSeq(ms) = t[n]
        /\ \A i \in 1 .. n : t[i] = t[i - 1] \o ms[i]
  <2>1. \E t \in [0 .. Len(ms) -> Seq(B)] :
          /\ t[0] = <<>> /\ FlattenSeq(ms) = t[Len(ms)]
          /\ \A i \in 1 .. Len(ms) : t[i] = t[i - 1] \o ms[i]
    BY <1>2, FlattenLadder
  <2>. QED BY <1>2, <2>1
<1>. QED BY <1>2, <1>3, <1>4 DEF MapClimbs

\* What climbs so is what is mapped.
LEMMA FlatMapIs ==
  ASSUME NEW A, NEW B, NEW G, Maps(G, A, B), NEW s \in Seq(A), NEW n \in Nat, n = Len(s),
         NEW u, MapSteps(u, G, s, n)
  PROVE  FlatMap(G, s) = u[n] /\ FlatMap(G, s) \in Seq(B)
<1>1. PICK ms : ms = [k \in DOMAIN s |-> G[s[k]]]
  OBVIOUS
<1>2. ms \in Seq(Seq(B)) /\ Len(ms) = n /\ FlatMap(G, s) = FlattenSeq(ms)
  <2>1. FlatMap(G, s) = FlattenSeq(ms)
    BY <1>1 DEF FlatMap
  <2>2. ms \in Seq(Seq(B)) /\ Len(ms) = Len(s)
    BY <1>1, MapParts
  <2>. QED BY <2>1, <2>2
<1>3. \A i \in 1 .. n : ms[i] = G[s[i]]
  <2>1. DOMAIN s = 1 .. n
    BY LenProperties
  <2>. QED BY <1>1, <2>1
<1>4. Concats(u, ms, n)
  BY <1>3 DEF MapSteps, Concats
<1>5. FlattenSeq(ms) = u[n] /\ FlattenSeq(ms) \in Seq(B)
  BY <1>2, <1>4, FlattenIs
<1>. QED BY <1>2, <1>5

\* Mapping nothing, one element, one sequence after the other, or several.
LEMMA FlatMapSingle ==
  ASSUME NEW A, NEW B, NEW G, Maps(G, A, B), NEW x \in A
  PROVE  FlatMap(G, <<>>) = <<>> /\ FlatMap(G, <<x>>) = G[x]
<1>1. <<>> \in Seq(A) /\ Len(<<>>) = 0 /\ <<x>> \in Seq(A) /\ Len(<<x>>) = 1 /\ <<x>>[1] = x
  BY EmptySeq
<1>2. FlatMap(G, <<>>) = <<>>
  <2>1. PICK n \in Nat : n = 0
    OBVIOUS
  <2>2. PICK t : MapClimbs(t, B, G, <<>>, n)
    BY <1>1, <2>1, FlatMapLadder
  <2>. QED BY <2>1, <2>2 DEF MapClimbs
<1>3. FlatMap(G, <<x>>) = G[x]
  <2>1. PICK n \in Nat : n = 1
    OBVIOUS
  <2>2. PICK t : MapClimbs(t, B, G, <<x>>, n)
    BY <1>1, <2>1, FlatMapLadder
  <2>3. 1 \in 1 .. n /\ 1 - 1 = 0
    BY <2>1
  <2>4. t[1] = <<>> \o G[x] /\ FlatMap(G, <<x>>) = t[1]
    BY <1>1, <2>1, <2>2, <2>3 DEF MapClimbs
  <2>5. G[x] \in Seq(B)
    BY DEF Maps
  <2>. QED BY <2>4, <2>5, ConcatEmptySeq
<1>. QED BY <1>2, <1>3

\* A concatenation is mapped to the concatenation of what its parts are mapped to.
LEMMA FlatMapConcat ==
  ASSUME NEW A, NEW B, NEW G, Maps(G, A, B), NEW a \in Seq(A), NEW b \in Seq(A)
  PROVE  /\ FlatMap(G, a \o b) = FlatMap(G, a) \o FlatMap(G, b)
         /\ FlatMap(G, a) \in Seq(B) /\ FlatMap(G, b) \in Seq(B)
<1>1. PICK m \in Nat, n \in Nat : m = Len(a) /\ n = Len(b)
  BY LenProperties
<1>2a. PICK ta : MapClimbs(ta, B, G, a, m)
  BY <1>1, FlatMapLadder
<1>2. /\ ta \in [0 .. m -> Seq(B)] /\ ta[0] = <<>> /\ FlatMap(G, a) = ta[m]
      /\ \A i \in 1 .. m : ta[i] = ta[i - 1] \o G[a[i]]
  BY <1>2a DEF MapClimbs
<1>3a. PICK tb : MapClimbs(tb, B, G, b, n)
  BY <1>1, FlatMapLadder
<1>3. /\ tb \in [0 .. n -> Seq(B)] /\ tb[0] = <<>> /\ FlatMap(G, b) = tb[n]
      /\ \A i \in 1 .. n : tb[i] = tb[i - 1] \o G[b[i]]
  BY <1>3a DEF MapClimbs
<1>s. PICK s : s = a \o b
  OBVIOUS
<1>k. PICK k \in Nat : k = m + n
  OBVIOUS
<1>4. s \in Seq(A) /\ s = a \o b /\ k = m + n /\ k = Len(s)
  BY <1>1, <1>s, <1>k, ConcatProperties
<1>5. \A i \in 1 .. k : s[i] = IF i <= m THEN a[i] ELSE b[i - m]
  BY <1>1, <1>4, ConcatProperties
<1> DEFINE u == [i \in 0 .. k |-> IF i <= m THEN ta[i] ELSE ta[m] \o tb[i - m]]
<1>6. \A i \in 0 .. k : u[i] = IF i <= m THEN ta[i] ELSE ta[m] \o tb[i - m]
  OBVIOUS
<1> HIDE DEF u
<1>7. u[0] = <<>>
  BY <1>2, <1>6
<1>8. ta[m] \in Seq(B) /\ tb[n] \in Seq(B)
  BY <1>2, <1>3
<1>9. ASSUME NEW i \in 1 .. k PROVE u[i] = u[i - 1] \o G[s[i]]
  <2>1. CASE i <= m
    <3>1. i \in 1 .. m /\ i - 1 <= m /\ i - 1 \in 0 .. k /\ i \in 0 .. k
      BY <2>1
    <3>2. u[i] = ta[i] /\ u[i - 1] = ta[i - 1] /\ s[i] = a[i]
      BY <1>5, <1>6, <2>1, <3>1
    <3>. QED BY <1>2, <3>1, <3>2
  <2>2. CASE ~(i <= m)
    <3>1. PICK j \in 1 .. n : j = i - m
      BY <1>4, <2>2
    <3>2. i - 1 \in 0 .. k /\ i \in 0 .. k /\ j - 1 \in 0 .. n /\ j \in 1 .. n /\ j \in 0 .. n
      OBVIOUS
    <3>3. s[i] = b[j] /\ u[i] = ta[m] \o tb[j]
      BY <1>5, <1>6, <2>2, <3>1, <3>2
    <3>4. u[i - 1] = ta[m] \o tb[j - 1]
      <4>1. CASE i - 1 <= m
        <5>1. i - 1 = m /\ j - 1 = 0
          BY <2>2, <3>1, <4>1
        <5>2. u[i - 1] = ta[m] /\ tb[j - 1] = <<>>
          BY <1>3, <1>6, <3>2, <5>1
        <5>. QED BY <1>8, <5>2, ConcatEmptySeq
      <4>2. CASE ~(i - 1 <= m)
        <5>1. (i - 1) - m = j - 1
          BY <3>1
        <5>. QED BY <1>6, <3>2, <4>2, <5>1
      <4>. QED BY <4>1, <4>2
    <3>5. G[b[j]] \in Seq(B) /\ tb[j - 1] \in Seq(B)
      <4>1. b[j] \in A
        BY <1>1, ElementOfSeq
      <4>. QED BY <1>3, <3>2, <4>1 DEF Maps
    <3>6. ta[m] \o (tb[j - 1] \o G[b[j]]) = (ta[m] \o tb[j - 1]) \o G[b[j]]
      <4>1. PICK x \in Seq(B), y \in Seq(B), z \in Seq(B) :
              x = ta[m] /\ y = tb[j - 1] /\ z = G[b[j]]
        BY <1>8, <3>5
      <4>2. (x \o y) \o z = x \o (y \o z)
        BY ConcatAssociative
      <4>. QED BY <4>1, <4>2
    <3>7. tb[j] = tb[j - 1] \o G[b[j]]
      BY <1>3
    <3>. QED BY <3>3, <3>4, <3>6, <3>7
  <2>. QED BY <2>1, <2>2
<1>10. FlatMap(G, s) = u[k]
  <2>1. MapSteps(u, G, s, k)
    BY <1>7, <1>9 DEF MapSteps
  <2>2. s \in Seq(A) /\ k = Len(s)
    BY <1>4
  <2>3. FlatMap(G, s) = u[k] /\ FlatMap(G, s) \in Seq(B)
    BY <2>1, <2>2, FlatMapIs
  <2>. QED BY <2>3
<1>11. u[k] = ta[m] \o tb[n]
  <2>1. CASE n = 0
    <3>1. k = m /\ k \in 0 .. k
      BY <1>4, <2>1
    <3>2. u[k] = ta[m] /\ tb[n] = <<>>
      BY <1>3, <1>6, <2>1, <3>1
    <3>. QED BY <1>8, <3>2, ConcatEmptySeq
  <2>2. CASE n # 0
    <3>1. ~(k <= m) /\ k - m = n /\ k \in 0 .. k
      BY <1>4, <2>2
    <3>. QED BY <1>6, <3>1
  <2>. QED BY <2>1, <2>2
<1>. QED BY <1>2, <1>3, <1>4, <1>8, <1>10, <1>11

\* Sequences flattened are mapped to what they are mapped to, flattened.
LEMMA FlatMapFlatten ==
  ASSUME NEW A, NEW B, NEW G, Maps(G, A, B), NEW ss \in Seq(Seq(A))
  PROVE  FlatMap(G, FlattenSeq(ss)) = FlattenSeq([i \in DOMAIN ss |-> FlatMap(G, ss[i])])
<1>1. PICK n \in Nat : n = Len(ss) /\ DOMAIN ss = 1 .. n /\ \A i \in 1 .. n : ss[i] \in Seq(A)
  BY LenProperties, ElementOfSeq
<1>2. PICK t \in [0 .. n -> Seq(A)] :
        /\ t[0] = <<>> /\ FlattenSeq(ss) = t[n]
        /\ \A i \in 1 .. n : t[i] = t[i - 1] \o ss[i]
  BY <1>1, FlattenLadder
<1>3. PICK ms : ms = [i \in 1 .. n |-> FlatMap(G, ss[i])]
  OBVIOUS
<1>4. ms \in Seq(Seq(B)) /\ Len(ms) = n
  <2>1. \A i \in 1 .. n : FlatMap(G, ss[i]) \in Seq(B)
    BY <1>1, FlatMapConcat
  <2>2. ms \in [1 .. n -> Seq(B)]
    BY <1>3, <2>1
  <2>3. ms \in Seq(Seq(B)) /\ DOMAIN ms = 1 .. n
    BY <2>2
  <2>. QED BY <2>3, LenProperties
<1> DEFINE u == [i \in 0 .. n |-> FlatMap(G, t[i])]
<1>5. \A i \in 0 .. n : u[i] = FlatMap(G, t[i])
  OBVIOUS
<1> HIDE DEF u
<1>6. u[0] = <<>>
  <2>1. FlatMap(G, <<>>) = <<>>
    <3>1. <<>> \in Seq(A) /\ Len(<<>>) = 0
      BY EmptySeq
    <3>2. PICK z \in Nat : z = 0
      OBVIOUS
    <3>3. PICK v : MapClimbs(v, B, G, <<>>, z)
      BY <3>1, <3>2, FlatMapLadder
    <3>. QED BY <3>2, <3>3 DEF MapClimbs
  <2>. QED BY <1>2, <1>5, <2>1
<1>7. ASSUME NEW i \in 1 .. n PROVE u[i] = u[i - 1] \o ms[i]
  <2>1. i - 1 \in 0 .. n /\ i \in 0 .. n
    OBVIOUS
  <2>2. PICK x \in Seq(A), y \in Seq(A) : x = t[i - 1] /\ y = ss[i]
    BY <1>1, <2>1
  <2>3. FlatMap(G, x \o y) = FlatMap(G, x) \o FlatMap(G, y)
    <3>1. /\ FlatMap(G, x \o y) = FlatMap(G, x) \o FlatMap(G, y)
          /\ FlatMap(G, x) \in Seq(B) /\ FlatMap(G, y) \in Seq(B)
      BY FlatMapConcat
    <3>. QED BY <3>1
  <2>4. t[i] = x \o y /\ ms[i] = FlatMap(G, y)
    BY <1>2, <1>3, <2>2
  <2>. QED BY <1>5, <2>1, <2>2, <2>3, <2>4
<1>8. FlattenSeq(ms) = u[n]
  <2>1. Concats(u, ms, n)
    BY <1>6, <1>7 DEF Concats
  <2>. QED BY <1>4, <2>1, FlattenIs
<1>9. n \in 0 .. n
  OBVIOUS
<1>. QED BY <1>1, <1>2, <1>3, <1>5, <1>8, <1>9
-----------------------------------------------------------------------------
(* What a flattened sequence takes over from its parts.                     *)

\* t holds what is flattened before the first part of ss, and then after each.
FlattenClimbs(t, S, ss, n) ==
  t \in [0 .. n -> Seq(S)] /\ Concats(t, ss, n) /\ FlattenSeq(ss) = t[n]

\* What is flattened climbs so.
LEMMA FlattenSteps ==
  ASSUME NEW S, NEW ss \in Seq(Seq(S)), NEW n \in Nat, n = Len(ss)
  PROVE  \E t : FlattenClimbs(t, S, ss, n)
<1>1. PICK t \in [0 .. Len(ss) -> Seq(S)] :
        /\ t[0] = <<>> /\ FlattenSeq(ss) = t[Len(ss)]
        /\ \A i \in 1 .. Len(ss) : t[i] = t[i - 1] \o ss[i]
  BY FlattenLadder
<1>2. FlattenClimbs(t, S, ss, n)
  BY <1>1 DEF FlattenClimbs, Concats
<1>. QED BY <1>2

\* a and b are as long as each other, and related element by element.
Related(R, a, b) == Len(a) = Len(b) /\ \A j \in 1 .. Len(a) : <<a[j], b[j]>> \in R

\* Sequences related element by element are so when others are appended to both.
LEMMA RelatedConcat ==
  ASSUME NEW A, NEW B, NEW R, NEW a \in Seq(A), NEW b \in Seq(B), NEW c \in Seq(A), NEW d \in Seq(B),
         Related(R, a, b), Related(R, c, d)
  PROVE  Related(R, a \o c, b \o d)
<1>1. PICK m \in Nat, n \in Nat : m = Len(a) /\ m = Len(b) /\ n = Len(c) /\ n = Len(d)
  <2>1. Len(a) \in Nat /\ Len(c) \in Nat /\ Len(a) = Len(b) /\ Len(c) = Len(d)
    BY LenProperties DEF Related
  <2>. QED BY <2>1
<1>2. PICK x, y : x = a \o c /\ y = b \o d
  OBVIOUS
<1>3. Len(x) = m + n /\ \A i \in 1 .. m + n : x[i] = IF i <= m THEN a[i] ELSE c[i - m]
  <2>1. m = Len(a) /\ n = Len(c)
    BY <1>1
  <2>. QED BY <1>2, <2>1, ConcatProperties
<1>4. Len(y) = m + n /\ \A i \in 1 .. m + n : y[i] = IF i <= m THEN b[i] ELSE d[i - m]
  <2>1. m = Len(b) /\ n = Len(d)
    BY <1>1
  <2>. QED BY <1>2, <2>1, ConcatProperties
<1>5. ASSUME NEW i \in 1 .. m + n PROVE <<x[i], y[i]>> \in R
  <2>1. CASE i <= m
    BY <1>1, <1>3, <1>4, <2>1 DEF Related
  <2>2. CASE ~(i <= m)
    <3>1. i - m \in 1 .. n
      BY <2>2
    <3>. QED BY <1>1, <1>3, <1>4, <2>2, <3>1 DEF Related
  <2>. QED BY <2>1, <2>2
<1>. QED BY <1>2, <1>3, <1>4, <1>5 DEF Related

\* And so they are when they are flattened.
LEMMA RelatedFlatten ==
  ASSUME NEW A, NEW B, NEW R, NEW xs \in Seq(Seq(A)), NEW ys \in Seq(Seq(B)),
         Len(xs) = Len(ys), \A i \in 1 .. Len(xs) : Related(R, xs[i], ys[i])
  PROVE  Related(R, FlattenSeq(xs), FlattenSeq(ys))
<1>1. PICK n \in Nat : n = Len(xs) /\ n = Len(ys)
  BY LenProperties
<1>2. PICK t : FlattenClimbs(t, A, xs, n)
  BY <1>1, FlattenSteps
<1>3. PICK u : FlattenClimbs(u, B, ys, n)
  BY <1>1, FlattenSteps
<1>4. /\ t \in [0 .. n -> Seq(A)] /\ u \in [0 .. n -> Seq(B)] /\ t[0] = <<>> /\ u[0] = <<>>
      /\ \A i \in 1 .. n : t[i] = t[i - 1] \o xs[i] /\ u[i] = u[i - 1] \o ys[i]
      /\ FlattenSeq(xs) = t[n] /\ FlattenSeq(ys) = u[n]
  BY <1>2, <1>3 DEF FlattenClimbs, Concats
<1> DEFINE N == {i \in Nat : i <= n => Related(R, t[i], u[i])}
<1>5. 0 \in N
  <2>1. Related(R, <<>>, <<>>)
    BY EmptySeq DEF Related
  <2>. QED BY <1>4, <2>1
<1>6. ASSUME NEW i \in Nat, i \in N PROVE i + 1 \in N
  <2>1. SUFFICES ASSUME i + 1 <= n PROVE Related(R, t[i + 1], u[i + 1])
    OBVIOUS
  <2>2. i + 1 \in 1 .. n /\ (i + 1) - 1 = i /\ i \in 0 .. n /\ i <= n
    BY <2>1
  <2>3. PICK a \in Seq(A), b \in Seq(B) : a = t[i] /\ b = u[i]
    BY <1>4, <2>2
  <2>4. PICK c \in Seq(A), d \in Seq(B) : c = xs[i + 1] /\ d = ys[i + 1]
    <3>1. xs[i + 1] \in Seq(A) /\ ys[i + 1] \in Seq(B)
      BY <1>1, <2>2, ElementOfSeq
    <3>. QED BY <3>1
  <2>5. Related(R, a, b) /\ Related(R, c, d)
    BY <1>1, <1>6, <2>2, <2>3, <2>4
  <2>6. Related(R, a \o c, b \o d)
    BY <2>5, RelatedConcat
  <2>7. t[i + 1] = a \o c /\ u[i + 1] = b \o d
    BY <1>4, <2>2, <2>3, <2>4
  <2>. QED BY <2>6, <2>7
<1>7. n \in N
  <2> HIDE DEF N
  <2>. QED BY <1>5, <1>6, SetInduction
<1>. QED BY <1>4, <1>7

\* Every two elements of s, taken in their order, are in the relation R.
Ordered(R, s) == \A i, j \in 1 .. Len(s) : i < j => <<s[i], s[j]>> \in R

\* A concatenation is ordered when its parts are and all of the first come before the second.
LEMMA OrderedConcat ==
  ASSUME NEW S, NEW R, NEW a \in Seq(S), NEW b \in Seq(S), Ordered(R, a), Ordered(R, b),
         \A x \in ToSet(a), y \in ToSet(b) : <<x, y>> \in R
  PROVE  Ordered(R, a \o b)
<1>1. PICK m \in Nat, n \in Nat : m = Len(a) /\ n = Len(b) /\ DOMAIN a = 1 .. m /\ DOMAIN b = 1 .. n
  BY LenProperties
<1>2. PICK x : x = a \o b
  OBVIOUS
<1>3. Len(x) = m + n /\ \A i \in 1 .. m + n : x[i] = IF i <= m THEN a[i] ELSE b[i - m]
  BY <1>1, <1>2, ConcatProperties
<1>4. \A i \in 1 .. m, j \in 1 .. n : <<a[i], b[j]>> \in R
  BY <1>1 DEF ToSet
<1>5. ASSUME NEW i \in 1 .. m + n, NEW j \in 1 .. m + n, i < j PROVE <<x[i], x[j]>> \in R
  <2>1. CASE j <= m
    <3>1. i \in 1 .. m /\ j \in 1 .. m /\ x[i] = a[i] /\ x[j] = a[j]
      BY <1>3, <1>5, <2>1
    <3>. QED BY <1>1, <1>5, <3>1 DEF Ordered
  <2>2. CASE ~(j <= m)
    <3>1. j - m \in 1 .. n /\ x[j] = b[j - m]
      BY <1>3, <2>2
    <3>2. CASE i <= m
      <4>1. i \in 1 .. m /\ x[i] = a[i]
        BY <1>3, <3>2
      <4>. QED BY <1>4, <3>1, <4>1
    <3>3. CASE ~(i <= m)
      <4>1. i - m \in 1 .. n /\ x[i] = b[i - m] /\ i - m < j - m
        BY <1>3, <1>5, <3>3
      <4>. QED BY <1>1, <3>1, <4>1 DEF Ordered
    <3>. QED BY <3>2, <3>3
  <2>. QED BY <2>1, <2>2
<1>. QED BY <1>2, <1>3, <1>5 DEF Ordered

\* Ordered sequences, each before the next, are ordered when they are flattened.
LEMMA OrderedFlatten ==
  ASSUME NEW S, NEW R, NEW ss \in Seq(Seq(S)), NEW n \in Nat, n = Len(ss),
         \A i \in 1 .. n : Ordered(R, ss[i]),
         \A i, j \in 1 .. n : i < j => \A x \in ToSet(ss[i]), y \in ToSet(ss[j]) : <<x, y>> \in R
  PROVE  Ordered(R, FlattenSeq(ss))
<1>1. PICK t : FlattenClimbs(t, S, ss, n)
  BY FlattenSteps
<1>2. /\ t \in [0 .. n -> Seq(S)] /\ t[0] = <<>>
      /\ \A i \in 1 .. n : t[i] = t[i - 1] \o ss[i]
      /\ FlattenSeq(ss) = t[n]
  BY <1>1 DEF FlattenClimbs, Concats
<1> DEFINE N == {k \in Nat : k <= n => /\ Ordered(R, t[k])
                                       /\ \A x \in ToSet(t[k]) : \E i \in 1 .. k : x \in ToSet(ss[i])}
<1>3. 0 \in N
  <2>1. Ordered(R, <<>>) /\ ToSet(<<>>) = {}
    BY EmptySeq DEF Ordered, ToSet
  <2>. QED BY <1>2, <2>1
<1>4. ASSUME NEW k \in Nat, k \in N PROVE k + 1 \in N
  <2>1. SUFFICES ASSUME k + 1 <= n
                 PROVE  /\ Ordered(R, t[k + 1])
                        /\ \A x \in ToSet(t[k + 1]) : \E i \in 1 .. (k + 1) : x \in ToSet(ss[i])
    OBVIOUS
  <2>2. k + 1 \in 1 .. n /\ (k + 1) - 1 = k /\ k \in 0 .. n /\ k <= n
    BY <2>1
  <2>3. PICK a \in Seq(S), b \in Seq(S) : a = t[k] /\ b = ss[k + 1]
    <3>1. ss[k + 1] \in Seq(S)
      BY <2>2, ElementOfSeq
    <3>. QED BY <1>2, <2>2, <3>1
  <2>4. Ordered(R, a) /\ \A x \in ToSet(a) : \E i \in 1 .. k : x \in ToSet(ss[i])
    BY <1>4, <2>2, <2>3
  <2>5. ASSUME NEW x \in ToSet(a), NEW y \in ToSet(b) PROVE <<x, y>> \in R
    <3>1. PICK i \in 1 .. k : x \in ToSet(ss[i])
      BY <2>4
    <3>2. i \in 1 .. n /\ i < k + 1
      BY <2>2
    <3>. QED BY <2>2, <2>3, <3>1, <3>2
  <2>6. Ordered(R, b)
    BY <2>2, <2>3
  <2>7. Ordered(R, a \o b)
    BY <2>4, <2>5, <2>6, OrderedConcat
  <2>8. ToSet(a \o b) = ToSet(a) \union ToSet(b)
    BY ConcatSet
  <2>9. t[k + 1] = a \o b
    BY <1>2, <2>2, <2>3
  <2>10. ASSUME NEW x \in ToSet(t[k + 1]) PROVE \E i \in 1 .. (k + 1) : x \in ToSet(ss[i])
    <3>1. CASE x \in ToSet(a)
      <4>1. PICK i \in 1 .. k : x \in ToSet(ss[i])
        BY <2>4, <3>1
      <4>2. i \in 1 .. (k + 1)
        OBVIOUS
      <4>. QED BY <4>1, <4>2
    <3>2. CASE x \in ToSet(b)
      <4>1. k + 1 \in 1 .. (k + 1)
        OBVIOUS
      <4>. QED BY <2>3, <3>2, <4>1
    <3>. QED BY <2>8, <2>9, <3>1, <3>2
  <2>. QED BY <2>7, <2>9, <2>10
<1>5. n \in N
  <2> HIDE DEF N
  <2>. QED BY <1>3, <1>4, SetInduction
<1>. QED BY <1>2, <1>5
\* The elements of a mapped sequence.
LEMMA FlatMapElements ==
  ASSUME NEW A, NEW B, NEW G, Maps(G, A, B), NEW s \in Seq(A)
  PROVE  /\ FlatMap(G, s) \in Seq(B)
         /\ \A y : y \in ToSet(FlatMap(G, s)) <=> \E x \in ToSet(s) : y \in ToSet(G[x])
<1>1. PICK ms : ms = [k \in DOMAIN s |-> G[s[k]]]
  OBVIOUS
<1>2. ms \in Seq(Seq(B)) /\ Len(ms) = Len(s) /\ FlatMap(G, s) = FlattenSeq(ms)
  BY <1>1, MapParts DEF FlatMap
<1>3. PICK n \in Nat : n = Len(s) /\ DOMAIN s = 1 .. n
  BY LenProperties
<1>4. /\ FlattenSeq(ms) \in Seq(B)
      /\ ToSet(FlattenSeq(ms)) = UNION {ToSet(ms[i]) : i \in 1 .. n}
  BY <1>2, <1>3, FlattenElements
<1>5. \A i \in 1 .. n : ms[i] = G[s[i]]
  BY <1>1, <1>3
<1>6. \A x : x \in ToSet(s) <=> \E i \in 1 .. n : x = s[i]
  BY <1>3 DEF ToSet
<1>7. \A y : y \in ToSet(FlattenSeq(ms)) <=> \E i \in 1 .. n : y \in ToSet(ms[i])
  BY <1>4
<1>8. ASSUME NEW y PROVE y \in ToSet(FlattenSeq(ms)) <=> \E x \in ToSet(s) : y \in ToSet(G[x])
  <2>1. ASSUME NEW i \in 1 .. n, y \in ToSet(ms[i]) PROVE \E x \in ToSet(s) : y \in ToSet(G[x])
    <3>1. s[i] \in ToSet(s) /\ y \in ToSet(G[s[i]])
      BY <1>5, <1>6, <2>1
    <3>. QED BY <3>1
  <2>2. ASSUME NEW x \in ToSet(s), y \in ToSet(G[x]) PROVE \E i \in 1 .. n : y \in ToSet(ms[i])
    BY <1>5, <1>6, <2>2
  <2>. QED BY <1>7, <2>1, <2>2
<1>. QED BY <1>2, <1>4, <1>8

\* A mapped sequence is ordered when the sequence is and the parts of its elements are.
LEMMA FlatMapOrdered ==
  ASSUME NEW A, NEW B, NEW G, Maps(G, A, B), NEW s \in Seq(A), NEW Q, NEW R, Ordered(Q, s),
         \A x \in ToSet(s) : Ordered(R, G[x]),
         \A x, y \in ToSet(s) : <<x, y>> \in Q =>
           \A u \in ToSet(G[x]), v \in ToSet(G[y]) : <<u, v>> \in R
  PROVE  Ordered(R, FlatMap(G, s))
<1>1. PICK ms : ms = [k \in DOMAIN s |-> G[s[k]]]
  OBVIOUS
<1>2. ms \in Seq(Seq(B)) /\ Len(ms) = Len(s) /\ FlatMap(G, s) = FlattenSeq(ms)
  BY <1>1, MapParts DEF FlatMap
<1>3. PICK n \in Nat : n = Len(s) /\ DOMAIN s = 1 .. n
  BY LenProperties
<1>4. \A i \in 1 .. n : ms[i] = G[s[i]] /\ s[i] \in ToSet(s)
  BY <1>1, <1>3 DEF ToSet
<1>5. \A i \in 1 .. n : Ordered(R, ms[i])
  BY <1>4
<1>6. ASSUME NEW i \in 1 .. n, NEW j \in 1 .. n, i < j, NEW u \in ToSet(ms[i]), NEW v \in ToSet(ms[j])
      PROVE  <<u, v>> \in R
  <2>1. <<s[i], s[j]>> \in Q
    BY <1>3, <1>6 DEF Ordered
  <2>. QED BY <1>4, <1>6, <2>1
<1>7. n = Len(ms)
  BY <1>2, <1>3
<1>8. Ordered(R, FlattenSeq(ms))
  BY <1>2, <1>5, <1>6, <1>7, OrderedFlatten
<1>. QED BY <1>2, <1>8

\* A sequence whose elements are in a set is one over that set.
LEMMA SeqOver ==
  ASSUME NEW A, NEW B, NEW s \in Seq(A), ToSet(s) \subseteq B
  PROVE  s \in Seq(B)
<1>1. PICK n \in Nat : n = Len(s) /\ DOMAIN s = 1 .. n
  BY LenProperties
<1>2. \A i \in 1 .. n : s[i] \in B
  BY <1>1 DEF ToSet
<1>3. s \in [1 .. n -> B]
  <2>1. s = [i \in 1 .. n |-> s[i]]
    BY <1>1, LenProperties
  <2>. QED BY <1>2, <2>1
<1>. QED BY <1>3

\* A sequence without elements is empty.
LEMMA NoElements ==
  ASSUME NEW A, NEW s \in Seq(A), ToSet(s) = {}
  PROVE  s = <<>>
<1>1. PICK n \in Nat : n = Len(s) /\ DOMAIN s = 1 .. n
  BY LenProperties
<1>2. \A i \in 1 .. n : s[i] \in ToSet(s)
  BY <1>1 DEF ToSet
<1>3. n = 0
  <2>1. n # 0 => 1 \in 1 .. n
    OBVIOUS
  <2>. QED BY <1>2, <2>1
<1>. QED BY <1>1, <1>3, EmptySeq
\* The elements of a sequence over a set are in that set.
LEMMA ElementsIn ==
  ASSUME NEW A, NEW s \in Seq(A)
  PROVE  ToSet(s) \subseteq A
BY LenProperties, ElementOfSeq DEF ToSet
\* The elements of the shortest sequences.
LEMMA ShortSets ==
  ASSUME NEW x
  PROVE  ToSet(<<>>) = {} /\ ToSet(<<x>>) = {x}
BY DEF ToSet
=============================================================================
