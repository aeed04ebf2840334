------------------------------- MODULE Ladder -------------------------------
(***************************************************************************)
(* What a left fold passes through, for any operator.  The folds of the    *)
(* community modules are recursive functions over the subsets of a set;    *)
(* seen from the other end, FoldLeft applies its operator to the elements  *)
(* of a sequence in their order.  The proofs about the folds of the models *)
(* use an instance of this module for each operator that is folded, which  *)
(* may depend on a context c.                                              *)
(***************************************************************************)
EXTENDS SeqLemmas

CONSTANT Op(_, _, _)

\* The fold of the sequence q from base, in the context c.
Folded(c, base, q) == FoldLeft(LAMBDA v, e : Op(c, v, e), base, q)

\* t holds the value the fold starts from, and then that after each element.
Climbs(t, c, base, n, q) ==
  t[0] = base /\ \A i \in 1 .. n : t[i] = Op(c, t[i - 1], q[i])

\* The greatest of the first numbers.
LEMMA TopOf ==
  ASSUME NEW k \in Nat, NEW s \in SUBSET (1 .. k), s # {}
  PROVE  \E x \in 1 .. k : x = Max(s) /\ \A y \in s : y <= x
<1>1. s \in SUBSET Nat /\ \A x \in s : x <= k
  OBVIOUS
<1>2. Max(s) \in s /\ \A x \in s : Max(s) >= x
  BY <1>1, MaxProperties
<1>. QED BY <1>2

\* A fold applies its operator to one element after the other.
LEMMA FoldClimbs ==
  ASSUME NEW n \in Nat, NEW q, DOMAIN q = 1 .. n, NEW base, NEW c
  PROVE  \E t : Climbs(t, c, base, n, q) /\ t[n] = Folded(c, base, q)
<1> DEFINE At(f, s) == IF s = {} THEN base
                       ELSE LET x == Max(s) IN Op(c, f[s \ {x}], q[x])
           Eq(f) == f = [s \in SUBSET (1 .. n) |-> At(f, s)]
           iter == CHOOSE f : Eq(f)
           Good(f, k) == \A s \in SUBSET (1 .. k) : f[s] = At(f, s)
           N == {k \in Nat : k <= n => \E f : Good(f, k)}
<1>1. Folded(c, base, q) = iter[1 .. n]
  BY DEF Folded, FoldLeft, MapThenFoldSet
<1> HIDE DEF iter
<1>2. 0 \in N
  <2> DEFINE f == [s \in SUBSET (1 .. n) |-> base]
  <2>1. \A s \in SUBSET (1 .. 0) : s = {} /\ s \in SUBSET (1 .. n)
    OBVIOUS
  <2>2. Good(f, 0)
    BY <2>1
  <2> HIDE DEF f, Good
  <2>. QED BY <2>2
<1>3. ASSUME NEW k \in Nat, k \in N PROVE k + 1 \in N
  <2>1. SUFFICES ASSUME k + 1 <= n PROVE \E f : Good(f, k + 1)
    <3> HIDE DEF Good
    <3>1. k + 1 \in Nat
      OBVIOUS
    <3>. QED BY <3>1
  <2>2. PICK f : Good(f, k)
    <3> HIDE DEF Good
    <3>1. k <= n
      BY <2>1
    <3>. QED BY <1>3, <3>1
  <2> DEFINE g == [s \in SUBSET (1 .. n) |-> At(f, s)]
  <2>3. ASSUME NEW s \in SUBSET (1 .. k) PROVE g[s] = f[s]
    <3>1. s \in SUBSET (1 .. n)
      BY <2>1
    <3> HIDE DEF At
    <3>. QED BY <2>2, <3>1
  <2>4. ASSUME NEW s \in SUBSET (1 .. (k + 1)) PROVE g[s] = At(g, s)
    <3>1. s \in SUBSET (1 .. n)
      BY <2>1
    <3>2. g[s] = At(f, s)
      <4> HIDE DEF At
      <4>. QED BY <3>1
    <3>3. CASE s = {}
      BY <3>2, <3>3
    <3>4. CASE s # {}
      <4>1. PICK x \in 1 .. (k + 1) : x = Max(s) /\ \A y \in s : y <= x
        <5>1. k + 1 \in Nat
          OBVIOUS
        <5>. QED BY <3>4, <5>1, TopOf
      <4>2. s \ {x} \in SUBSET (1 .. k)
        <5>1. ASSUME NEW y \in 1 .. (k + 1), y \in s, y # x PROVE y \in 1 .. k
          BY <4>1, <5>1
        <5>. QED BY <5>1
      <4>3. g[s \ {x}] = f[s \ {x}]
        BY <2>3, <4>2
      <4> HIDE DEF g
      <4>. QED BY <3>2, <3>4, <4>1, <4>3
    <3>. QED BY <3>3, <3>4
  <2> HIDE DEF g, At
  <2>5. Good(g, k + 1)
    BY <2>4
  <2> HIDE DEF Good
  <2>. QED BY <2>5
<1>4. n \in N
  <2> HIDE DEF N
  <2>. QED BY <1>2, <1>3, SetInduction
<1>5. PICK f : Good(f, n)
  <2> HIDE DEF Good
  <2>. QED BY <1>4
<1> DEFINE g == [s \in SUBSET (1 .. n) |-> f[s]]
<1>6. Eq(g)
  <2>1. ASSUME NEW s \in SUBSET (1 .. n) PROVE g[s] = At(g, s)
    <3>1. g[s] = At(f, s)
      <4> HIDE DEF At
      <4>. QED BY <1>5
    <3>2. CASE s = {}
      BY <3>1, <3>2
    <3>3. CASE s # {}
      <4>1. s \ {Max(s)} \in SUBSET (1 .. n)
        OBVIOUS
      <4>2. g[s \ {Max(s)}] = f[s \ {Max(s)}]
        BY <4>1
      <4> HIDE DEF g
      <4>. QED BY <3>1, <3>3, <4>2
    <3>. QED BY <3>2, <3>3
  <2> HIDE DEF At
  <2>. QED BY <2>1
<1>7. Eq(iter)
  <2>1. \E h : Eq(h)
    <3> HIDE DEF Eq, g
    <3>. QED BY <1>6
  <2> HIDE DEF Eq
  <2>. QED BY <2>1 DEF iter
<1> DEFINE t == [i \in 0 .. n |-> iter[1 .. i]]
<1>8. t[0] = base
  <2>1. 1 .. 0 = {} /\ 1 .. 0 \in SUBSET (1 .. n) /\ t[0] = iter[1 .. 0]
    OBVIOUS
  <2>2. iter[1 .. 0] = At(iter, 1 .. 0)
    <3> HIDE DEF At, t
    <3>. QED BY <1>7, <2>1
  <2>. QED BY <2>1, <2>2
<1>9. ASSUME NEW i \in 1 .. n PROVE t[i] = Op(c, t[i - 1], q[i])
  <2>1. 1 .. i \in SUBSET (1 .. n) /\ i \in Nat \ {0} /\ i \in 0 .. n /\ i - 1 \in 0 .. n
    OBVIOUS
  <2>2. 1 .. i # {} /\ Max(1 .. i) = i /\ (1 .. i) \ {i} = 1 .. (i - 1)
    BY <2>1, LeftLadder
  <2>3. iter[1 .. i] = At(iter, 1 .. i)
    <3> HIDE DEF At, t
    <3>. QED BY <1>7, <2>1
  <2>4. t[i] = iter[1 .. i] /\ t[i - 1] = iter[1 .. (i - 1)]
    BY <2>1
  <2> HIDE DEF t
  <2>. QED BY <2>2, <2>3, <2>4
<1>10. t[n] = iter[1 .. n]
  OBVIOUS
<1> HIDE DEF t
<1>. QED BY <1>1, <1>8, <1>9, <1>10 DEF Climbs
=============================================================================
