-------------------------- MODULE IntrusiveProofs --------------------------
(***************************************************************************)
(* The pointers of the last-touched list and of the free list stand for    *)
(* the sequences of Multiline, for any number of groups.  One lemma per    *)
(* pointer operation says what it does to a list that stands for a         *)
(* sequence; that the operation is called on a group which is in the list, *)
(* or in neither list, is the inductive invariant of MultilineInv.         *)
(***************************************************************************)
EXTENDS MultilineProofs, Intrusive

-----------------------------------------------------------------------------
(* The pointer operations.                                                  *)

\* A linked group becomes the last of the list.
LEMMA LinkThreads ==
  ASSUME NEW l \in Pointers, NEW s \in Seq(Refs), IsInjective(s), Threads(l, s),
         NEW g \in Refs, g \notin ToSet(s)
  PROVE  /\ Link(l, g) \in Pointers
         /\ Threads(Link(l, g), Append(s, g))
         /\ Link(l, g).free = l.free /\ Link(l, g).freeLen = l.freeLen
         /\ \A r \in Refs : r # g /\ r \notin ToSet(s) => Link(l, g).next[r] = l.next[r]
<1> DEFINE t == Append(s, g)
           m == Link(l, g)
<1>1. /\ t \in Seq(Refs) /\ Len(t) = Len(s) + 1 /\ t[Len(s) + 1] = g
      /\ \A i \in 1 .. Len(s) : t[i] = s[i]
      /\ Len(s) \in Nat /\ t # <<>>
  BY AppendProperties, LenProperties, EmptySeq
<1>2. \A i \in 1 .. Len(s) : s[i] \in Refs /\ s[i] # g /\ s[i] \in ToSet(s)
  BY ElementOfSeq, LenProperties DEF ToSet
<1>3. s = <<>> <=> Len(s) = 0
  BY EmptySeq
<1>4. \A i, j \in 1 .. Len(s) : s[i] = s[j] => i = j
  BY LenProperties DEF IsInjective
<1>5. /\ m.first = IF l.first = Nil THEN g ELSE l.first
      /\ m.last = g
      /\ m.prev = [r \in Refs |-> IF r = g THEN l.last ELSE l.prev[r]]
      /\ m.next = [r \in Refs |-> IF r = l.last THEN g ELSE IF r = g THEN Nil ELSE l.next[r]]
      /\ m.free = l.free /\ m.freeLen = l.freeLen
  BY DEF Link, Pointers
<1>6. m \in Pointers
  BY DEF Link, Pointers, Address
<1>7. /\ s = <<>> => l.first = Nil /\ l.last = Nil
      /\ s # <<>> => l.first = s[1] /\ l.last = s[Len(s)] /\ 1 \in 1 .. Len(s)
                     /\ Len(s) \in 1 .. Len(s)
  BY <1>1, <1>3 DEF Threads
<1> HIDE DEF m, t
<1>8. m.first = t[1] /\ m.last = t[Len(t)]
  BY <1>1, <1>2, <1>3, <1>5, <1>7, NamesAssumption
<1>9. ASSUME NEW i \in 1 .. Len(t)
      PROVE  /\ m.prev[t[i]] = IF i = 1 THEN Nil ELSE t[i - 1]
             /\ m.next[t[i]] = IF i = Len(t) THEN Nil ELSE t[i + 1]
  <2>1. CASE i = Len(t)
    <3>1. t[i] = g /\ g # l.last
      BY <1>1, <1>2, <1>7, <2>1, NamesAssumption
    <3>2. m.prev[g] = l.last /\ m.next[g] = Nil
      BY <1>5, <3>1
    <3>3. l.last = IF i = 1 THEN Nil ELSE t[i - 1]
      BY <1>1, <1>3, <1>7, <2>1
    <3>. QED BY <2>1, <3>1, <3>2, <3>3
  <2>2. CASE i # Len(t)
    <3>1. i \in 1 .. Len(s) /\ t[i] = s[i] /\ s[i] \in Refs /\ s[i] # g /\ s # <<>>
      BY <1>1, <1>2, <1>3, <2>2
    <3>2. /\ l.prev[s[i]] = IF i = 1 THEN Nil ELSE s[i - 1]
          /\ l.next[s[i]] = IF i = Len(s) THEN Nil ELSE s[i + 1]
      BY <3>1 DEF Threads
    <3>3. m.prev[s[i]] = l.prev[s[i]]
      BY <1>5, <3>1
    <3>4. i # 1 => t[i - 1] = s[i - 1]
      BY <1>1, <3>1
    <3>5. CASE i = Len(s)
      BY <1>1, <1>5, <1>7, <2>2, <3>1, <3>2, <3>3, <3>4, <3>5
    <3>6. CASE i # Len(s)
      <4>1. s[i] # l.last /\ t[i + 1] = s[i + 1]
        BY <1>1, <1>4, <1>7, <3>1, <3>6
      <4>. QED BY <1>5, <2>2, <3>1, <3>2, <3>3, <3>4, <3>6, <4>1
    <3>. QED BY <3>5, <3>6
  <2>. QED BY <2>1, <2>2
<1>10. Threads(m, t)
  BY <1>1, <1>8, <1>9 DEF Threads
<1>11. \A r \in Refs : r # g /\ r \notin ToSet(s) => m.next[r] = l.next[r]
  BY <1>2, <1>5, <1>7, NamesAssumption
<1>. QED BY <1>5, <1>6, <1>10, <1>11 DEF m, t

\* A detached group is skipped by its neighbours, or by first and last.
LEMMA DetachThreads ==
  ASSUME NEW l \in Pointers, NEW s \in Seq(Refs), IsInjective(s), Threads(l, s),
         NEW g \in ToSet(s)
  PROVE  /\ g \in Refs
         /\ Detach(l, g) \in Pointers
         /\ Threads(Detach(l, g), RemoveFirst(s, g))
         /\ Detach(l, g).free = l.free /\ Detach(l, g).freeLen = l.freeLen
         /\ \A r \in Refs : r \notin ToSet(s) => Detach(l, g).next[r] = l.next[r]
<1>1. PICK k \in 1 .. Len(s) : g = s[k]
  BY LenProperties DEF ToSet
<1> DEFINE t == RemoveFirst(s, g)
           m == Detach(l, g)
           n == Len(s)
<1>2. /\ t \in Seq(Refs) /\ Len(t) = n - 1
      /\ \A i \in 1 .. n - 1 : t[i] = IF i < k THEN s[i] ELSE s[i + 1]
  BY <1>1, RemoveFirstProperties
<1>3. /\ n \in Nat /\ n >= 1 /\ g \in Refs
      /\ \A i \in 1 .. n : s[i] \in Refs /\ s[i] \in ToSet(s)
  BY <1>1, ElementOfSeq, LenProperties DEF ToSet
<1>4. \A i, j \in 1 .. n : s[i] = s[j] => i = j
  BY LenProperties DEF IsInjective
<1>5. (t = <<>> <=> n = 1) /\ s # <<>>
  <2>1. s # <<>>
    BY <1>1, <1>3, EmptySeq
  <2>2. t \in Seq(Refs) /\ Len(t) = n - 1 /\ n \in Nat
    BY <1>2, <1>3
  <2> HIDE DEF t, n
  <2>3. t = <<>> <=> Len(t) = 0
    BY <2>2, EmptySeq
  <2>. QED BY <2>1, <2>2, <2>3
<1>6. /\ l.first = s[1] /\ l.last = s[n]
      /\ \A i \in 1 .. n : /\ l.prev[s[i]] = IF i = 1 THEN Nil ELSE s[i - 1]
                           /\ l.next[s[i]] = IF i = n THEN Nil ELSE s[i + 1]
  BY <1>5 DEF Threads
<1>7. /\ m.first = IF l.first = g THEN l.next[g] ELSE l.first
      /\ m.last = IF l.last = g THEN l.prev[g] ELSE l.last
      /\ m.prev = [r \in Refs |-> IF r = g THEN Nil
                                  ELSE IF r = l.next[g] THEN l.prev[g] ELSE l.prev[r]]
      /\ m.next = [r \in Refs |-> IF r = g THEN Nil
                                  ELSE IF r = l.prev[g] THEN l.next[g] ELSE l.next[r]]
      /\ m.free = l.free /\ m.freeLen = l.freeLen
  BY DEF Detach, Pointers
<1>8. m \in Pointers
  BY <1>3 DEF Detach, Pointers, Address
<1> HIDE DEF m, t, n
<1>9. /\ l.prev[g] = IF k = 1 THEN Nil ELSE s[k - 1]
      /\ l.next[g] = IF k = n THEN Nil ELSE s[k + 1]
      /\ k \in 1 .. n
  BY <1>1, <1>6 DEF n
<1>10. m.first = IF t = <<>> THEN Nil ELSE t[1]
  <2>1. CASE k = 1
    BY <1>1, <1>2, <1>3, <1>5, <1>6, <1>7, <1>9, <2>1
  <2>2. CASE k # 1
    <3>1. l.first # g /\ n # 1
      BY <1>1, <1>3, <1>4, <1>6, <1>9, <2>2
    <3>2. t[1] = s[1]
      BY <1>2, <1>3, <1>9, <2>2, <3>1
    <3>. QED BY <1>5, <1>6, <1>7, <3>1, <3>2
  <2>. QED BY <2>1, <2>2
<1>11. m.last = IF t = <<>> THEN Nil ELSE t[Len(t)]
  <2>1. CASE k = n
    <3>1. n # 1 => t[n - 1] = s[n - 1]
      BY <1>2, <1>3, <2>1
    <3>2. m.last = l.prev[g]
      BY <1>1, <1>6, <1>7, <2>1
    <3>. QED BY <1>2, <1>3, <1>5, <1>9, <2>1, <3>1, <3>2
  <2>2. CASE k # n
    <3>1. l.last # g /\ n # 1
      BY <1>1, <1>3, <1>4, <1>6, <1>9, <2>2
    <3>2. t[n - 1] = s[n]
      BY <1>2, <1>3, <1>9, <2>2, <3>1
    <3>. QED BY <1>2, <1>5, <1>6, <1>7, <3>1, <3>2
  <2>. QED BY <2>1, <2>2
<1>12. ASSUME NEW i \in 1 .. Len(t)
       PROVE  /\ m.prev[t[i]] = IF i = 1 THEN Nil ELSE t[i - 1]
              /\ m.next[t[i]] = IF i = Len(t) THEN Nil ELSE t[i + 1]
  <2> DEFINE j == IF i < k THEN i ELSE i + 1
  <2>1. /\ j \in 1 .. n /\ j # k /\ t[i] = s[j] /\ i \in 1 .. n - 1
        /\ s[j] \in Refs /\ s[j] # g
    BY <1>1, <1>2, <1>3, <1>4, <1>9
  <2>2. m.prev[s[j]] = IF i = 1 THEN Nil ELSE t[i - 1]
    <3>1. CASE i = k
      <4>1. s[j] = l.next[g] /\ l.next[g] # Nil
        BY <1>2, <1>3, <1>9, <2>1, <3>1, NamesAssumption
      <4>2. m.prev[s[j]] = l.prev[g]
        BY <1>7, <2>1, <4>1
      <4>3. i # 1 => t[i - 1] = s[k - 1]
        BY <1>2, <1>3, <2>1, <3>1
      <4>. QED BY <1>9, <3>1, <4>2, <4>3
    <3>2. CASE i # k
      <4>1. s[j] # l.next[g]
        <5>1. CASE k = n
          BY <1>9, <2>1, <5>1, NamesAssumption
        <5>2. CASE k # n
          <6>1. l.next[g] = s[k + 1] /\ k + 1 \in 1 .. n /\ j # k + 1
            BY <1>3, <1>9, <2>1, <3>2, <5>2
          <6>. QED BY <1>4, <2>1, <6>1
        <5>. QED BY <5>1, <5>2
      <4>2. m.prev[s[j]] = l.prev[s[j]]
        BY <1>7, <2>1, <4>1
      <4>3. l.prev[s[j]] = IF j = 1 THEN Nil ELSE s[j - 1]
        BY <1>6, <2>1
      <4>4. CASE i < k
        BY <1>2, <1>3, <2>1, <4>2, <4>3, <4>4
      <4>5. CASE i > k
        <5>1. j = i + 1 /\ i # 1 /\ j # 1 /\ t[i - 1] = s[i] /\ j - 1 = i
          BY <1>2, <1>3, <1>9, <2>1, <4>5
        <5>. QED BY <4>2, <4>3, <5>1
      <4>. QED BY <1>9, <2>1, <3>2, <4>4, <4>5
    <3>. QED BY <3>1, <3>2
  <2>3. m.next[s[j]] = IF i = Len(t) THEN Nil ELSE t[i + 1]
    <3>1. CASE i + 1 = k
      <4>1. s[j] = l.prev[g] /\ j = i
        BY <1>2, <1>3, <1>9, <2>1, <3>1
      <4>2. m.next[s[j]] = l.next[g]
        BY <1>7, <2>1, <4>1
      <4>3. i # n - 1 => t[i + 1] = s[k + 1]
        BY <1>2, <1>3, <2>1, <3>1
      <4>. QED BY <1>2, <1>3, <1>9, <2>1, <3>1, <4>2, <4>3
    <3>2. CASE i + 1 # k
      <4>1. s[j] # l.prev[g]
        BY <1>3, <1>4, <1>9, <2>1, <3>2, NamesAssumption
      <4>2. m.next[s[j]] = l.next[s[j]]
        BY <1>7, <2>1, <4>1
      <4>3. l.next[s[j]] = IF j = n THEN Nil ELSE s[j + 1]
        BY <1>6, <2>1
      <4>4. CASE i < k
        <5>1. j = i /\ i # n /\ i # n - 1 /\ t[i + 1] = s[i + 1]
          BY <1>2, <1>3, <1>9, <2>1, <3>2, <4>4
        <5>. QED BY <1>2, <4>2, <4>3, <5>1
      <4>5. CASE ~(i < k)
        <5>1. j = i + 1 /\ (i # n - 1 => t[i + 1] = s[j + 1]) /\ (i = n - 1 <=> j = n)
          BY <1>2, <1>3, <1>9, <2>1, <4>5
        <5>. QED BY <1>2, <4>2, <4>3, <5>1
      <4>. QED BY <4>4, <4>5
    <3>. QED BY <3>1, <3>2
  <2>. QED BY <2>1, <2>2, <2>3
<1>13. Threads(m, t)
  BY <1>10, <1>11, <1>12 DEF Threads
<1>14. ASSUME NEW r \in Refs, r \notin ToSet(s)
       PROVE  m.next[r] = l.next[r]
  <2>1. r # g /\ r # l.prev[g]
    BY <1>1, <1>3, <1>9, <1>14, NamesAssumption
  <2>. QED BY <1>7, <2>1
<1>. QED BY <1>3, <1>7, <1>8, <1>13, <1>14 DEF m, t

\* A group that is touched becomes the last one, whether or not it was.
LEMMA MoveLastThreads ==
  ASSUME NEW l \in Pointers, NEW s \in Seq(Refs), IsInjective(s), Threads(l, s),
         NEW g \in ToSet(s)
  PROVE  /\ MoveLast(l, g) \in Pointers
         /\ Threads(MoveLast(l, g), Append(RemoveFirst(s, g), g))
         /\ MoveLast(l, g).free = l.free /\ MoveLast(l, g).freeLen = l.freeLen
         /\ \A r \in Refs : r \notin ToSet(s) => MoveLast(l, g).next[r] = l.next[r]
<1> DEFINE t == RemoveFirst(s, g)
           m == Detach(l, g)
<1>1. /\ m \in Pointers /\ Threads(m, t) /\ g \in Refs
      /\ m.free = l.free /\ m.freeLen = l.freeLen
      /\ \A r \in Refs : r \notin ToSet(s) => m.next[r] = l.next[r]
  BY DetachThreads
<1>2. t \in Seq(Refs) /\ IsInjective(t) /\ ToSet(t) = ToSet(s) \ {g}
  BY RemoveFirstSet
<1> HIDE DEF m
<1>3. CASE g # l.last
  <2> HIDE DEF t
  <2>1. /\ Link(m, g) \in Pointers /\ Threads(Link(m, g), Append(t, g))
        /\ Link(m, g).free = m.free /\ Link(m, g).freeLen = m.freeLen
        /\ \A r \in Refs : r # g /\ r \notin ToSet(t) => Link(m, g).next[r] = m.next[r]
    BY <1>1, <1>2, LinkThreads
  <2>2. MoveLast(l, g) = Link(m, g)
    BY <1>3 DEF MoveLast, m
  <2>. QED BY <1>1, <1>2, <2>1, <2>2 DEF t
<1>4. CASE g = l.last
  <2>1. Len(s) \in Nat /\ s # <<>> /\ Len(s) \in 1 .. Len(s)
    BY EmptySeq, LenProperties DEF ToSet
  <2>2. g = s[Len(s)]
    BY <1>4, <2>1 DEF Threads
  <2>3. /\ Len(t) = Len(s) - 1
        /\ \A i \in 1 .. Len(s) - 1 : t[i] = IF i < Len(s) THEN s[i] ELSE s[i + 1]
    BY <2>1, <2>2, RemoveFirstProperties
  <2> HIDE DEF t
  <2>4. /\ Len(Append(t, g)) = Len(s) /\ Append(t, g) # <<>>
        /\ \A i \in 1 .. Len(s) : Append(t, g)[i] = s[i]
    <3>1. /\ Len(Append(t, g)) = Len(t) + 1 /\ Append(t, g)[Len(t) + 1] = g
          /\ \A i \in 1 .. Len(t) : Append(t, g)[i] = t[i]
      BY <1>1, <1>2, AppendProperties
    <3>. QED BY <2>1, <2>2, <2>3, <3>1
  <2> DEFINE u == Append(t, g)
  <2>5. Threads(l, u)
    <3> HIDE DEF u
    <3>1. Len(u) = Len(s) /\ u # <<>> /\ u[1] = s[1] /\ u[Len(u)] = s[Len(s)]
      BY <2>1, <2>4 DEF u
    <3>2. ASSUME NEW i \in 1 .. Len(u)
          PROVE  /\ l.prev[u[i]] = IF i = 1 THEN Nil ELSE u[i - 1]
                 /\ l.next[u[i]] = IF i = Len(u) THEN Nil ELSE u[i + 1]
      <4>1. i \in 1 .. Len(s) /\ u[i] = s[i]
        BY <2>4, <3>1 DEF u
      <4>2. (i # 1 => u[i - 1] = s[i - 1]) /\ (i # Len(u) => u[i + 1] = s[i + 1])
        BY <2>1, <2>4, <3>1, <4>1 DEF u
      <4>. QED BY <3>1, <4>1, <4>2 DEF Threads
    <3>. QED BY <2>1, <3>1, <3>2 DEF Threads
  <2>6. MoveLast(l, g) = l
    BY <1>4 DEF MoveLast
  <2>. QED BY <2>5, <2>6 DEF t
<1>. QED BY <1>3, <1>4

\* What a pointer operation on the list leaves of the free list.
LEMMA KeepsParks ==
  ASSUME NEW l, NEW m, NEW s \in Seq(Refs), Parks(l, s),
         m.free = l.free, m.freeLen = l.freeLen,
         \A r \in ToSet(s) : m.next[r] = l.next[r]
  PROVE  Parks(m, s)
<1>1. \A i \in 1 .. Len(s) : s[i] \in ToSet(s)
  BY LenProperties DEF ToSet
<1>. QED BY <1>1 DEF Parks

\* And of the list, when it changes a group that is not in it.
LEMMA KeepsThreads ==
  ASSUME NEW l, NEW m, NEW s \in Seq(Refs), Threads(l, s),
         m.first = l.first, m.last = l.last,
         \A r \in ToSet(s) : m.prev[r] = l.prev[r] /\ m.next[r] = l.next[r]
  PROVE  Threads(m, s)
<1>1. \A i \in 1 .. Len(s) : s[i] \in ToSet(s)
  BY LenProperties DEF ToSet
<1>. QED BY <1>1 DEF Threads

\* A new group is the head of the free list, and its next pointer is cleared after the
\* free list moved on past it.
LEMMA AcquireParks ==
  ASSUME NEW l \in Pointers, NEW s \in Seq(Refs), IsInjective(s), Parks(l, s),
         NEW g \in Refs, s # <<>> => g = Head(s)
  PROVE  /\ Acquire(l, g) \in Pointers
         /\ Parks(Acquire(l, g), IF s = <<>> THEN s ELSE Tail(s))
         /\ Acquire(l, g).first = l.first /\ Acquire(l, g).last = l.last
         /\ \A r \in Refs : r # g => /\ Acquire(l, g).prev[r] = l.prev[r]
                                     /\ Acquire(l, g).next[r] = l.next[r]
<1> DEFINE m == Acquire(l, g)
<1>1. /\ Len(s) \in Nat /\ (s = <<>> <=> Len(s) = 0)
      /\ \A i \in 1 .. Len(s) : s[i] \in Refs
      /\ \A i, j \in 1 .. Len(s) : s[i] = s[j] => i = j
  BY EmptySeq, ElementOfSeq, LenProperties DEF IsInjective
<1>2. l.free = Nil <=> s = <<>>
  BY <1>1, NamesAssumption DEF Parks
<1>3. /\ m.first = l.first /\ m.last = l.last
      /\ m.free = IF s = <<>> THEN Nil ELSE l.next[g]
      /\ m.freeLen = IF s = <<>> THEN l.freeLen ELSE l.freeLen - 1
      /\ \A r \in Refs : /\ m.prev[r] = IF r = g THEN Nil ELSE l.prev[r]
                         /\ m.next[r] = IF r = g THEN Nil ELSE l.next[r]
  BY <1>2 DEF Acquire, Pointers
<1>4. m \in Pointers
  <2>1. l.free # Nil => l.freeLen - 1 \in Nat
    BY <1>1, <1>2 DEF Parks
  <2>. QED BY <2>1 DEF Acquire, Pointers, Address
<1> HIDE DEF m
<1>5. ASSUME s = <<>> PROVE Parks(m, s)
  BY <1>1, <1>3, <1>5 DEF Parks
<1>6. ASSUME s # <<>> PROVE Parks(m, Tail(s))
  <2> DEFINE t == Tail(s)
  <2>1. /\ t \in Seq(Refs) /\ Len(t) = Len(s) - 1
        /\ \A i \in 1 .. Len(t) : t[i] = s[i + 1]
        /\ g = s[1]
    BY <1>6, HeadTailProperties
  <2> HIDE DEF t
  <2>2. (t = <<>> <=> Len(s) = 1) /\ Len(s) >= 1
    BY <1>1, <1>6, <2>1, EmptySeq
  <2>3. /\ l.freeLen = Len(s)
        /\ \A i \in 1 .. Len(s) : l.next[s[i]] = IF i = Len(s) THEN Nil ELSE s[i + 1]
    BY DEF Parks
  <2>4. m.free = (IF t = <<>> THEN Nil ELSE t[1]) /\ m.freeLen = Len(t)
    BY <1>1, <1>3, <1>6, <2>1, <2>2, <2>3
  <2>5. ASSUME NEW i \in 1 .. Len(t)
        PROVE  m.next[t[i]] = IF i = Len(t) THEN Nil ELSE t[i + 1]
    <3>1. t[i] = s[i + 1] /\ i + 1 \in 1 .. Len(s) /\ s[i + 1] # g /\ s[i + 1] \in Refs
      BY <1>1, <2>1, <2>2
    <3>2. i # Len(t) => t[i + 1] = s[i + 1 + 1]
      BY <1>1, <2>1, <2>2
    <3>. QED BY <1>1, <1>3, <2>1, <2>3, <3>1, <3>2
  <2>. QED BY <2>4, <2>5 DEF Parks, t
<1>. QED BY <1>3, <1>4, <1>5, <1>6 DEF m

\* A released group heads the free list, unless that is full.
LEMMA ReleaseParks ==
  ASSUME NEW l \in Pointers, NEW s \in Seq(Refs), Parks(l, s),
         NEW g \in Refs, g \notin ToSet(s)
  PROVE  /\ Release(l, g) \in Pointers
         /\ Parks(Release(l, g), IF Len(s) >= MaxFreeGroups THEN s ELSE <<g>> \o s)
         /\ Release(l, g).first = l.first /\ Release(l, g).last = l.last
         /\ \A r \in Refs : r # g => /\ Release(l, g).prev[r] = l.prev[r]
                                     /\ Release(l, g).next[r] = l.next[r]
<1> DEFINE m == Release(l, g)
<1>1. l.freeLen = Len(s) /\ Len(s) \in Nat
  BY LenProperties DEF Parks
<1>2. CASE Len(s) >= MaxFreeGroups
  BY <1>1, <1>2 DEF Release
<1>3. CASE ~(Len(s) >= MaxFreeGroups)
  <2> DEFINE t == <<g>> \o s
  <2>1. /\ t \in Seq(Refs) /\ Len(t) = Len(s) + 1 /\ t[1] = g
        /\ \A i \in 2 .. Len(s) + 1 : t[i] = s[i - 1]
    OBVIOUS
  <2>2. t # <<>> /\ (s = <<>> <=> Len(s) = 0)
    BY <1>1, <2>1, EmptySeq
  <2>3. \A i \in 1 .. Len(s) : s[i] \in Refs /\ s[i] # g
    BY ElementOfSeq, LenProperties DEF ToSet
  <2>4. /\ m.first = l.first /\ m.last = l.last
        /\ m.free = g /\ m.freeLen = l.freeLen + 1
        /\ \A r \in Refs : /\ m.prev[r] = IF r = g THEN Nil ELSE l.prev[r]
                           /\ m.next[r] = IF r = g THEN l.free ELSE l.next[r]
    BY <1>1, <1>3 DEF Release, Pointers
  <2>5. m \in Pointers
    <3>1. l.freeLen + 1 \in Nat /\ m = [l EXCEPT !.free = g, !.freeLen = @ + 1,
                                         !.prev[g] = Nil, !.next[g] = l.free]
      BY <1>1, <1>3 DEF Release
    <3> HIDE DEF m
    <3>. QED BY <3>1 DEF Pointers, Address
  <2> HIDE DEF m, t
  <2>6. ASSUME NEW i \in 1 .. Len(t)
        PROVE  m.next[t[i]] = IF i = Len(t) THEN Nil ELSE t[i + 1]
    <3>1. CASE i = 1
      <4>1. s # <<>> => t[2] = s[1]
        BY <1>1, <2>1, <2>2
      <4>. QED BY <1>1, <2>1, <2>2, <2>4, <3>1, <4>1 DEF Parks
    <3>2. CASE i # 1
      <4>1. i - 1 \in 1 .. Len(s) /\ t[i] = s[i - 1] /\ (i # Len(t) => t[i + 1] = s[i])
        BY <1>1, <2>1, <3>2
      <4>2. l.next[s[i - 1]] = IF i - 1 = Len(s) THEN Nil ELSE s[i - 1 + 1]
        BY <4>1 DEF Parks
      <4>. QED BY <1>1, <2>1, <2>3, <2>4, <4>1, <4>2
    <3>. QED BY <3>1, <3>2
  <2>7. Parks(m, t)
    BY <1>1, <2>1, <2>2, <2>4, <2>6 DEF Parks
  <2>. QED BY <1>3, <2>4, <2>5, <2>7 DEF m, t
<1>. QED BY <1>2, <1>3

-----------------------------------------------------------------------------
(* The steps.                                                               *)

IInv == Inv /\ PointersMatch

\* What the invariant says of the two lists.
LEMMA PointerFacts ==
  ASSUME IInv
  PROVE  /\ list \in Pointers /\ Threads(list, order) /\ Parks(list, free)
         /\ order \in Seq(Refs) /\ IsInjective(order) /\ Linked = ToSet(order)
         /\ free \in Seq(Refs) /\ IsInjective(free)
         /\ ToSet(order) \subseteq Refs /\ ToSet(free) \subseteq Refs
         /\ ToSet(order) \intersect ToSet(free) = {}
         /\ \A k \in Keys : groups[k] # Nil => groups[k] \in ToSet(order)
<1>1. order \in Seq(Refs) /\ free \in Seq(Refs)
  BY DEF IInv, Inv, TypeOK
<1>2. ToSet(order) \subseteq Refs /\ ToSet(free) \subseteq Refs
  BY <1>1, ElementOfSeq, LenProperties DEF ToSet
<1>. QED BY <1>1, <1>2 DEF IInv, Inv, PointersMatch, Owned, Mapped, Linked

\* The key of a call of AddAt.
LEMMA CalledKey ==
  ASSUME IInv, Running("AddAt")
  PROVE  Top.key \in Keys
BY TopFrame, AddFramePc DEF Running, IInv, Inv, TypeOK

\* A pending group is detached.
LEMMA DetachStep ==
  ASSUME IInv, NEW g \in Linked, order' = Detached(g), free' = free,
         list' = Detach(list, g)
  PROVE  PointersMatch'
<1>1. /\ list' \in Pointers /\ Threads(list', order')
      /\ list'.free = list.free /\ list'.freeLen = list.freeLen
      /\ \A r \in Refs : r \notin ToSet(order) => list'.next[r] = list.next[r]
  BY PointerFacts, DetachThreads DEF Detached
<1>2. \A r \in ToSet(free) : list'.next[r] = list.next[r]
  BY <1>1, PointerFacts
<1>3. Parks(list', free)
  BY <1>1, <1>2, PointerFacts, KeepsParks
<1>. QED BY <1>1, <1>3 DEF PointersMatch

LEMMA DetachByKeyStep ==
  ASSUME IInv, IDetachByKey
  PROVE  PointersMatch'
<1>1. CASE (Break \/ Drain) /\ list' = Detach(list, groups[Top.key])
  <2>1. Running("AddAt") /\ groups[Top.key] # Nil
    BY <1>1 DEF Break, Drain, At, KeyIsFree
  <2>2. groups[Top.key] \in Linked
    BY <2>1, CalledKey, PointerFacts
  <2>3. order' = Detached(groups[Top.key]) /\ free' = free
    BY <1>1 DEF Break, Drain, Unlink
  <2>. QED BY <1>1, <2>2, <2>3, DetachStep
<1>2. ASSUME NEW k \in Keys, CallFlush(k), list' = Detach(list, groups[k])
      PROVE  PointersMatch'
  <2>1. groups[k] \in Linked /\ order' = Detached(groups[k]) /\ free' = free
    BY <1>2, PointerFacts DEF CallFlush, Unlink
  <2>. QED BY <1>2, <2>1, DetachStep
<1>. QED BY <1>1, <1>2 DEF IDetachByKey

\* The group that first points to is the head of the list.
LEMMA DetachFirstStep ==
  ASSUME IInv, IDetachFirst
  PROVE  PointersMatch'
<1>1. order # <<>> /\ order' = Detached(Head(order)) /\ free' = free
      /\ list' = Detach(list, list.first)
  BY PointerFacts, EmptySeq DEF IDetachFirst, Evict, OverCaps, FlushFirst, Stale, Unlink
<1>2. Head(order) \in Linked /\ list.first = Head(order)
  <2>1. Head(order) \in ToSet(order) /\ Head(order) = order[1]
    BY <1>1, PointerFacts, TailSet, HeadTailProperties
  <2>. QED BY <1>1, <2>1, PointerFacts DEF Threads
<1>. QED BY <1>1, <1>2, DetachStep

LEMMA ContinuePointers ==
  ASSUME IInv, IContinue
  PROVE  PointersMatch'
<1> DEFINE g     == groups[Top.key]
           moved == MoveLast(list, g)
<1>1. Running("AddAt") /\ g # Nil /\ free' = free
  BY DEF IContinue, Continue, At
<1>2. g \in ToSet(order)
  BY <1>1, CalledKey, PointerFacts
<1>3. stack \in Seq(Frame) /\ stack # <<>> /\ g \in Refs
  BY <1>1, <1>2, PointerFacts DEF Running, IInv, Inv, TypeOK
<1>4. \/ FlushesNow /\ order' = Detached(g)
      \/ ~FlushesNow /\ order' = MovedLast(g)
  <2>1. CASE /\ order' = Detached(g)
             /\ stack' = Push(SetTop([Top EXCEPT !.pc = "return"]), FlushOf(g))
    <3>1. /\ SetTop([Top EXCEPT !.pc = "return"]) \in Seq(Frame)
          /\ Len(SetTop([Top EXCEPT !.pc = "return"])) = Len(stack)
      BY <1>1, PcStep DEF IInv
    <3>2. FlushOf(g) \in Frame /\ FlushOf(g).op = "flush"
      BY <1>3, FlushOfFrame
    <3>3. Len(stack') = Len(stack) + 1 /\ Last(stack') = FlushOf(g) /\ Len(stack) \in Nat
      BY <1>3, <2>1, <3>1, <3>2, PushProperties, LastOfPush, LenProperties
    <3>. QED BY <2>1, <3>2, <3>3 DEF FlushesNow
  <2>2. CASE /\ order' = MovedLast(g)
             /\ stack' = SetTop([Top EXCEPT
                  !.pc = IF MaxTotalBytes > 0 THEN "evict" ELSE "return"])
    <3>1. Len(stack') = Len(stack) /\ Len(stack) \in Nat
      BY <1>1, <1>3, <2>2, PcStep, LenProperties DEF IInv
    <3>. QED BY <2>2, <3>1 DEF FlushesNow
  <2>. QED BY <2>1, <2>2 DEF IContinue, Continue
<1>5. list' = IF FlushesNow THEN Detach(moved, g) ELSE moved
  BY DEF IContinue
<1>6. /\ moved \in Pointers /\ Threads(moved, MovedLast(g))
      /\ moved.free = list.free /\ moved.freeLen = list.freeLen
      /\ \A r \in Refs : r \notin ToSet(order) => moved.next[r] = list.next[r]
  BY <1>2, PointerFacts, MoveLastThreads DEF MovedLast, Detached
<1>7. /\ Detached(g) \in Seq(Refs) /\ IsInjective(Detached(g))
      /\ ToSet(Detached(g)) = ToSet(order) \ {g}
  BY <1>2, PointerFacts, RemoveFirstSet DEF Detached
<1>8. /\ MovedLast(g) \in Seq(Refs) /\ IsInjective(MovedLast(g))
      /\ ToSet(MovedLast(g)) = ToSet(order)
  <2> HIDE DEF g
  <2>1. g \notin ToSet(Detached(g)) /\ ToSet(order) = ToSet(Detached(g)) \union {g}
    BY <1>2, <1>7
  <2> DEFINE d == Detached(g)
  <2> HIDE DEF d
  <2>2. /\ Append(d, g) \in Seq(Refs) /\ IsInjective(Append(d, g))
        /\ ToSet(Append(d, g)) = ToSet(d) \union {g}
    BY <1>3, <1>7, <2>1, AppendSet DEF d
  <2>. QED BY <2>1, <2>2 DEF MovedLast, d
<1> HIDE DEF moved, g
<1>9. Parks(moved, free)
  <2>1. \A r \in ToSet(free) : moved.next[r] = list.next[r]
    BY <1>6, PointerFacts
  <2>. QED BY <1>6, <2>1, PointerFacts, KeepsParks
<1>10. CASE ~FlushesNow
  BY <1>1, <1>4, <1>5, <1>6, <1>9, <1>10 DEF PointersMatch
<1>11. CASE FlushesNow
  <2> DEFINE m == Detach(moved, g)
  <2>1. /\ m \in Pointers /\ Threads(m, RemoveFirst(MovedLast(g), g))
        /\ m.free = moved.free /\ m.freeLen = moved.freeLen
        /\ \A r \in Refs : r \notin ToSet(order) => m.next[r] = moved.next[r]
    BY <1>2, <1>6, <1>8, DetachThreads
  <2>2. RemoveFirst(MovedLast(g), g) = Detached(g)
    BY <1>3, <1>7, RemoveAppended DEF MovedLast
  <2> HIDE DEF m
  <2>3. \A r \in ToSet(free) : m.next[r] = moved.next[r]
    BY <2>1, PointerFacts
  <2>4. Parks(m, free)
    BY <1>9, <2>1, <2>3, PointerFacts, KeepsParks
  <2>. QED BY <1>1, <1>4, <1>5, <1>11, <2>1, <2>2, <2>4 DEF PointersMatch, m
<1>. QED BY <1>10, <1>11

LEMMA ReleaseStep ==
  ASSUME IInv, IRelease
  PROVE  PointersMatch'
<1> DEFINE g == Top.ref
<1>1. /\ Running("flush") /\ order' = order /\ list' = Release(list, g)
      /\ free' = IF Len(free) >= MaxFreeGroups THEN free ELSE <<g>> \o free
  BY DEF IRelease, FlushDone, Released
<1>2. g \in Refs /\ g \notin ToSet(order) /\ g \notin ToSet(free)
  <2>1. Len(stack) \in 1 .. Len(stack) /\ Top = stack[Len(stack)] /\ Top.op = "flush"
        /\ g \in Refs
    BY <1>1, FlushingTop DEF IInv
  <2>2. FlushOK(Top)
    BY <2>1 DEF IInv, Inv, Flushing
  <2>. QED BY <2>1, <2>2 DEF FlushOK, Linked
<1> HIDE DEF g
<1>3. /\ list' \in Pointers /\ Parks(list', free')
      /\ list'.first = list.first /\ list'.last = list.last
      /\ \A r \in Refs : r # g => /\ list'.prev[r] = list.prev[r]
                                  /\ list'.next[r] = list.next[r]
  BY <1>1, <1>2, PointerFacts, ReleaseParks
<1>4. \A r \in ToSet(order) : list'.prev[r] = list.prev[r] /\ list'.next[r] = list.next[r]
  BY <1>2, <1>3, PointerFacts
<1>5. Threads(list', order')
  BY <1>1, <1>3, <1>4, PointerFacts, KeepsThreads
<1>. QED BY <1>3, <1>5 DEF PointersMatch

LEMMA ClaimPointers ==
  ASSUME IInv, IClaim
  PROVE  PointersMatch'
<1> DEFINE next == Step(Top.line, {StartState}).next
           h    == NewGroup(Top.key, Top.line, Top.when, Top.data)
           st(pc) == SetTop([Top EXCEPT !.pc = pc])
<1>1. PICK g \in Refs :
        /\ Allocates(g)
        /\ \/ /\ stack' = Push(st("return"), FlushOf(g))
              /\ order' = order
           \/ /\ order' = Append(order, g)
              /\ stack' = st("evict")
  BY DEF IClaim, Claim
<1>2. /\ Running("AddAt") /\ stack \in Seq(Frame) /\ Len(stack) \in Nat
      /\ st("return") \in Seq(Frame) /\ Len(st("return")) = Len(stack)
      /\ Len(st("evict")) = Len(stack)
  BY PcStep, LenProperties DEF IClaim, Claim, At, IInv, Inv, TypeOK
<1>3. /\ g \notin ToSet(order) /\ free' \in Seq(Refs)
      /\ ToSet(free') \subseteq ToSet(free) /\ g \notin ToSet(free')
  BY <1>1, AllocatesProperties DEF IInv, Linked
<1> HIDE DEF st
<1>4. \/ FlushesNow /\ order' = order /\ Last(stack').ref = g
      \/ ~FlushesNow /\ order' = Append(order, g) /\ Last(order') = g
  <2>1. CASE stack' = Push(st("return"), FlushOf(g)) /\ order' = order
    <3>1. FlushOf(g) \in Frame /\ FlushOf(g).op = "flush" /\ FlushOf(g).ref = g
      BY <1>1, FlushOfFrame
    <3>2. Len(stack') = Len(stack) + 1 /\ Last(stack') = FlushOf(g)
      BY <1>2, <2>1, <3>1, PushProperties, LastOfPush
    <3>. QED BY <1>2, <2>1, <3>1, <3>2 DEF FlushesNow
  <2>2. CASE order' = Append(order, g) /\ stack' = st("evict")
    <3>1. ~FlushesNow
      BY <1>2, <2>2 DEF FlushesNow
    <3>2. Last(order') = g
      BY <2>2, PointerFacts, AppendProperties DEF Last
    <3>. QED BY <2>2, <3>1, <3>2
  <2>. QED BY <1>1, <2>1, <2>2
<1> DEFINE new    == Acquire(list, g)
           linked == Link(new, g)
<1>5. list' = IF FlushesNow THEN Detach(linked, g) ELSE linked
  BY <1>4 DEF IClaim
<1>6. /\ new \in Pointers /\ Parks(new, free')
      /\ new.first = list.first /\ new.last = list.last
      /\ \A r \in Refs : r # g => new.prev[r] = list.prev[r] /\ new.next[r] = list.next[r]
  <2>1. /\ free # <<>> => g = Head(free)
        /\ free' = IF free = <<>> THEN free ELSE Tail(free)
    BY <1>1 DEF Allocates
  <2>2. /\ new \in Pointers /\ Parks(new, IF free = <<>> THEN free ELSE Tail(free))
        /\ new.first = list.first /\ new.last = list.last
        /\ \A r \in Refs : r # g => new.prev[r] = list.prev[r] /\ new.next[r] = list.next[r]
    BY <2>1, PointerFacts, AcquireParks
  <2>. QED BY <2>1, <2>2
<1> HIDE DEF new
<1>7. Threads(new, order)
  <2>1. \A r \in ToSet(order) : new.prev[r] = list.prev[r] /\ new.next[r] = list.next[r]
    BY <1>3, <1>6, PointerFacts
  <2>. QED BY <1>6, <2>1, PointerFacts, KeepsThreads
<1>8. /\ linked \in Pointers /\ Threads(linked, Append(order, g))
      /\ linked.free = new.free /\ linked.freeLen = new.freeLen
      /\ \A r \in Refs : r # g /\ r \notin ToSet(order) => linked.next[r] = new.next[r]
  BY <1>3, <1>6, <1>7, PointerFacts, LinkThreads
<1> HIDE DEF linked
<1>9. ToSet(free') \subseteq Refs /\ ToSet(free') \intersect ToSet(order) = {}
  BY <1>3, PointerFacts
<1>10. Parks(linked, free')
  <2>1. \A r \in ToSet(free') : linked.next[r] = new.next[r]
    BY <1>3, <1>8, <1>9
  <2>. QED BY <1>3, <1>6, <1>8, <2>1, KeepsParks
<1>11. CASE ~FlushesNow
  BY <1>4, <1>5, <1>8, <1>10, <1>11 DEF PointersMatch
<1>12. CASE FlushesNow
  <2> DEFINE t == Append(order, g)
             m == Detach(linked, g)
  <2>1. t \in Seq(Refs) /\ IsInjective(t) /\ ToSet(t) = ToSet(order) \union {g}
    BY <1>3, PointerFacts, AppendSet
  <2>2. RemoveFirst(t, g) = order
    BY <1>3, PointerFacts, RemoveAppended
  <2> HIDE DEF t
  <2>3. /\ m \in Pointers /\ Threads(m, RemoveFirst(t, g))
        /\ m.free = linked.free /\ m.freeLen = linked.freeLen
        /\ \A r \in Refs : r \notin ToSet(t) => m.next[r] = linked.next[r]
    BY ZenonT(30), <1>8, <2>1, DetachThreads DEF t
  <2> HIDE DEF m
  <2>4. \A r \in ToSet(free') : m.next[r] = linked.next[r]
    BY <1>3, <1>9, <2>1, <2>3
  <2>5. Parks(m, free')
    BY <1>3, <1>10, <2>3, <2>4, KeepsParks
  <2>. QED BY <1>4, <1>5, <1>12, <2>2, <2>3, <2>5 DEF PointersMatch, m
<1>. QED BY <1>11, <1>12

\* No other step changes a list or a pointer.
LEMMA ElseStep ==
  ASSUME IInv, IElse
  PROVE  PointersMatch'
<1>1. UNCHANGED <<order, free, list>>
  BY DEF IElse, Tick, CallAdd, CallAddAt, CallAddBypass, CallAddAtBypass,
         CallFlushBefore, CallStop, Emitter, EmitterSucceeds, EmitterFails,
         EmitterReturns, Miss, PassThrough, Starts,
         AddReturns, LoopReturns, FlushPrefix, FlushLine, EmitFromGroup, FlushAborts,
         aggregator
<1>. QED BY <1>1 DEF IInv, PointersMatch

-----------------------------------------------------------------------------
(* The theorems.                                                            *)

LEMMA IInitIInv == IInit => IInv
<1>. SUFFICES ASSUME IInit PROVE IInv
  OBVIOUS
<1>1. Inv
  BY InitInv DEF IInit
<1>2. order = <<>> /\ free = <<>> /\ Len(<<>>) = 0
  BY DEF IInit, Init
<1>3. list \in Pointers
  BY DEF IInit, Pointers, Address
<1>4. Threads(list, order) /\ Parks(list, free)
  BY <1>2 DEF IInit, Threads, Parks
<1>. QED BY <1>1, <1>3, <1>4 DEF IInv, PointersMatch

\* A step with pointers is a step of Multiline.
LEMMA INextNext == [INext]_ivars => [Next]_vars
BY DEF INext, ivars, IContinue, IDetachByKey, IClaim, IDetachFirst, IRelease, IElse,
       Next, Calls, Machine, AddAt, FlushLoop, Flush

LEMMA INextIInv == IInv /\ [INext]_ivars => IInv'
<1>. SUFFICES ASSUME IInv, [INext]_ivars PROVE IInv'
  OBVIOUS
<1>1. Inv'
  BY INextNext, NextInv DEF IInv
<1>2. ASSUME UNCHANGED ivars PROVE PointersMatch'
  BY <1>2 DEF ivars, vars, aggregator, IInv, PointersMatch
<1>3. ASSUME INext PROVE PointersMatch'
  BY <1>3, ContinuePointers, DetachByKeyStep, ClaimPointers, DetachFirstStep, ReleaseStep,
     ElseStep DEF INext
<1>. QED BY <1>1, <1>2, <1>3 DEF IInv

\* Whatever calls an emitter makes, and however many groups there are, first, last, prev
\* and next stand for the last-touched list, and free, freeLen and next for the parked
\* groups (link, detach, moveLast, newGroup, release: multiline.go:626-705).
THEOREM PointersStandForLists == ISpec => []PointersMatch
<1>1. IInv => PointersMatch
  BY DEF IInv
<1>. QED BY <1>1, IInitIInv, INextIInv, PTL DEF ISpec

\* The pointers add nothing and take nothing away: every behaviour with them is one of
\* the aggregator, so what is proved of Spec holds of the code that follows pointers.
THEOREM PointersRefine == ISpec => Spec
<1>1. IInit => Init
  BY DEF IInit
<1>. QED BY <1>1, INextNext, PTL DEF ISpec, Spec
=============================================================================
