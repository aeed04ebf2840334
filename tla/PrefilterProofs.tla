-------------------------- MODULE PrefilterProofs ---------------------------
(***************************************************************************)
(* The literal prefilter, for every set of patterns, lines and literals    *)
(* and every width of the masks: a scan finds exactly the candidates the   *)
(* literals in the text imply, by the loop and by the automaton, and a     *)
(* transition that is no candidate does not match.                         *)
(*                                                                         *)
(* The automaton is followed through the folds that build it: a node of    *)
(* the trie stands for the prefix that leads to it, the search visits the  *)
(* nodes by their depth, the failure link of a node is the longest proper  *)
(* suffix that is in the trie too, and so the state after a text is the    *)
(* longest suffix of the text in the trie, which reports all literals that *)
(* end there.                                                              *)
(*                                                                         *)
(* The filter is followed through sorting, folding and partition: each     *)
(* probe keeps a literal it contains and the bits it had, and the stem of  *)
(* a child comes before the child.                                         *)
(***************************************************************************)
EXTENDS Prefilter, SeqLemmas

\* The operators that are folded; only Follow has a context, the automaton.
DescendIn(none, walk, c)    == Descend(walk, c)
InsertIn(none, trie, probe) == Insert(trie, probe)
VisitIn(none, bfs, i)       == Visit(bfs, i)

DescendClimb == INSTANCE Ladder WITH Op <- DescendIn
InsertClimb  == INSTANCE Ladder WITH Op <- InsertIn
FollowClimb  == INSTANCE Ladder WITH Op <- Follow
VisitClimb   == INSTANCE Ladder WITH Op <- VisitIn
-----------------------------------------------------------------------------
(* Strings: a is a suffix of s.                                             *)

\* The bytes of a are the last ones of s.
Suffix(a, s) ==
  Len(a) <= Len(s) /\ \A j \in 1 .. Len(a) : a[j] = s[Len(s) - Len(a) + j]

\* A string is a suffix of itself, and the empty one is of every string.
LEMMA SuffixRefl ==
  ASSUME NEW S, NEW s \in Seq(S)
  PROVE  Suffix(s, s) /\ Suffix(<<>>, s)
<1>1. Len(s) \in Nat
  BY LenProperties
<1>2. Len(<<>>) = 0
  BY EmptySeq
<1>. QED BY <1>1, <1>2 DEF Suffix

\* A suffix of a suffix is a suffix.
LEMMA SuffixTrans ==
  ASSUME NEW S, NEW a \in Seq(S), NEW b \in Seq(S), NEW s \in Seq(S),
         Suffix(a, b), Suffix(b, s)
  PROVE  Suffix(a, s)
<1>1. Len(a) \in Nat /\ Len(b) \in Nat /\ Len(s) \in Nat
  BY LenProperties
<1>2. Len(a) <= Len(b) /\ Len(b) <= Len(s)
  BY DEF Suffix
<1>3. ASSUME NEW j \in 1 .. Len(a) PROVE a[j] = s[Len(s) - Len(a) + j]
  <2>0. Len(b) - Len(a) + j \in 1 .. Len(b)
    BY <1>1, <1>2
  <2>1. PICK k \in 1 .. Len(b) : k = Len(b) - Len(a) + j
    BY <2>0
  <2>2. a[j] = b[k]
    BY <2>1 DEF Suffix
  <2>3. b[k] = s[Len(s) - Len(b) + k]
    BY DEF Suffix
  <2>4. Len(s) - Len(b) + k = Len(s) - Len(a) + j
    BY <1>1, <2>1
  <2>. QED BY <2>2, <2>3, <2>4
<1>. QED BY <1>1, <1>2, <1>3 DEF Suffix

\* A suffix that is no shorter is the string.
LEMMA SuffixEqual ==
  ASSUME NEW S, NEW a \in Seq(S), NEW s \in Seq(S), Suffix(a, s), Len(a) >= Len(s)
  PROVE  a = s
<1>1. Len(a) \in Nat /\ Len(s) \in Nat /\ Len(a) = Len(s)
  BY LenProperties DEF Suffix
<1>2. \A j \in 1 .. Len(a) : a[j] = s[j]
  BY <1>1 DEF Suffix
<1>. QED BY <1>1, <1>2, SeqEqual

\* Two strings that end in a byte: the one is a suffix if the bytes are the same and so is the rest.
LEMMA SuffixAppend ==
  ASSUME NEW S, NEW a \in Seq(S), NEW s \in Seq(S), NEW c \in S, NEW d \in S
  PROVE  Suffix(Append(a, c), Append(s, d)) <=> c = d /\ Suffix(a, s)
<1>1. /\ Len(Append(a, c)) = Len(a) + 1 /\ Len(a) \in Nat
      /\ \A i \in 1 .. Len(a) : Append(a, c)[i] = a[i]
      /\ Append(a, c)[Len(a) + 1] = c
  BY AppendProperties, LenProperties
<1>2. /\ Len(Append(s, d)) = Len(s) + 1 /\ Len(s) \in Nat
      /\ \A i \in 1 .. Len(s) : Append(s, d)[i] = s[i]
      /\ Append(s, d)[Len(s) + 1] = d
  BY AppendProperties, LenProperties
<1>3. PICK b, t, m, n : b = Append(a, c) /\ t = Append(s, d) /\ m = Len(a) /\ n = Len(s)
  OBVIOUS
<1>4. ASSUME Suffix(b, t) PROVE c = d /\ Suffix(a, s)
  <2>0. Len(b) = m + 1 /\ Len(t) = n + 1 /\ m \in Nat /\ n \in Nat
    BY <1>1, <1>2, <1>3
  <2>1. m <= n /\ \A j \in 1 .. m + 1 : b[j] = t[(n + 1) - (m + 1) + j]
    <3>1. m + 1 <= n + 1 /\ \A j \in 1 .. m + 1 : b[j] = t[(n + 1) - (m + 1) + j]
      BY <1>4, <2>0 DEF Suffix
    <3>. QED BY <2>0, <3>1
  <2>2. c = d
    <3>1. m + 1 \in 1 .. m + 1 /\ (n + 1) - (m + 1) + (m + 1) = n + 1
      BY <1>1, <1>2, <1>3
    <3>2. b[m + 1] = t[n + 1]
      BY <2>1, <3>1
    <3>. QED BY <1>1, <1>2, <1>3, <3>2
  <2>3. ASSUME NEW j \in 1 .. m PROVE a[j] = s[n - m + j]
    <3>1. /\ j \in 1 .. m + 1 /\ (n + 1) - (m + 1) + j = n - m + j
          /\ n - m + j \in 1 .. n
      BY <1>1, <1>2, <1>3, <2>1
    <3>2. b[j] = t[n - m + j]
      BY <2>1, <3>1
    <3>. QED BY <1>1, <1>2, <1>3, <3>1, <3>2
  <2>. QED BY <1>3, <2>1, <2>2, <2>3 DEF Suffix
<1>5. ASSUME c = d, Suffix(a, s) PROVE Suffix(b, t)
  <2>1. m <= n /\ \A j \in 1 .. m : a[j] = s[n - m + j]
    BY <1>3, <1>5 DEF Suffix
  <2>2. Len(b) = m + 1 /\ Len(t) = n + 1 /\ m \in Nat /\ n \in Nat
    BY <1>1, <1>2, <1>3
  <2>3. ASSUME NEW j \in 1 .. m + 1 PROVE b[j] = t[(n + 1) - (m + 1) + j]
    <3>1. CASE j = m + 1
      <4>1. (n + 1) - (m + 1) + j = n + 1
        BY <2>2, <3>1
      <4>. QED BY <1>1, <1>2, <1>3, <1>5, <3>1, <4>1
    <3>2. CASE j # m + 1
      <4>1. /\ j \in 1 .. m /\ (n + 1) - (m + 1) + j = n - m + j
            /\ n - m + j \in 1 .. n
        BY <2>1, <2>2, <3>2
      <4>2. b[j] = a[j] /\ t[n - m + j] = s[n - m + j]
        BY <1>1, <1>2, <1>3, <4>1
      <4>. QED BY <2>1, <4>1, <4>2
    <3>. QED BY <3>1, <3>2
  <2>4. m + 1 <= n + 1
    BY <2>1, <2>2
  <2>. QED BY <2>2, <2>3, <2>4 DEF Suffix
<1>. QED BY <1>3, <1>4, <1>5

\* The text read so far.
Read(text, m) == SubSeq(text, 1, m)

\* What is read of a text grows by one byte at a time.
LEMMA ReadMore ==
  ASSUME NEW S, NEW text \in Seq(S)
  PROVE  /\ Len(text) \in Nat
         /\ Read(text, 0) = <<>>
         /\ \A m \in 0 .. Len(text) : Read(text, m) \in Seq(S) /\ Len(Read(text, m)) = m
         /\ \A m \in 0 .. Len(text) : \A j \in 1 .. m : Read(text, m)[j] = text[j]
         /\ \A m \in 1 .. Len(text) :
              text[m] \in S /\ Read(text, m) = Append(Read(text, m - 1), text[m])
<1>1. Len(text) \in Nat /\ \A i \in 1 .. Len(text) : text[i] \in S
  BY LenProperties, ElementOfSeq
<1>2. ASSUME NEW m \in 0 .. Len(text)
      PROVE  /\ Read(text, m) \in Seq(S) /\ Len(Read(text, m)) = m
             /\ \A j \in 1 .. m : Read(text, m)[j] = text[j]
  <2>1. \A i \in 1 .. m : text[i] \in S
    BY <1>1
  <2>2. /\ SubSeq(text, 1, m) \in Seq(S)
        /\ Len(SubSeq(text, 1, m)) = IF 1 <= m THEN m - 1 + 1 ELSE 0
        /\ \A i \in 1 .. m - 1 + 1 : SubSeq(text, 1, m)[i] = text[1 + i - 1]
    BY <2>1, SubSeqProperties
  <2>. QED BY <2>2 DEF Read
<1>3. Read(text, 0) = <<>>
  <2>1. Read(text, 0) \in Seq(S) /\ Len(Read(text, 0)) = 0
    BY <1>1, <1>2
  <2>. QED BY <2>1, EmptySeq
<1>4. ASSUME NEW m \in 1 .. Len(text)
      PROVE  text[m] \in S /\ Read(text, m) = Append(Read(text, m - 1), text[m])
  <2>0. m - 1 \in 0 .. Len(text) /\ m \in 0 .. Len(text)
    BY <1>1
  <2>1. PICK r \in Seq(S), q \in Seq(S) : r = Read(text, m) /\ q = Read(text, m - 1)
    BY <1>2, <2>0
  <2>2. /\ Len(r) = m /\ \A j \in 1 .. m : r[j] = text[j]
        /\ Len(q) = m - 1 /\ \A j \in 1 .. m - 1 : q[j] = text[j]
    BY <1>2, <2>0, <2>1
  <2>3. /\ Append(q, text[m]) \in Seq(S) /\ Len(Append(q, text[m])) = m
        /\ \A j \in 1 .. m - 1 : Append(q, text[m])[j] = text[j]
        /\ Append(q, text[m])[m] = text[m]
    BY <1>1, <2>2, AppendProperties
  <2>4. \A j \in 1 .. m : r[j] = Append(q, text[m])[j]
    <3>1. \A j \in 1 .. m : j = m \/ j \in 1 .. m - 1
      OBVIOUS
    <3>. QED BY <2>2, <2>3, <3>1
  <2>5. r = Append(q, text[m])
    BY <2>2, <2>3, <2>4, SeqEqual
  <2>. QED BY <1>1, <2>1, <2>5
<1>. QED BY <1>1, <1>2, <1>3, <1>4
-----------------------------------------------------------------------------
(* Trees of strings: the nodes of a trie stand for the strings that lead to *)
(* them from the root.                                                      *)

\* The nodes U of a trie: str is the string that leads to a node, the empty one to the root.
Tree(U, next, str) ==
  /\ Root \in U /\ str \in [U -> Seq(Bytes)] /\ str[Root] = <<>>
  /\ next \in [U -> [Bytes -> U]]
  /\ \A u, v \in U : str[u] = str[v] => u = v
  /\ \A u \in U, c \in Bytes : next[u][c] # Root => str[next[u][c]] = Append(str[u], c)
  /\ \A v \in U \ {Root} : \E u \in U, c \in Bytes : next[u][c] = v

\* The edges of a tree are all those there could be between its nodes.
LEMMA TreeEdges ==
  ASSUME NEW U, NEW next, NEW str, Tree(U, next, str)
  PROVE  /\ \A v \in U \ {Root} : \E u \in U, c \in Bytes :
              next[u][c] = v /\ str[v] = Append(str[u], c)
         /\ \A u, w \in U, c \in Bytes : str[w] = Append(str[u], c) => next[u][c] = w
<1>1. \A v \in U \ {Root} : \E u \in U, c \in Bytes :
        next[u][c] = v /\ str[v] = Append(str[u], c)
  <2>1. ASSUME NEW v \in U \ {Root}
        PROVE  \E u \in U, c \in Bytes : next[u][c] = v /\ str[v] = Append(str[u], c)
    <3>1. PICK u \in U, c \in Bytes : next[u][c] = v
      BY DEF Tree
    <3>2. str[next[u][c]] = Append(str[u], c)
      BY <3>1 DEF Tree
    <3>. QED BY <3>1, <3>2
  <2>. QED BY <2>1
<1>2. ASSUME NEW u \in U, NEW w \in U, NEW c \in Bytes, str[w] = Append(str[u], c)
      PROVE  next[u][c] = w
  <2>1. str[u] \in Seq(Bytes)
    BY DEF Tree
  <2>2. w # Root
    <3>1. Append(str[u], c) # <<>>
      BY <2>1, AppendProperties
    <3>. QED BY <1>2, <3>1 DEF Tree
  <2>3. PICK p \in U, d \in Bytes : next[p][d] = w /\ str[w] = Append(str[p], d)
    BY <1>1, <2>2
  <2>4. str[p] \in Seq(Bytes)
    BY DEF Tree
  <2>5. str[p] = str[u] /\ d = c
    <3>1. Append(str[p], d) = Append(str[u], c)
      BY <1>2, <2>3
    <3>2. PICK a \in Seq(Bytes), b \in Seq(Bytes) : a = str[p] /\ b = str[u]
      BY <2>1, <2>4
    <3>3. Append(a, d) = Append(b, c)
      BY <3>1, <3>2
    <3>4. a = b /\ d = c
      BY <3>3, AppendInjective
    <3>. QED BY <3>2, <3>4
  <2>. QED BY <2>3, <2>5 DEF Tree
<1>. QED BY <1>1, <1>2

\* v is the node of the longest suffix of s that is in the tree; so every string of
\* the tree that is a suffix of s is one of that suffix.
Longest(U, str, v, s) ==
  /\ v \in U /\ Suffix(str[v], s)
  /\ \A w \in U : Suffix(str[w], s) => Suffix(str[w], str[v])

\* f is the node of the longest suffix of the string of u that is not that string.
Proper(U, str, f, u) ==
  /\ f \in U /\ f # u /\ Suffix(str[f], str[u])
  /\ \A w \in U : w # u /\ Suffix(str[w], str[u]) => Suffix(str[w], str[f])

\* A string of the tree that ends s c: the root, or a string of the tree that ends s,
\* and c.
LEMMA SuffixParent ==
  ASSUME NEW U, NEW next, NEW str, Tree(U, next, str), NEW w \in U, w # Root,
         NEW s \in Seq(Bytes), NEW c \in Bytes, Suffix(str[w], Append(s, c))
  PROVE  \E p \in U : str[p] \in Seq(Bytes) /\ str[w] = Append(str[p], c) /\ Suffix(str[p], s)
<1>1. PICK p \in U, d \in Bytes : next[p][d] = w /\ str[w] = Append(str[p], d)
  BY TreeEdges
<1>2. str[p] \in Seq(Bytes)
  BY DEF Tree
<1>3. d = c /\ Suffix(str[p], s)
  BY <1>1, <1>2, SuffixAppend
<1>. QED BY <1>1, <1>2, <1>3

\* Reading one more byte from the node of the longest suffix.
LEMMA LongestStep ==
  ASSUME NEW U, NEW next, NEW str, Tree(U, next, str), NEW u \in U, NEW v \in U,
         NEW s \in Seq(Bytes), NEW c \in Bytes,
         Longest(U, str, u, s), Longest(U, str, v, Append(str[u], c))
  PROVE  Longest(U, str, v, Append(s, c))
<1>1. /\ str[u] \in Seq(Bytes) /\ str[v] \in Seq(Bytes)
      /\ Append(s, c) \in Seq(Bytes) /\ Append(str[u], c) \in Seq(Bytes)
  <2>1. str[u] \in Seq(Bytes) /\ str[v] \in Seq(Bytes)
    BY DEF Tree
  <2>. QED BY <2>1, AppendProperties
<1>2. Suffix(Append(str[u], c), Append(s, c))
  BY <1>1, SuffixAppend DEF Longest
<1>3. Suffix(str[v], Append(s, c))
  <2>1. Suffix(str[v], Append(str[u], c))
    BY DEF Longest
  <2>. QED BY <1>1, <1>2, <2>1, SuffixTrans
<1>4. ASSUME NEW w \in U, Suffix(str[w], Append(s, c)) PROVE Suffix(str[w], str[v])
  <2>1. CASE w = Root
    BY <1>1, <2>1, SuffixRefl DEF Tree
  <2>2. CASE w # Root
    <3>1. PICK p \in U : /\ str[p] \in Seq(Bytes) /\ str[w] = Append(str[p], c)
                         /\ Suffix(str[p], s)
      BY <1>4, <2>2, SuffixParent
    <3>2. Suffix(str[p], str[u])
      BY <3>1 DEF Longest
    <3>3. Suffix(str[w], Append(str[u], c))
      BY <1>1, <3>1, <3>2, SuffixAppend
    <3>. QED BY <3>3 DEF Longest
  <2>. QED BY <2>1, <2>2
<1>. QED BY <1>3, <1>4 DEF Longest

\* The strings of the tree that end str[u] c, but not all of it, end str[f] c, where
\* f is what u fails to.
LEMMA ProperStep ==
  ASSUME NEW U, NEW next, NEW str, Tree(U, next, str), NEW u \in U, NEW f \in U,
         NEW v \in U, NEW c \in Bytes,
         Proper(U, str, f, u), Longest(U, str, v, Append(str[f], c))
  PROVE  /\ Suffix(str[v], Append(str[u], c))
         /\ \A w \in U : Suffix(str[w], Append(str[u], c)) =>
              str[w] = Append(str[u], c) \/ Suffix(str[w], str[v])
         /\ str[v] # Append(str[u], c)
<1>1. /\ str[u] \in Seq(Bytes) /\ str[v] \in Seq(Bytes) /\ str[f] \in Seq(Bytes)
      /\ Append(str[u], c) \in Seq(Bytes) /\ Append(str[f], c) \in Seq(Bytes)
      /\ Len(Append(str[u], c)) = Len(str[u]) + 1
      /\ Len(Append(str[f], c)) = Len(str[f]) + 1
      /\ Len(str[u]) \in Nat /\ Len(str[f]) \in Nat /\ Len(str[v]) \in Nat
  <2>1. str[u] \in Seq(Bytes) /\ str[v] \in Seq(Bytes) /\ str[f] \in Seq(Bytes)
    BY DEF Tree
  <2>. QED BY <2>1, AppendProperties, LenProperties
<1>2. Suffix(str[v], Append(str[u], c))
  <2>1. Suffix(Append(str[f], c), Append(str[u], c))
    BY <1>1, SuffixAppend DEF Proper
  <2>2. Suffix(str[v], Append(str[f], c))
    BY DEF Longest
  <2>. QED BY <1>1, <2>1, <2>2, SuffixTrans
<1>3. ASSUME NEW w \in U, Suffix(str[w], Append(str[u], c)), str[w] # Append(str[u], c)
      PROVE  Suffix(str[w], str[v])
  <2>1. CASE w = Root
    BY <1>1, <2>1, SuffixRefl DEF Tree
  <2>2. CASE w # Root
    <3>1. PICK p \in U : /\ str[p] \in Seq(Bytes) /\ str[w] = Append(str[p], c)
                         /\ Suffix(str[p], str[u])
      BY <1>1, <1>3, <2>2, SuffixParent
    <3>2. p # u
      BY <1>3, <3>1
    <3>3. Suffix(str[p], str[f])
      BY <3>1, <3>2 DEF Proper
    <3>4. Suffix(str[w], Append(str[f], c))
      BY <1>1, <3>1, <3>3, SuffixAppend
    <3>. QED BY <3>4 DEF Longest
  <2>. QED BY <2>1, <2>2
<1>4. str[v] # Append(str[u], c)
  <2>1. ~(Len(str[f]) >= Len(str[u]))
    <3>1. SUFFICES ASSUME Len(str[f]) >= Len(str[u]) PROVE FALSE
      OBVIOUS
    <3>2. Suffix(str[f], str[u])
      BY DEF Proper
    <3>3. str[f] = str[u]
      BY <1>1, <3>1, <3>2, SuffixEqual
    <3>. QED BY <3>3 DEF Tree, Proper
  <2>2. Len(str[v]) <= Len(str[f]) + 1
    BY <1>1 DEF Longest, Suffix
  <2>. QED BY <1>1, <2>1, <2>2
<1>. QED BY <1>2, <1>3, <1>4

\* Where a node without an edge for c goes.
LEMMA LongestMissing ==
  ASSUME NEW U, NEW next, NEW str, Tree(U, next, str), NEW u \in U, NEW f \in U,
         NEW v \in U, NEW c \in Bytes,
         Proper(U, str, f, u), Longest(U, str, v, Append(str[f], c)),
         \A w \in U : str[w] # Append(str[u], c)
  PROVE  Longest(U, str, v, Append(str[u], c))
BY ProperStep DEF Longest

\* What the child along an edge fails to.
LEMMA ProperChild ==
  ASSUME NEW U, NEW next, NEW str, Tree(U, next, str), NEW u \in U, NEW f \in U,
         NEW v \in U, NEW x \in U, NEW c \in Bytes,
         Proper(U, str, f, u), Longest(U, str, v, Append(str[f], c)),
         str[x] = Append(str[u], c)
  PROVE  Proper(U, str, v, x)
<1>1. /\ Suffix(str[v], str[x])
      /\ \A w \in U : Suffix(str[w], str[x]) => str[w] = str[x] \/ Suffix(str[w], str[v])
      /\ str[v] # str[x]
  BY ProperStep
<1>2. \A w \in U : str[w] = str[x] => w = x
  BY DEF Tree
<1>. QED BY <1>1, <1>2 DEF Proper

\* A child is the longest suffix of its own string.
LEMMA LongestSelf ==
  ASSUME NEW U, NEW next, NEW str, Tree(U, next, str), NEW x \in U
  PROVE  Longest(U, str, x, str[x])
<1>1. str[x] \in Seq(Bytes)
  BY DEF Tree
<1>. QED BY <1>1, SuffixRefl DEF Longest

\* The root and its children.
LEMMA RootEdges ==
  ASSUME NEW U, NEW next, NEW str, Tree(U, next, str), NEW c \in Bytes
  PROVE  /\ Longest(U, str, next[Root][c], Append(str[Root], c))
         /\ next[Root][c] # Root => Proper(U, str, Root, next[Root][c])
<1> DEFINE x == next[Root][c]
<1>1. x \in U /\ str[Root] = <<>> /\ str[Root] \in Seq(Bytes) /\ Root \in U
  BY DEF Tree
<1>2. ASSUME NEW w \in U, w # Root, Suffix(str[w], Append(str[Root], c))
      PROVE  str[w] = Append(str[Root], c) /\ x = w
  <2>1. PICK p \in U : /\ str[p] \in Seq(Bytes) /\ str[w] = Append(str[p], c)
                       /\ Suffix(str[p], str[Root])
    <3>1. PICK s \in Seq(Bytes) : s = str[Root]
      BY <1>1
    <3>2. \E p \in U : /\ str[p] \in Seq(Bytes) /\ str[w] = Append(str[p], c)
                       /\ Suffix(str[p], s)
      BY <1>2, <3>1, SuffixParent
    <3>. QED BY <3>1, <3>2
  <2>2. str[p] = str[Root]
    <3>1. Len(str[p]) >= Len(str[Root])
      <4>1. Len(str[p]) \in Nat /\ Len(str[Root]) = 0
        BY <1>1, <2>1, LenProperties, EmptySeq
      <4>. QED BY <4>1
    <3>. QED BY <1>1, <2>1, <3>1, SuffixEqual
  <2>3. str[w] = Append(str[Root], c)
    BY <2>1, <2>2
  <2>4. \A u, v \in U, d \in Bytes : str[v] = Append(str[u], d) => next[u][d] = v
    BY TreeEdges
  <2>5. next[Root][c] = w
    BY <1>1, <2>3, <2>4
  <2>. QED BY <2>3, <2>5
<1>3. CASE x = Root
  <2>1. Suffix(str[x], Append(str[Root], c))
    <3>1. Append(str[Root], c) \in Seq(Bytes)
      BY <1>1, AppendProperties
    <3>. QED BY <1>1, <1>3, <3>1, SuffixRefl
  <2>2. \A w \in U : Suffix(str[w], Append(str[Root], c)) => w = Root
    BY <1>2, <1>3
  <2>3. Suffix(str[Root], str[x])
    BY <1>1, <1>3, SuffixRefl
  <2>. QED BY <1>1, <1>3, <2>1, <2>2, <2>3 DEF Longest
<1>4. CASE x # Root
  <2>1. str[x] = Append(str[Root], c) /\ str[x] \in Seq(Bytes)
    BY <1>1, <1>4 DEF Tree
  <2>2. Longest(U, str, x, str[x])
    BY <1>1, LongestSelf
  <2>3. Suffix(str[Root], str[x])
    BY <1>1, <2>1, SuffixRefl
  <2>4. Suffix(str[Root], str[Root])
    BY <1>1, SuffixRefl
  <2>5. \A w \in U : w # x /\ Suffix(str[w], str[x]) => w = Root
    BY <1>2, <2>1
  <2>. QED BY <1>1, <1>4, <2>1, <2>2, <2>3, <2>4, <2>5 DEF Proper
<1>. QED BY <1>3, <1>4
-----------------------------------------------------------------------------
(* What the nodes report: probes is a set of literals with their masks.     *)

\* A probe has a literal of at least one byte.
Probe(p) == p.lit \in Seq(Bytes) /\ p.lit # <<>>

\* The probes whose literal ends where s ends.
Ending(probes, s) == {p \in probes : Suffix(p.lit, s)}

\* The transitions that some of the probes imply.
Masks(probes) == UNION {p.mask : p \in probes}

\* Every literal is the string of a node.
Spelled(U, str, probes) == \A p \in probes : Probe(p) /\ \E w \in U : str[w] = p.lit

\* The literals that end s are those that end the longest suffix in the tree.
LEMMA LongestEnding ==
  ASSUME NEW U, NEW next, NEW str, Tree(U, next, str), NEW u \in U, NEW s \in Seq(Bytes),
         NEW probes, Spelled(U, str, probes), Longest(U, str, u, s)
  PROVE  Ending(probes, s) = Ending(probes, str[u])
<1>1. str[u] \in Seq(Bytes) /\ Suffix(str[u], s)
  BY DEF Tree, Longest
<1>2. ASSUME NEW p \in probes PROVE Suffix(p.lit, s) <=> Suffix(p.lit, str[u])
  <2>1. PICK w \in U : str[w] = p.lit /\ p.lit \in Seq(Bytes)
    BY DEF Spelled, Probe
  <2>2. Suffix(p.lit, s) => Suffix(p.lit, str[u])
    BY <2>1 DEF Longest
  <2>3. Suffix(p.lit, str[u]) => Suffix(p.lit, s)
    BY <1>1, <2>1, SuffixTrans
  <2>. QED BY <2>2, <2>3
<1>. QED BY <1>2 DEF Ending

\* Those that end the string of a node are its own and those that end the string of
\* the node it fails to.
LEMMA ProperEnding ==
  ASSUME NEW U, NEW next, NEW str, Tree(U, next, str), NEW u \in U, NEW f \in U,
         NEW probes, Spelled(U, str, probes), Proper(U, str, f, u)
  PROVE  Ending(probes, str[u]) = {p \in probes : p.lit = str[u]} \union Ending(probes, str[f])
<1>1. /\ str[u] \in Seq(Bytes) /\ str[f] \in Seq(Bytes) /\ Suffix(str[f], str[u])
  BY DEF Tree, Proper
<1>2. ASSUME NEW p \in probes
      PROVE  Suffix(p.lit, str[u]) <=> p.lit = str[u] \/ Suffix(p.lit, str[f])
  <2>1. PICK w \in U : str[w] = p.lit /\ p.lit \in Seq(Bytes)
    BY DEF Spelled, Probe
  <2>2. ASSUME Suffix(p.lit, str[u]), p.lit # str[u] PROVE Suffix(p.lit, str[f])
    <3>1. w # u
      BY <2>1, <2>2
    <3>. QED BY <2>1, <2>2, <3>1 DEF Proper
  <2>3. Suffix(p.lit, str[f]) => Suffix(p.lit, str[u])
    BY <1>1, <2>1, SuffixTrans
  <2>4. p.lit = str[u] => Suffix(p.lit, str[u])
    BY <1>1, SuffixRefl
  <2>. QED BY <2>2, <2>3, <2>4
<1>. QED BY <1>2 DEF Ending

\* Two sets of probes together imply what each does.
LEMMA MasksUnion ==
  ASSUME NEW A, NEW B
  PROVE  Masks(A \union B) = Masks(A) \union Masks(B)
BY DEF Masks

\* A literal occurs in a text where it ends what has been read of it.
LEMMA OccursRead ==
  ASSUME NEW S, NEW lit \in Seq(S), NEW text \in Seq(S)
  PROVE  Occurs(lit, text) <=> \E m \in 0 .. Len(text) : Suffix(lit, Read(text, m))
<1>0. PICK k \in Nat, n \in Nat : k = Len(lit) /\ n = Len(text)
  BY LenProperties
<1>1. \A i \in 1 .. n : text[i] \in S
  BY <1>0, ElementOfSeq
<1>2. ASSUME NEW i \in 0 .. n - k, SubSeq(text, i + 1, i + k) = lit
      PROVE  i + k \in 0 .. n /\ Suffix(lit, Read(text, i + k))
  <2>1. i + k \in 0 .. n /\ \A j \in i + 1 .. i + k : j \in 1 .. n
    OBVIOUS
  <2>2. \A j \in 1 .. (i + k) - (i + 1) + 1 :
          SubSeq(text, i + 1, i + k)[j] = text[(i + 1) + j - 1]
    <3>1. \A j \in i + 1 .. i + k : text[j] \in S
      BY <1>1, <2>1
    <3>. QED BY <3>1, SubSeqProperties
  <2>3. ASSUME NEW j \in 1 .. k PROVE lit[j] = text[i + j]
    <3>1. j \in 1 .. (i + k) - (i + 1) + 1 /\ (i + 1) + j - 1 = i + j
      OBVIOUS
    <3>. QED BY <1>2, <2>2, <3>1
  <2>4. /\ Len(Read(text, i + k)) = i + k
        /\ \A j \in 1 .. i + k : Read(text, i + k)[j] = text[j]
    BY <1>0, <2>1, ReadMore
  <2>5. \A j \in 1 .. k : (i + k) - k + j = i + j /\ i + j \in 1 .. i + k
    OBVIOUS
  <2>6. k <= i + k
    OBVIOUS
  <2>. QED BY <1>0, <2>1, <2>3, <2>4, <2>5, <2>6 DEF Suffix
<1>3. ASSUME NEW m \in 0 .. n, Suffix(lit, Read(text, m))
      PROVE  m - k \in 0 .. n - k /\ SubSeq(text, (m - k) + 1, (m - k) + k) = lit
  <2>1. /\ Len(Read(text, m)) = m
        /\ \A j \in 1 .. m : Read(text, m)[j] = text[j]
    BY <1>0, ReadMore
  <2>2. k <= m /\ \A j \in 1 .. k : lit[j] = Read(text, m)[m - k + j]
    BY <1>0, <1>3, <2>1 DEF Suffix
  <2>3. PICK i \in 0 .. n - k : i = m - k
    BY <2>2
  <2>4. ASSUME NEW j \in 1 .. k PROVE lit[j] = text[i + j]
    <3>1. m - k + j = i + j /\ i + j \in 1 .. m
      BY <2>2, <2>3
    <3>. QED BY <2>1, <2>2, <3>1
  <2>5. \A j \in i + 1 .. i + k : text[j] \in S
    <3>1. \A j \in i + 1 .. i + k : j \in 1 .. n
      OBVIOUS
    <3>. QED BY <1>1, <3>1
  <2>6. PICK r \in Seq(S) : r = SubSeq(text, i + 1, i + k)
    <3>1. i + 1 \in Int /\ i + k \in Int
      OBVIOUS
    <3>2. SubSeq(text, i + 1, i + k) \in Seq(S)
      BY <2>5, <3>1, SubSeqProperties
    <3>. QED BY <3>2
  <2>7. /\ Len(r) = k
        /\ \A j \in 1 .. k : r[j] = text[i + j]
    <3>1. /\ Len(r) = IF i + 1 <= i + k THEN (i + k) - (i + 1) + 1 ELSE 0
          /\ \A j \in 1 .. (i + k) - (i + 1) + 1 : r[j] = text[(i + 1) + j - 1]
      BY <2>5, <2>6, SubSeqProperties
    <3>2. (i + k) - (i + 1) + 1 = k /\ \A j \in 1 .. k : (i + 1) + j - 1 = i + j
      OBVIOUS
    <3>3. Len(r) = k
      BY <3>1, <3>2
    <3>. QED BY <3>1, <3>2, <3>3
  <2>8. r = lit
    BY <1>0, <2>4, <2>7, SeqEqual
  <2>. QED BY <2>3, <2>6, <2>8
<1>. QED BY <1>0, <1>2, <1>3 DEF Occurs
-----------------------------------------------------------------------------
(* The scan of an automaton.                                                *)

\* Every node has its longest suffixes and the masks of all literals that end it.
Automaton(U, str, probes, ac) ==
  /\ ac.next \in [U -> [Bytes -> U]]
  /\ \A u \in U, c \in Bytes : Longest(U, str, ac.next[u][c], Append(str[u], c))
  /\ \A u \in U : ac.mask[u] = Masks(Ending(probes, str[u]))

\* The automaton after it has read q.
ReadAll(ac, base, q) == FoldLeft(LAMBDA walk, c : Follow(ac, walk, c), base, q)

\* The automaton reads byte by byte.
LEMMA FollowFold ==
  ASSUME NEW n \in Nat, NEW q, DOMAIN q = 1 .. n, NEW base, NEW ac
  PROVE  \E t : /\ t[0] = base /\ t[n] = ReadAll(ac, base, q)
                /\ \A i \in 1 .. n : t[i] = Follow(ac, t[i - 1], q[i])
<1>1. FollowClimb!Folded(ac, base, q) = ReadAll(ac, base, q)
  BY DEF ReadAll, FollowClimb!Folded, FollowClimb!FoldLeft, FollowClimb!MapThenFoldSet,
         FollowClimb!Max, FoldLeft, MapThenFoldSet, Max
<1>2. PICK t : FollowClimb!Climbs(t, ac, base, n, q) /\ t[n] = FollowClimb!Folded(ac, base, q)
  BY FollowClimb!FoldClimbs
<1>. QED BY <1>1, <1>2 DEF FollowClimb!Climbs

\* One pass of the automaton collects the masks of the literals that occur in the text.
LEMMA ScanExact ==
  ASSUME NEW U, NEW next, NEW str, Tree(U, next, str), NEW probes, Spelled(U, str, probes),
         NEW ac, Automaton(U, str, probes, ac), NEW text \in Seq(Bytes)
  PROVE  ScanAhoCorasick(ac, text) = Masks({p \in probes : Occurs(p.lit, text)})
<1>1. PICK n \in Nat : n = Len(text) /\ DOMAIN text = 1 .. n
  BY LenProperties
<1>2. /\ Read(text, 0) = <<>>
      /\ \A m \in 0 .. n : Read(text, m) \in Seq(Bytes)
      /\ \A m \in 1 .. n :
           text[m] \in Bytes /\ Read(text, m) = Append(Read(text, m - 1), text[m])
  BY <1>1, ReadMore
<1> DEFINE base == [at |-> Root, mask |-> {}]
<1>3. PICK t : /\ t[0] = base
               /\ ScanAhoCorasick(ac, text) = t[n].mask
               /\ \A i \in 1 .. n : t[i] = Follow(ac, t[i - 1], text[i])
  <2> HIDE DEF base
  <2>1. ScanAhoCorasick(ac, text) = ReadAll(ac, base, text).mask
    BY DEF ScanAhoCorasick, ReadAll, base
  <2>2. PICK t : /\ t[0] = base /\ t[n] = ReadAll(ac, base, text)
                 /\ \A i \in 1 .. n : t[i] = Follow(ac, t[i - 1], text[i])
    BY <1>1, FollowFold
  <2>. QED BY <2>1, <2>2
<1> DEFINE Seen(m) == UNION {Masks(Ending(probes, Read(text, i))) : i \in 0 .. m}
           N == {m \in Nat : m <= n =>
                   Longest(U, str, t[m].at, Read(text, m)) /\ t[m].mask = Seen(m)}
<1>4. 0 \in N
  <2>1. Longest(U, str, Root, <<>>)
    <3>1. Root \in U /\ str[Root] = <<>>
      BY DEF Tree
    <3>. QED BY <3>1, LongestSelf
  <2>2. Seen(0) = {}
    <3>1. Ending(probes, <<>>) = {}
      <4>1. ASSUME NEW p \in probes, Suffix(p.lit, <<>>) PROVE FALSE
        <5>1. p.lit \in Seq(Bytes) /\ p.lit # <<>>
          BY DEF Spelled, Probe
        <5>2. Len(p.lit) \in Nat \ {0} /\ Len(<<>>) = 0
          BY <5>1, EmptySeq
        <5>. QED BY <4>1, <5>2 DEF Suffix
      <4>. QED BY <4>1 DEF Ending
    <3>2. Masks({}) = {}
      BY DEF Masks
    <3>3. 0 .. 0 = {0}
      OBVIOUS
    <3>. QED BY <1>2, <3>1, <3>2, <3>3
  <2>3. t[0].at = Root /\ t[0].mask = {}
    BY <1>3
  <2> HIDE DEF Seen
  <2>. QED BY <1>2, <2>1, <2>2, <2>3
<1>5. ASSUME NEW m \in Nat, m \in N PROVE m + 1 \in N
  <2>1. SUFFICES ASSUME m + 1 <= n
                 PROVE  /\ Longest(U, str, t[m + 1].at, Read(text, m + 1))
                        /\ t[m + 1].mask = Seen(m + 1)
    <3> HIDE DEF Seen
    <3>1. m + 1 \in Nat
      OBVIOUS
    <3>. QED BY <3>1
  <2>2. m <= n /\ m \in 0 .. n /\ m + 1 \in 1 .. n /\ m + 1 \in 0 .. n /\ (m + 1) - 1 = m
    BY <2>1
  <2>3. PICK u : u = t[m].at
    OBVIOUS
  <2>4. Longest(U, str, u, Read(text, m)) /\ t[m].mask = Seen(m) /\ u \in U
    <3> HIDE DEF Seen
    <3>. QED BY <1>5, <2>2, <2>3 DEF Longest
  <2>5. PICK c \in Bytes : c = text[m + 1] /\ Read(text, m + 1) = Append(Read(text, m), c)
    BY <1>2, <2>2
  <2>6. PICK v \in U : v = ac.next[u][c]
    BY <2>4 DEF Automaton
  <2>7. t[m + 1] = [at |-> v, mask |-> Seen(m) \union ac.mask[v]]
    <3>1. t[m + 1] = Follow(ac, t[m], c)
      BY <1>3, <2>2, <2>5
    <3> HIDE DEF Seen
    <3>. QED BY <2>3, <2>4, <2>6, <3>1 DEF Follow
  <2>8. Longest(U, str, v, Read(text, m + 1))
    <3>1. Longest(U, str, v, Append(str[u], c))
      BY <2>4, <2>6 DEF Automaton
    <3>2. PICK s \in Seq(Bytes) : s = Read(text, m)
      BY <1>2, <2>2
    <3>3. Longest(U, str, u, s)
      BY <2>4, <3>2
    <3>4. Longest(U, str, v, Append(s, c))
      BY <2>4, <3>1, <3>3, LongestStep
    <3>. QED BY <2>5, <3>2, <3>4
  <2>9. ac.mask[v] = Masks(Ending(probes, Read(text, m + 1)))
    <3>1. Read(text, m + 1) \in Seq(Bytes)
      BY <1>2, <2>2
    <3>2. Ending(probes, Read(text, m + 1)) = Ending(probes, str[v])
      BY <2>8, <3>1, LongestEnding
    <3>. QED BY <3>2 DEF Automaton
  <2>10. Seen(m + 1) = Seen(m) \union Masks(Ending(probes, Read(text, m + 1)))
    <3>1. 0 .. (m + 1) = (0 .. m) \union {m + 1}
      OBVIOUS
    <3>. QED BY <3>1
  <2> HIDE DEF Seen
  <2>. QED BY <2>7, <2>8, <2>9, <2>10
<1>6. n \in N
  <2> HIDE DEF N
  <2>. QED BY <1>4, <1>5, SetInduction
<1>7. Seen(n) = Masks({p \in probes : Occurs(p.lit, text)})
  <2>1. ASSUME NEW p \in probes
        PROVE  Occurs(p.lit, text) <=> \E m \in 0 .. n : p \in Ending(probes, Read(text, m))
    <3>1. p.lit \in Seq(Bytes)
      BY DEF Spelled, Probe
    <3>. QED BY <1>1, <3>1, OccursRead DEF Ending
  <2>2. ASSUME NEW x
        PROVE  x \in Seen(n) <=> \E p \in probes : Occurs(p.lit, text) /\ x \in p.mask
    <3>1. x \in Seen(n) <=> \E m \in 0 .. n : \E p \in Ending(probes, Read(text, m)) : x \in p.mask
      BY DEF Masks
    <3>. QED BY <2>1, <3>1 DEF Ending
  <2> HIDE DEF Seen
  <2>. QED BY <2>2 DEF Masks
<1>8. t[n].mask = Seen(n)
  <2> HIDE DEF Seen
  <2>. QED BY <1>6
<1> HIDE DEF Seen
<1>. QED BY <1>3, <1>7, <1>8
-----------------------------------------------------------------------------
(* The trie.                                                                *)

\* A trie of n nodes in which a set of probes is inserted, with a walk at one of them.
TrieOK(w, n, str, probes) ==
  /\ w = [next |-> w.next, mask |-> w.mask, at |-> w.at]
  /\ n \in Nat \ {0} /\ w.at \in 0 .. n - 1
  /\ Tree(0 .. n - 1, w.next, str)
  /\ DOMAIN w.mask = 0 .. n - 1
  /\ \A u \in 0 .. n - 1 : w.mask[u] = Masks({p \in probes : p.lit = str[u]})
  /\ Spelled(0 .. n - 1, str, probes)

\* A step along an edge that is set.
LEMMA DescendOld ==
  ASSUME NEW w, NEW n \in Nat, NEW str, NEW probes, TrieOK(w, n, str, probes), NEW c \in Bytes,
         w.next[w.at][c] # Root
  PROVE  /\ TrieOK(Descend(w, c), n, str, probes)
         /\ str[Descend(w, c).at] = Append(str[w.at], c)
<1> DEFINE d == Descend(w, c)
<1>1. d = [w EXCEPT !.at = w.next[w.at][c]]
  BY DEF Descend
<1> HIDE DEF d
<1>2. /\ w = [next |-> w.next, mask |-> w.mask, at |-> w.at]
      /\ w.at \in 0 .. n - 1 /\ Tree(0 .. n - 1, w.next, str)
  BY DEF TrieOK
<1>3. /\ w.next[w.at][c] \in 0 .. n - 1
      /\ str[w.next[w.at][c]] = Append(str[w.at], c)
  <2> DEFINE U == 0 .. n - 1
  <2>1. w.at \in U /\ Tree(U, w.next, str)
    BY <1>2
  <2> HIDE DEF U
  <2>2. PICK a, row : a \in U /\ a = w.at /\ row = w.next
    BY <2>1
  <2>3. row[a][c] \in U /\ row[a][c] # Root /\ str[row[a][c]] = Append(str[a], c)
    <3>1. Tree(U, row, str) /\ row[a][c] # Root
      BY <2>1, <2>2
    <3>2. row[a][c] \in U
      BY <2>2, <3>1 DEF Tree
    <3>. QED BY <2>2, <3>1, <3>2 DEF Tree
  <2>. QED BY <2>2, <2>3 DEF U
<1>4. d = [next |-> w.next, mask |-> w.mask, at |-> w.next[w.at][c]]
  BY <1>1, <1>2
<1>5. TrieOK(d, n, str, probes)
  BY <1>3, <1>4 DEF TrieOK
<1>6. str[d.at] = Append(str[w.at], c)
  <2>1. d.at = w.next[w.at][c]
    BY <1>4
  <2>. QED BY <1>3, <2>1
<1>. QED BY <1>5, <1>6 DEF d

\* A step that adds a node.
LEMMA DescendNew ==
  ASSUME NEW w, NEW n \in Nat, NEW str, NEW probes, TrieOK(w, n, str, probes), NEW c \in Bytes,
         w.next[w.at][c] = Root
  PROVE  \E more : /\ TrieOK(Descend(w, c), n + 1, more, probes)
                   /\ more[Descend(w, c).at] = Append(str[w.at], c)
<1> DEFINE U == 0 .. n - 1
           V == 0 .. n
           d == Descend(w, c)
           added == Append(str[w.at], c)
           more == [u \in V |-> IF u = n THEN added ELSE str[u]]
<1>1. /\ n \in Nat \ {0} /\ w.at \in U /\ Tree(U, w.next, str)
      /\ Spelled(U, str, probes)
      /\ \A u \in U : w.mask[u] = Masks({p \in probes : p.lit = str[u]})
  BY DEF TrieOK
<1>2. /\ n \notin U /\ V = U \union {n} /\ Root \in U /\ n # Root
  BY <1>1 DEF Root
<1>3. /\ str \in [U -> Seq(Bytes)] /\ w.next \in [U -> [Bytes -> U]] /\ str[Root] = <<>>
      /\ \A u, v \in U : str[u] = str[v] => u = v
      /\ \A u \in U, b \in Bytes : w.next[u][b] # Root => str[w.next[u][b]] = Append(str[u], b)
      /\ \A v \in U \ {Root} : \E u \in U, b \in Bytes : w.next[u][b] = v
  <2> HIDE DEF U
  <2>. QED BY <1>1 DEF Tree
<1>4. Cardinality(DOMAIN w.next) = n
  <2>1. DOMAIN w.next = 0 .. n - 1
    BY <1>3
  <2>2. Cardinality(0 .. n - 1) = IF 0 > n - 1 THEN 0 ELSE (n - 1) - 0 + 1
    <3>1. 0 \in Int /\ n - 1 \in Int
      OBVIOUS
    <3>. QED BY <3>1, FS_Interval
  <2>. QED BY <1>1, <2>1, <2>2
<1> DEFINE next == [u \in V |-> IF u = n THEN Unset
                                ELSE IF u = w.at THEN [w.next[u] EXCEPT ![c] = n]
                                ELSE w.next[u]]
           mask == [u \in V |-> IF u = n THEN {} ELSE w.mask[u]]
<1>5. d = [next |-> next, mask |-> mask, at |-> n]
  BY <1>4 DEF Descend
<1> HIDE DEF U, V, d, added
<1>6. added \in Seq(Bytes) /\ \A u \in U : str[u] # added
  <2>1. str[w.at] \in Seq(Bytes)
    BY <1>1, <1>3
  <2>2. \A u \in U : str[u] = Append(str[w.at], c) => w.next[w.at][c] = u /\ u # Root
    <3>1. \A u \in U : str[u] = Append(str[w.at], c) => w.next[w.at][c] = u
      BY <1>1, TreeEdges
    <3>2. Append(str[w.at], c) # <<>>
      BY <2>1, AppendProperties
    <3>. QED BY <1>3, <3>1, <3>2
  <2>. QED BY <2>1, <2>2, AppendProperties DEF added
<1>7. /\ more \in [V -> Seq(Bytes)] /\ more[n] = added
      /\ \A u \in U : more[u] = str[u]
  BY <1>2, <1>3, <1>6
<1>8. /\ next \in [V -> [Bytes -> V]]
      /\ \A b \in Bytes : next[n][b] = Root
      /\ \A u \in U, b \in Bytes :
           next[u][b] = IF u = w.at /\ b = c THEN n ELSE w.next[u][b]
  <2>1. Unset \in [Bytes -> V] /\ \A b \in Bytes : Unset[b] = Root
    BY <1>2 DEF Unset
  <2>2. ASSUME NEW u \in U
        PROVE  /\ w.next[u] \in [Bytes -> V]
               /\ [w.next[u] EXCEPT ![c] = n] \in [Bytes -> V]
               /\ \A b \in Bytes : [w.next[u] EXCEPT ![c] = n][b] = IF b = c THEN n ELSE w.next[u][b]
    <3>1. w.next[u] \in [Bytes -> U]
      BY <1>3
    <3>2. w.next[u] \in [Bytes -> V]
      BY <1>2, <3>1
    <3>3. n \in V
      BY <1>2
    <3>. QED BY <3>2, <3>3
  <2>. QED BY <1>2, <2>1, <2>2
<1> HIDE DEF more, next
<1>9. Tree(V, next, more)
  <2>1. ASSUME NEW u \in V, NEW v \in V, more[u] = more[v] PROVE u = v
    <3>1. CASE u = n
      <4>1. v \notin U
        BY <1>6, <1>7, <2>1, <3>1
      <4>. QED BY <1>2, <3>1, <4>1
    <3>2. CASE u # n
      <4>1. u \in U
        BY <1>2, <3>2
      <4>2. v \in U
        BY <1>2, <1>6, <1>7, <2>1, <4>1
      <4>. QED BY <1>3, <1>7, <2>1, <4>1, <4>2
    <3>. QED BY <3>1, <3>2
  <2>2. ASSUME NEW u \in V, NEW b \in Bytes, next[u][b] # Root
        PROVE  more[next[u][b]] = Append(more[u], b)
    <3>1. u \in U
      BY <1>2, <1>8, <2>2
    <3>2. CASE u = w.at /\ b = c
      BY <1>7, <1>8, <3>1, <3>2 DEF added
    <3>3. CASE ~(u = w.at /\ b = c)
      <4>1. next[u][b] = w.next[u][b] /\ w.next[u][b] \in U
        BY <1>3, <1>8, <3>1, <3>3
      <4>2. str[w.next[u][b]] = Append(str[u], b)
        BY <1>3, <2>2, <3>1, <4>1
      <4>. QED BY <1>7, <3>1, <4>1, <4>2
    <3>. QED BY <3>2, <3>3
  <2>3. ASSUME NEW v \in V \ {Root} PROVE \E u \in V, b \in Bytes : next[u][b] = v
    <3>1. CASE v = n
      BY <1>1, <1>2, <1>8, <3>1
    <3>2. CASE v # n
      <4>1. PICK u \in U, b \in Bytes : w.next[u][b] = v
        BY <1>2, <1>3, <3>2
      <4>2. ~(u = w.at /\ b = c)
        BY <2>3, <4>1
      <4>. QED BY <1>2, <1>8, <4>1, <4>2
    <3>. QED BY <3>1, <3>2
  <2>4. Root \in V /\ more[Root] = <<>>
    BY <1>2, <1>3, <1>7
  <2>. QED BY <1>7, <1>8, <2>1, <2>2, <2>3, <2>4 DEF Tree
<1>10. /\ DOMAIN mask = V
       /\ \A u \in V : mask[u] = Masks({p \in probes : p.lit = more[u]})
  <2>1. \A p \in probes : p.lit # added
    BY <1>1, <1>6 DEF Spelled
  <2>2. Masks({}) = {}
    BY DEF Masks
  <2>3. {p \in probes : p.lit = more[n]} = {}
    BY <1>7, <2>1
  <2>4. \A u \in U : {p \in probes : p.lit = more[u]} = {p \in probes : p.lit = str[u]}
    BY <1>7
  <2>. QED BY <1>1, <1>2, <2>2, <2>3, <2>4
<1> HIDE DEF mask
<1>11. Spelled(V, more, probes)
  BY <1>1, <1>2, <1>7 DEF Spelled
<1>12. TrieOK(d, n + 1, more, probes)
  <2>1. V = 0 .. (n + 1) - 1 /\ n + 1 \in Nat \ {0} /\ n \in 0 .. (n + 1) - 1
    BY DEF V
  <2>2. /\ d.next = next /\ d.mask = mask /\ d.at = n
        /\ d = [next |-> d.next, mask |-> d.mask, at |-> d.at]
    BY <1>5
  <2>. QED BY <1>9, <1>10, <1>11, <2>1, <2>2 DEF TrieOK
<1>13. more[d.at] = Append(str[w.at], c)
  BY <1>5, <1>7 DEF added
<1>. QED BY <1>12, <1>13 DEF d

\* The walk down the trie after q, and the trie after the probes in q.
DescendAll(base, q) == FoldLeft(Descend, base, q)
InsertAll(base, q)  == FoldLeft(Insert, base, q)

\* The walk goes down byte by byte.
LEMMA DescendFold ==
  ASSUME NEW n \in Nat, NEW q, DOMAIN q = 1 .. n, NEW base
  PROVE  \E t : /\ t[0] = base /\ t[n] = DescendAll(base, q)
                /\ \A i \in 1 .. n : t[i] = Descend(t[i - 1], q[i])
<1>1. DescendClimb!Folded(0, base, q) = DescendAll(base, q)
  BY DEF DescendAll, DescendIn, DescendClimb!Folded, DescendClimb!FoldLeft, DescendClimb!MapThenFoldSet,
         DescendClimb!Max, FoldLeft, MapThenFoldSet, Max
<1>2. PICK t : DescendClimb!Climbs(t, 0, base, n, q) /\ t[n] = DescendClimb!Folded(0, base, q)
  BY DescendClimb!FoldClimbs
<1>. QED BY <1>1, <1>2 DEF DescendClimb!Climbs, DescendIn

\* The trie grows by one probe after the other.
InsertSteps(t, base, n, q) ==
  /\ t[0] = base /\ t[n] = InsertAll(base, q)
  /\ \A i \in 1 .. n : t[i] = Insert(t[i - 1], q[i])

\* The trie is built so.
LEMMA InsertFold ==
  ASSUME NEW n \in Nat, NEW q, DOMAIN q = 1 .. n, NEW base
  PROVE  \E t : InsertSteps(t, base, n, q)
<1>1. InsertClimb!Folded(0, base, q) = InsertAll(base, q)
  BY DEF InsertAll, InsertIn, InsertClimb!Folded, InsertClimb!FoldLeft, InsertClimb!MapThenFoldSet,
         InsertClimb!Max, FoldLeft, MapThenFoldSet, Max
<1>2. PICK t : InsertClimb!Climbs(t, 0, base, n, q) /\ t[n] = InsertClimb!Folded(0, base, q)
  BY InsertClimb!FoldClimbs
<1>. QED BY <1>1, <1>2 DEF InsertClimb!Climbs, InsertIn, InsertSteps

\* A trie some of whose walks are at the string s.
Walked(w, probes, s) ==
  \E n \in Nat : \E str : TrieOK(w, n, str, probes) /\ str[w.at] = s

\* A step down the trie, by an edge that is there or a new one, leads to the longer string.
LEMMA DescendWalks ==
  ASSUME NEW w, NEW probes, NEW s, Walked(w, probes, s), NEW c \in Bytes
  PROVE  Walked(Descend(w, c), probes, Append(s, c))
<1>1a. PICK n \in Nat : \E str : TrieOK(w, n, str, probes) /\ str[w.at] = s
  BY DEF Walked
<1>1. PICK str : TrieOK(w, n, str, probes) /\ str[w.at] = s
  BY <1>1a
<1>2. CASE w.next[w.at][c] # Root
  <2>1. /\ TrieOK(Descend(w, c), n, str, probes)
        /\ str[Descend(w, c).at] = Append(s, c)
    BY <1>1, <1>2, DescendOld
  <2>. QED BY <2>1 DEF Walked
<1>3. CASE w.next[w.at][c] = Root
  <2>1. PICK more : /\ TrieOK(Descend(w, c), n + 1, more, probes)
                    /\ more[Descend(w, c).at] = Append(str[w.at], c)
    BY <1>1, <1>3, DescendNew
  <2>2. n + 1 \in Nat
    OBVIOUS
  <2>. QED BY <1>1, <2>1, <2>2 DEF Walked
<1>. QED BY <1>2, <1>3

\* Inserting a probe leaves a trie that has its literal, and its bits at the end of it.
LEMMA InsertWalks ==
  ASSUME NEW w, NEW probes, NEW s, Walked(w, probes, s), NEW probe, Probe(probe)
  PROVE  Walked(Insert(w, probe), probes \union {probe}, probe.lit)
<1>1. PICK lit \in Seq(Bytes) : lit = probe.lit
  BY DEF Probe
<1>2. PICK k \in Nat : k = Len(lit) /\ DOMAIN lit = 1 .. k
  BY LenProperties
<1> DEFINE base == [w EXCEPT !.at = Root]
<1>3. PICK t : /\ t[0] = base /\ t[k] = DescendAll(base, lit)
               /\ \A i \in 1 .. k : t[i] = Descend(t[i - 1], lit[i])
  <2> HIDE DEF base
  <2>. QED BY <1>2, DescendFold
<1>4. Walked(base, probes, <<>>)
  <2>1a. PICK n \in Nat : \E str : TrieOK(w, n, str, probes)
    BY DEF Walked
  <2>1. PICK str : TrieOK(w, n, str, probes)
    BY <2>1a
  <2>2. base = [next |-> w.next, mask |-> w.mask, at |-> Root]
    <3>1. w = [next |-> w.next, mask |-> w.mask, at |-> w.at]
      BY <2>1 DEF TrieOK
    <3>. QED BY <3>1
  <2>3. TrieOK(base, n, str, probes)
    <3>1. Root \in 0 .. n - 1
      BY <2>1 DEF TrieOK, Root
    <3> HIDE DEF base
    <3>. QED BY <2>1, <2>2, <3>1 DEF TrieOK
  <2>4. str[base.at] = <<>>
    BY <2>1, <2>2 DEF TrieOK, Tree
  <2> HIDE DEF base
  <2>. QED BY <2>3, <2>4 DEF Walked
<1> DEFINE N == {i \in Nat : i <= k => Walked(t[i], probes, Read(lit, i))}
<1>5. 0 \in N
  <2>1. Read(lit, 0) = <<>>
    BY ReadMore
  <2>. QED BY <1>3, <1>4, <2>1
<1>6. ASSUME NEW i \in Nat, i \in N PROVE i + 1 \in N
  <2>1. SUFFICES ASSUME i + 1 <= k PROVE Walked(t[i + 1], probes, Read(lit, i + 1))
    OBVIOUS
  <2>2. i <= k /\ i + 1 \in 1 .. k /\ (i + 1) - 1 = i
    BY <2>1
  <2>3. lit[i + 1] \in Bytes /\ Read(lit, i + 1) = Append(Read(lit, i), lit[i + 1])
    <3>1. \A m \in 1 .. k : lit[m] \in Bytes /\ Read(lit, m) = Append(Read(lit, m - 1), lit[m])
      BY <1>2, ReadMore
    <3>. QED BY <2>2, <3>1
  <2>4. t[i + 1] = Descend(t[i], lit[i + 1])
    BY <1>3, <2>2
  <2>5. Walked(t[i], probes, Read(lit, i))
    BY <1>6, <2>2
  <2>. QED BY <2>3, <2>4, <2>5, DescendWalks
<1>7. k \in N
  <2> HIDE DEF N
  <2>. QED BY <1>5, <1>6, SetInduction
<1>8. Walked(t[k], probes, lit)
  <2>1. Read(lit, k) = lit
    BY <1>2, SubSeqFull DEF Read
  <2>. QED BY <1>7, <2>1
<1>9a. PICK n \in Nat : \E str : TrieOK(t[k], n, str, probes) /\ str[t[k].at] = lit
  BY <1>8 DEF Walked
<1>9. PICK str : TrieOK(t[k], n, str, probes) /\ str[t[k].at] = lit
  BY <1>9a
<1>10. PICK v : v = t[k]
  OBVIOUS
<1> DEFINE x == Insert(w, probe)
           all == probes \union {probe}
<1>11. x = [v EXCEPT !.mask[v.at] = @ \union probe.mask]
  BY <1>1, <1>3, <1>10 DEF Insert, DescendAll
<1>12. /\ v = [next |-> v.next, mask |-> v.mask, at |-> v.at]
       /\ n \in Nat \ {0} /\ v.at \in 0 .. n - 1
       /\ Tree(0 .. n - 1, v.next, str)
       /\ DOMAIN v.mask = 0 .. n - 1
       /\ \A u \in 0 .. n - 1 : v.mask[u] = Masks({p \in probes : p.lit = str[u]})
       /\ Spelled(0 .. n - 1, str, probes) /\ str[v.at] = lit
  BY <1>9, <1>10 DEF TrieOK
<1> HIDE DEF x
<1>13. x = [next |-> v.next, mask |-> [v.mask EXCEPT ![v.at] = @ \union probe.mask], at |-> v.at]
  BY <1>11, <1>12
<1>14. /\ DOMAIN x.mask = 0 .. n - 1
       /\ \A u \in 0 .. n - 1 : x.mask[u] = Masks({p \in all : p.lit = str[u]})
  <2>1. DOMAIN x.mask = 0 .. n - 1
    BY <1>12, <1>13
  <2>2. ASSUME NEW u \in 0 .. n - 1 PROVE x.mask[u] = Masks({p \in all : p.lit = str[u]})
    <3>1. CASE u = v.at
      <4>1. {p \in all : p.lit = str[u]} = {p \in probes : p.lit = str[u]} \union {probe}
        BY <1>1, <1>12, <3>1
      <4>2. Masks({probe}) = probe.mask
        BY DEF Masks
      <4>3. x.mask[u] = v.mask[u] \union probe.mask
        BY <1>12, <1>13, <3>1
      <4>4. PICK own : own = {p \in probes : p.lit = str[u]}
        OBVIOUS
      <4>5. v.mask[u] = Masks(own)
        BY <1>12, <4>4
      <4>6. Masks(own \union {probe}) = Masks(own) \union Masks({probe})
        BY MasksUnion
      <4> HIDE DEF all
      <4>. QED BY <4>1, <4>2, <4>3, <4>4, <4>5, <4>6
    <3>2. CASE u # v.at
      <4>1. str[u] # lit
        <5> DEFINE U == 0 .. n - 1
        <5>1. v.at \in U /\ u \in U /\ Tree(U, v.next, str)
          BY <1>12
        <5> HIDE DEF U
        <5>. QED BY <1>12, <3>2, <5>1 DEF Tree
      <4>2. {p \in all : p.lit = str[u]} = {p \in probes : p.lit = str[u]}
        BY <1>1, <4>1
      <4>3. x.mask[u] = v.mask[u]
        BY <1>12, <1>13, <3>2
      <4> HIDE DEF all
      <4>. QED BY <1>12, <4>2, <4>3
    <3>. QED BY <3>1, <3>2
  <2>. QED BY <2>1, <2>2
<1>15. Spelled(0 .. n - 1, str, all)
  BY <1>1, <1>12 DEF Spelled
<1>16. TrieOK(x, n, str, all)
  <2>1. x.next = v.next /\ x.at = v.at /\ x = [next |-> x.next, mask |-> x.mask, at |-> x.at]
    BY <1>13
  <2> HIDE DEF all
  <2>. QED BY <1>12, <1>14, <1>15, <2>1 DEF TrieOK
<1>17. str[x.at] = probe.lit
  BY <1>1, <1>12, <1>13
<1> HIDE DEF all
<1>18. Walked(x, all, probe.lit)
  BY <1>16, <1>17 DEF Walked
<1>. QED BY <1>18 DEF x, all
\* The trie of a sequence of probes.
LEMMA TrieWalked ==
  ASSUME NEW n \in Nat, NEW probes, DOMAIN probes = 1 .. n,
         \A i \in 1 .. n : Probe(probes[i])
  PROVE  \E s : Walked(Trie(probes), {probes[i] : i \in 1 .. n}, s)
<1> DEFINE base == [next |-> [u \in {Root} |-> Unset], mask |-> [u \in {Root} |-> {}], at |-> Root]
           Upto(k) == {probes[i] : i \in 1 .. k}
<1>1. PICK t : /\ t[0] = base /\ t[n] = InsertAll(base, probes)
               /\ \A i \in 1 .. n : t[i] = Insert(t[i - 1], probes[i])
  <2>1. PICK t : InsertSteps(t, base, n, probes)
    BY InsertFold
  <2> HIDE DEF base
  <2>. QED BY <2>1 DEF InsertSteps
<1>2. Trie(probes) = t[n]
  BY <1>1 DEF Trie, InsertAll
<1>3. Walked(base, {}, <<>>)
  <2> DEFINE U == 0 .. 1 - 1
             str == [u \in U |-> <<>>]
  <2>1. U = {Root} /\ 1 \in Nat \ {0} /\ 1 \in Nat
    BY DEF Root
  <2>2. base.next = [u \in U |-> Unset] /\ base.mask = [u \in U |-> {}] /\ base.at = Root
    BY <2>1
  <2>3. Unset \in [Bytes -> U] /\ \A c \in Bytes : Unset[c] = Root
    BY <2>1 DEF Unset
  <2>4. base = [next |-> base.next, mask |-> base.mask, at |-> base.at]
    OBVIOUS
  <2>5. str \in [U -> Seq(Bytes)] /\ str[Root] = <<>>
    BY <2>1, EmptySeq
  <2>6. Masks({}) = {}
    BY DEF Masks
  <2> HIDE DEF U, base, str
  <2>7. Tree(U, base.next, str)
    BY <2>1, <2>2, <2>3, <2>5 DEF Tree
  <2>8. \A u \in U : {p \in {} : p.lit = str[u]} = {}
    OBVIOUS
  <2>9. Spelled(U, str, {})
    BY DEF Spelled
  <2>10. TrieOK(base, 1, str, {})
    <3>1. \A u \in U : base.mask[u] = Masks({p \in {} : p.lit = str[u]})
      BY <2>2, <2>6, <2>8
    <3>2. base.at \in U /\ DOMAIN base.mask = U
      BY <2>1, <2>2
    <3>. QED BY <2>1, <2>4, <2>7, <2>9, <3>1, <3>2 DEF TrieOK, U
  <2>11. str[base.at] = <<>>
    BY <2>2, <2>5
  <2>. QED BY <2>1, <2>10, <2>11 DEF Walked
<1> HIDE DEF base
<1> DEFINE N == {k \in Nat : k <= n => \E s : Walked(t[k], Upto(k), s)}
<1>4. 0 \in N
  <2>1. Upto(0) = {}
    OBVIOUS
  <2> HIDE DEF Upto
  <2>. QED BY <1>1, <1>3, <2>1
<1>5. ASSUME NEW k \in Nat, k \in N PROVE k + 1 \in N
  <2>1. SUFFICES ASSUME k + 1 <= n PROVE \E s : Walked(t[k + 1], Upto(k + 1), s)
    <3> HIDE DEF Upto
    <3>1. k + 1 \in Nat
      OBVIOUS
    <3>. QED BY <3>1
  <2>2. k <= n /\ k + 1 \in 1 .. n /\ (k + 1) - 1 = k
    BY <2>1
  <2>3. Upto(k + 1) = Upto(k) \union {probes[k + 1]}
    <3>1. 1 .. (k + 1) = (1 .. k) \union {k + 1}
      OBVIOUS
    <3>. QED BY <3>1
  <2> HIDE DEF Upto
  <2>4. PICK s : Walked(t[k], Upto(k), s)
    BY <1>5, <2>2
  <2>5. t[k + 1] = Insert(t[k], probes[k + 1]) /\ Probe(probes[k + 1])
    BY <1>1, <2>2
  <2>6. Walked(t[k + 1], Upto(k + 1), probes[k + 1].lit)
    BY <2>3, <2>4, <2>5, InsertWalks
  <2>. QED BY <2>6
<1>6. n \in N
  <2> HIDE DEF N
  <2>. QED BY <1>4, <1>5, SetInduction
<1>7. \E s : Walked(t[n], Upto(n), s)
  <2> HIDE DEF Upto
  <2>. QED BY <1>6
<1>. QED BY <1>2, <1>7
-----------------------------------------------------------------------------
(* Ranked enumerates a set along a strict order of its elements.            *)

\* When being below is a strict order of a finite set, ranking lists each of its elements once.
LEMMA RankedIs ==
  ASSUME NEW S, IsFiniteSet(S), NEW below,
         \A x \in S : below[x] \in SUBSET S /\ x \notin below[x],
         \A x, y \in S : x # y => x \in below[y] \/ y \in below[x],
         \A x, y \in S : x \in below[y] => below[x] \subseteq below[y]
  PROVE  /\ Cardinality(S) \in Nat
         /\ DOMAIN Ranked(S, below) = 1 .. Cardinality(S)
         /\ \A k \in 1 .. Cardinality(S) : Ranked(S, below)[k] \in S
         /\ \A x \in S : \E k \in 1 .. Cardinality(S) : Ranked(S, below)[k] = x
         /\ \A j, k \in 1 .. Cardinality(S) :
              Ranked(S, below)[j] = Ranked(S, below)[k] => j = k
<1>1. PICK n \in Nat : n = Cardinality(S)
  BY FS_CardinalityType
<1>2. \A x \in S : IsFiniteSet(below[x]) /\ Cardinality(below[x]) \in Nat
  BY FS_Subset, FS_CardinalityType
<1>3. ASSUME NEW x \in S PROVE Cardinality(below[x]) < n
  <2>1. Cardinality(below[x]) <= n /\ below[x] # S
    BY <1>1, FS_Subset
  <2>2. Cardinality(below[x]) # n
    BY <1>1, <2>1, FS_Subset
  <2>. QED BY <1>2, <2>1, <2>2
<1>4. ASSUME NEW x \in S, NEW y \in S, x \in below[y]
      PROVE  Cardinality(below[x]) # Cardinality(below[y])
  <2>1. below[x] \in SUBSET below[y] /\ below[x] # below[y]
    BY <1>4
  <2>. QED BY <1>2, <2>1, FS_Subset
<1> DEFINE rank == [x \in S |-> Cardinality(below[x]) + 1]
<1>5. rank \in [S -> 1 .. n]
  BY <1>2, <1>3
<1>6. ASSUME NEW x \in S, NEW y \in S, rank[x] = rank[y] PROVE x = y
  <2>1. Cardinality(below[x]) = Cardinality(below[y])
    BY <1>2, <1>6
  <2>. QED BY <1>4, <2>1
<1> HIDE DEF rank
<1>7. rank \in Injection(S, 1 .. n)
  BY <1>5, <1>6 DEF Injection, IsInjective
<1>8. IsFiniteSet(1 .. n) /\ Cardinality(1 .. n) = n
  <2>1. 1 \in Int /\ n \in Int
    OBVIOUS
  <2>2. IsFiniteSet(1 .. n) /\ Cardinality(1 .. n) = IF 1 > n THEN 0 ELSE n - 1 + 1
    BY <2>1, FS_Interval
  <2>. QED BY <2>2
<1>9. rank \in Surjection(S, 1 .. n)
  BY <1>1, <1>7, <1>8, FS_Injection
<1>10. \A k \in 1 .. n : \E x \in S : rank[x] = k
  BY <1>9 DEF Surjection
<1> DEFINE r == Ranked(S, below)
<1>11. DOMAIN r = 1 .. n /\ \A k \in 1 .. n : r[k] = CHOOSE x \in S : Cardinality(below[x]) = k - 1
  BY <1>1 DEF Ranked
<1> HIDE DEF r
<1>12. \A k \in 1 .. n : \A x \in S : rank[x] = k <=> Cardinality(below[x]) = k - 1
  BY <1>2 DEF rank
<1>13. \A k \in 1 .. n : r[k] \in S /\ rank[r[k]] = k
  BY <1>10, <1>11, <1>12
<1>14. \A x \in S : r[rank[x]] = x /\ rank[x] \in 1 .. n
  BY <1>5, <1>6, <1>13
<1>. QED BY <1>1, <1>11, <1>13, <1>14 DEF r

\* The children of a node, each once.
LEMMA ChildrenOf ==
  ASSUME NEW U, NEW row \in [Bytes -> U],
         \A c, d \in Bytes : row[c] # Root /\ row[c] = row[d] => c = d
  PROVE  /\ Children(row) \in Seq(U \ {Root})
         /\ IsInjective(Children(row))
         /\ ToSet(Children(row)) = {row[c] : c \in {b \in Bytes : row[b] # Root}}
<1> DEFINE set   == {c \in Bytes : row[c] # Root}
           below == [c \in set |-> {d \in set : d < c}]
           bytes == Ranked(set, below)
<1>1. Bytes \subseteq Nat /\ IsFiniteSet(Bytes)
  BY BytesAssumption
<1>2. IsFiniteSet(set)
  BY <1>1, FS_Subset
<1>3. /\ \A x \in set : below[x] \in SUBSET set /\ x \notin below[x]
      /\ \A x, y \in set : x # y => x \in below[y] \/ y \in below[x]
      /\ \A x, y \in set : x \in below[y] => below[x] \subseteq below[y]
  <2>1. \A x \in set : x \in Nat
    BY <1>1
  <2>. QED BY <2>1
<1>4. PICK n \in Nat : n = Cardinality(set)
  BY <1>2, FS_CardinalityType
<1>5. /\ DOMAIN bytes = 1 .. n
      /\ \A k \in 1 .. n : bytes[k] \in set
      /\ \A x \in set : \E k \in 1 .. n : bytes[k] = x
      /\ \A j, k \in 1 .. n : bytes[j] = bytes[k] => j = k
  <2> HIDE DEF set, below
  <2>. QED BY <1>2, <1>3, <1>4, RankedIs
<1>6. Children(row) = [k \in 1 .. n |-> row[bytes[k]]]
  BY <1>5 DEF Children
<1> HIDE DEF bytes
<1>7. \A k \in 1 .. n : bytes[k] \in Bytes /\ row[bytes[k]] \in U \ {Root}
  BY <1>5
<1> HIDE DEF set
<1>8. PICK q : q = Children(row)
  OBVIOUS
<1>9. q = [k \in 1 .. n |-> row[bytes[k]]] /\ DOMAIN q = 1 .. n
  BY <1>6, <1>8
<1>10. q \in Seq(U \ {Root})
  BY <1>7, <1>9
<1>11. IsInjective(q)
  BY <1>5, <1>7, <1>9 DEF IsInjective
<1>12. ToSet(q) = {row[c] : c \in set}
  BY <1>5, <1>9 DEF ToSet
<1>. QED BY <1>8, <1>10, <1>11, <1>12 DEF set
-----------------------------------------------------------------------------
(* The breadth-first queue.                                                 *)

\* The nodes whose rows are final: the root, and the first k of the queue.
Done(q, k) == {Root} \union {q[j] : j \in 1 .. k}

\* The length of the string of a node.
Depth(str, u) == Len(str[u])

\* The queue holds the children of those nodes, each once, by ascending depth.
QueueOK(U, next, str, q, k) ==
  /\ q \in Seq(U \ {Root}) /\ IsInjective(q) /\ k \in 0 .. Len(q)
  /\ \A v \in U : v \in ToSet(q) <=>
       v # Root /\ \E u \in Done(q, k), c \in Bytes : next[u][c] = v
  /\ \A i, j \in 1 .. Len(q) : i < j => Depth(str, q[i]) <= Depth(str, q[j])

\* A node has one parent, and is one byte deeper.
LEMMA OneParent ==
  ASSUME NEW U, NEW next, NEW str, Tree(U, next, str)
  PROVE  /\ \A u, v \in U, c, d \in Bytes : next[u][c] # Root /\ next[u][c] = next[v][d] => u = v /\ c = d
         /\ \A u \in U : Depth(str, u) \in Nat
         /\ \A u \in U, c \in Bytes : next[u][c] # Root =>
              Depth(str, next[u][c]) = Depth(str, u) + 1
         /\ \A u \in U : Depth(str, u) = 0 => u = Root
<1>1. /\ \A u \in U : str[u] \in Seq(Bytes)
      /\ \A u \in U, c \in Bytes : next[u][c] # Root => str[next[u][c]] = Append(str[u], c)
  BY DEF Tree
<1>2. ASSUME NEW u \in U, NEW v \in U, NEW c \in Bytes, NEW d \in Bytes,
             next[u][c] # Root, next[u][c] = next[v][d]
      PROVE  u = v /\ c = d
  <2>1. Append(str[u], c) = Append(str[v], d)
    BY <1>1, <1>2
  <2>2. str[u] = str[v] /\ c = d
    BY <1>1, <2>1, AppendInjective
  <2>. QED BY <2>2 DEF Tree
<1>3. \A u \in U : Depth(str, u) \in Nat
  BY <1>1, LenProperties DEF Depth
<1>4. ASSUME NEW u \in U, NEW c \in Bytes, next[u][c] # Root
      PROVE  Depth(str, next[u][c]) = Depth(str, u) + 1
  <2>1. Len(Append(str[u], c)) = Len(str[u]) + 1
    BY <1>1, AppendProperties
  <2>. QED BY <1>1, <1>4, <2>1 DEF Depth
<1>5. ASSUME NEW u \in U, Depth(str, u) = 0 PROVE u = Root
  <2>1. str[u] = <<>>
    BY <1>1, <1>5, EmptySeq DEF Depth
  <2>. QED BY <2>1 DEF Tree
<1>. QED BY <1>2, <1>3, <1>4, <1>5

\* All nodes less deep than the next of the queue are done.
LEMMA QueueDepth ==
  ASSUME NEW U, NEW next, NEW str, Tree(U, next, str), NEW q, NEW k \in Nat,
         QueueOK(U, next, str, q, k), NEW b \in Nat,
         \A i \in k + 1 .. Len(q) : b <= Depth(str, q[i])
  PROVE  \A w \in U : Depth(str, w) < b => w \in Done(q, k)
<1> DEFINE N == {d \in Nat : d < b => \A w \in U : Depth(str, w) = d => w \in Done(q, k)}
<1>1. PICK l \in Nat : l = Len(q) /\ DOMAIN q = 1 .. l
  BY LenProperties DEF QueueOK
<1>2. 0 \in N
  BY OneParent DEF Done
<1>3. ASSUME NEW d \in Nat, d \in N PROVE d + 1 \in N
  <2>1. SUFFICES ASSUME d + 1 < b, NEW w \in U, Depth(str, w) = d + 1
                 PROVE  w \in Done(q, k)
    <3>1. d + 1 \in Nat
      OBVIOUS
    <3>. QED BY <3>1
  <2>2. d < b /\ d + 1 # 0
    BY <2>1
  <2>3. w # Root
    <3>1. str[Root] = <<>>
      BY DEF Tree
    <3>2. Depth(str, Root) = 0
      BY <3>1, EmptySeq DEF Depth
    <3>. QED BY <2>1, <2>2, <3>2
  <2>4. PICK u \in U, c \in Bytes : next[u][c] = w
    BY <2>3 DEF Tree
  <2>5. Depth(str, w) = Depth(str, u) + 1 /\ Depth(str, u) \in Nat
    BY <2>3, <2>4, OneParent
  <2>6. Depth(str, u) = d
    BY <2>1, <2>5
  <2>7. u \in Done(q, k)
    BY <1>3, <2>2, <2>6
  <2>8. w \in ToSet(q)
    BY <2>3, <2>4, <2>7 DEF QueueOK
  <2>9. PICK j \in 1 .. l : w = q[j]
    BY <1>1, <2>8 DEF ToSet
  <2>10. j \in 1 .. k
    <3>1. SUFFICES ASSUME j > k PROVE FALSE
      OBVIOUS
    <3>2. j \in k + 1 .. Len(q)
      BY <1>1, <3>1
    <3>3. b <= d + 1
      BY <2>1, <2>9, <3>2
    <3>. QED BY <2>1, <3>3
  <2>. QED BY <2>9, <2>10 DEF Done
<1>4. \A d \in Nat : d \in N
  <2> HIDE DEF N
  <2>. QED BY <1>2, <1>3, SetInduction
<1>5. \A w \in U : Depth(str, w) \in Nat
  BY OneParent
<1>. QED BY <1>4, <1>5

\* The queue does not run out before every node but the root was in it.
LEMMA QueueReach ==
  ASSUME NEW n \in Nat \ {0}, NEW next, NEW str, Tree(0 .. n - 1, next, str), NEW q, NEW k \in Nat,
         QueueOK(0 .. n - 1, next, str, q, k), k + 1 <= n - 1
  PROVE  k + 1 <= Len(q)
<1> DEFINE U == 0 .. n - 1
<1>1. PICK l \in Nat : l = Len(q) /\ DOMAIN q = 1 .. l /\ k <= l
  <2>1. q \in Seq(U \ {Root}) /\ k \in 0 .. Len(q)
    BY DEF QueueOK
  <2>. QED BY <2>1, LenProperties
<1>2. SUFFICES ASSUME k = l PROVE FALSE
  BY <1>1
<1> HIDE DEF U
<1>3. Tree(U, next, str) /\ QueueOK(U, next, str, q, k)
  BY DEF U
<1>4. \A w \in U : w \in Done(q, k)
  <2>1. ASSUME NEW w \in U PROVE w \in Done(q, k)
    <3>1. PICK b \in Nat : b = Depth(str, w) + 1 /\ Depth(str, w) < b
      <4>1. Depth(str, w) \in Nat
        BY <1>3, OneParent
      <4>. QED BY <4>1
    <3>2. \A i \in k + 1 .. Len(q) : b <= Depth(str, q[i])
      BY <1>1, <1>2
    <3>. QED BY <1>3, <3>1, <3>2, QueueDepth
  <2>. QED BY <2>1
<1>5. ToSet(q) = U \ {Root}
  <2>1. ToSet(q) \subseteq U \ {Root}
    <3>1. q \in Seq(U \ {Root})
      BY <1>3 DEF QueueOK
    <3>2. \A i \in 1 .. l : q[i] \in U \ {Root}
      BY <1>1, <3>1, ElementOfSeq
    <3>. QED BY <1>1, <3>2 DEF ToSet
  <2>2. \A w \in U \ {Root} : w \in ToSet(q)
    BY <1>1, <1>2, <1>4 DEF Done, ToSet
  <2>. QED BY <2>1, <2>2
<1>6. Cardinality(ToSet(q)) = l
  BY <1>1, <1>3, InjectiveLength DEF QueueOK
<1>7. Cardinality(U \ {Root}) = n - 1
  <2>1. U \ {Root} = 1 .. n - 1
    BY DEF U, Root
  <2>2. Cardinality(1 .. n - 1) = IF 1 > n - 1 THEN 0 ELSE (n - 1) - 1 + 1
    <3>1. 1 \in Int /\ n - 1 \in Int
      OBVIOUS
    <3>. QED BY <3>1, FS_Interval
  <2>3. PICK m \in Nat : m = n - 1
    OBVIOUS
  <2>4. Cardinality(1 .. m) = m
    BY <2>2, <2>3
  <2>. QED BY <2>1, <2>3, <2>4
<1>. QED BY <1>1, <1>2, <1>5, <1>6, <1>7
\* The children of the root.
LEMMA QueueInit ==
  ASSUME NEW U, NEW next, NEW str, Tree(U, next, str)
  PROVE  QueueOK(U, next, str, Children(next[Root]), 0)
<1>1. next \in [U -> [Bytes -> U]] /\ Root \in U
  BY DEF Tree
<1>2. PICK row \in [Bytes -> U] : row = next[Root]
  BY <1>1
<1>3. \A c, d \in Bytes : row[c] # Root /\ row[c] = row[d] => c = d
  BY <1>1, <1>2, OneParent
<1>4. PICK q : q = Children(row)
  OBVIOUS
<1>5. /\ q \in Seq(U \ {Root}) /\ IsInjective(q)
      /\ ToSet(q) = {row[c] : c \in {b \in Bytes : row[b] # Root}}
  BY <1>3, <1>4, ChildrenOf
<1>6. Done(q, 0) = {Root}
  BY DEF Done
<1>7. PICK l \in Nat : l = Len(q) /\ DOMAIN q = 1 .. l
  BY <1>5, LenProperties
<1>8. \A v \in U : v \in ToSet(q) <=> v # Root /\ \E u \in {Root}, c \in Bytes : next[u][c] = v
  BY <1>2, <1>5
<1>9. \A i \in 1 .. l : Depth(str, q[i]) = 1
  <2>1. \A v \in ToSet(q) : \E c \in Bytes : row[c] # Root /\ v = row[c]
    BY <1>5
  <2>2. Depth(str, Root) = 0
    <3>1. str[Root] = <<>>
      BY DEF Tree
    <3>. QED BY <3>1, EmptySeq DEF Depth
  <2>3. \A v \in ToSet(q) : Depth(str, v) = 1
    BY <1>1, <1>2, <2>1, <2>2, OneParent
  <2>. QED BY <1>7, <2>3 DEF ToSet
<1>10. QueueOK(U, next, str, q, 0)
  <2>1. 0 \in 0 .. Len(q)
    BY <1>7
  <2>2. \A i, j \in 1 .. Len(q) : i < j => Depth(str, q[i]) <= Depth(str, q[j])
    BY <1>7, <1>9
  <2>. QED BY <1>5, <1>6, <1>8, <2>1, <2>2 DEF QueueOK
<1>. QED BY <1>2, <1>4, <1>10

\* The next node of the queue is not done, and its children are not queued.
LEMMA QueueNext ==
  ASSUME NEW U, NEW next, NEW str, Tree(U, next, str), NEW q, NEW k \in Nat,
         QueueOK(U, next, str, q, k), k + 1 <= Len(q)
  PROVE  /\ q[k + 1] \in U \ {Root} /\ q[k + 1] \in ToSet(q)
         /\ q[k + 1] \notin Done(q, k)
         /\ Done(q, k + 1) = Done(q, k) \union {q[k + 1]}
         /\ Done(q, k) \subseteq U
         /\ \A c \in Bytes : next[q[k + 1]][c] # Root => next[q[k + 1]][c] \notin ToSet(q)
         /\ \A w \in U : Depth(str, w) < Depth(str, q[k + 1]) => w \in Done(q, k)
<1>0. q \in Seq(U \ {Root})
  BY DEF QueueOK
<1>1. PICK l \in Nat : l = Len(q) /\ DOMAIN q = 1 .. l /\ k + 1 \in 1 .. l
  <2>1. PICK l \in Nat : l = Len(q) /\ DOMAIN q = 1 .. l
    BY <1>0, LenProperties
  <2>2. k + 1 \in 1 .. l
    BY <2>1
  <2>. QED BY <2>1, <2>2
<1>2. /\ \A i \in 1 .. l : q[i] \in U \ {Root}
      /\ \A i, j \in 1 .. l : q[i] = q[j] => i = j
      /\ \A i, j \in 1 .. l : i < j => Depth(str, q[i]) <= Depth(str, q[j])
  <2>1. q \in Seq(U \ {Root}) /\ IsInjective(q)
    BY DEF QueueOK
  <2>. QED BY <1>1, <2>1, ElementOfSeq DEF IsInjective, QueueOK
<1>3. PICK u : u = q[k + 1]
  OBVIOUS
<1>4. u \in U \ {Root} /\ u \in ToSet(q)
  BY <1>1, <1>2, <1>3 DEF ToSet
<1>5. u \notin Done(q, k)
  <2>1. \A j \in 1 .. k : j \in 1 .. l /\ j # k + 1
    BY <1>1
  <2>. QED BY <1>1, <1>2, <1>3, <1>4, <2>1 DEF Done
<1>6. Done(q, k + 1) = Done(q, k) \union {u}
  <2>1. 1 .. (k + 1) = (1 .. k) \union {k + 1}
    OBVIOUS
  <2>. QED BY <1>3, <2>1 DEF Done
<1>7. Done(q, k) \subseteq U
  <2>1. \A j \in 1 .. k : j \in 1 .. l
    BY <1>1
  <2>2. Root \in U
    BY DEF Tree
  <2>. QED BY <1>2, <2>1, <2>2 DEF Done
<1>8. ASSUME NEW c \in Bytes, next[u][c] # Root PROVE next[u][c] \notin ToSet(q)
  <2>1. SUFFICES ASSUME next[u][c] \in ToSet(q) PROVE FALSE
    OBVIOUS
  <2>2. next[u][c] \in U
    BY <1>4 DEF Tree
  <2>3. PICK p \in Done(q, k), d \in Bytes : next[p][d] = next[u][c]
    BY <2>1, <2>2 DEF QueueOK
  <2>4. u = p
    BY <1>4, <1>7, <1>8, <2>3, OneParent
  <2>. QED BY <1>5, <2>3, <2>4
<1>9. \A w \in U : Depth(str, w) < Depth(str, u) => w \in Done(q, k)
  <2>1. PICK b \in Nat : b = Depth(str, u)
    BY <1>4, OneParent
  <2>2. \A i \in k + 1 .. Len(q) : b <= Depth(str, q[i])
    <3>1. \A i \in k + 1 .. l : i = k + 1 \/ (k + 1 < i /\ i \in 1 .. l)
      BY <1>1
    <3>. QED BY <1>1, <1>2, <1>3, <2>1, <3>1
  <2>. QED BY <2>1, <2>2, QueueDepth
<1>. QED BY <1>3, <1>4, <1>5, <1>6, <1>7, <1>8, <1>9

\* Its children come last.
LEMMA QueueStep ==
  ASSUME NEW U, NEW next, NEW str, Tree(U, next, str), NEW q, NEW k \in Nat,
         QueueOK(U, next, str, q, k), k + 1 <= Len(q)
  PROVE  /\ QueueOK(U, next, str, q \o Children(next[q[k + 1]]), k + 1)
         /\ Done(q \o Children(next[q[k + 1]]), k + 1) = Done(q, k) \union {q[k + 1]}
         /\ ToSet(q \o Children(next[q[k + 1]]))
              = ToSet(q) \union {next[q[k + 1]][c] : c \in {d \in Bytes : next[q[k + 1]][d] # Root}}
<1>1. PICK u : u = q[k + 1]
  OBVIOUS
<1>2. /\ u \in U \ {Root} /\ u \in ToSet(q) /\ u \notin Done(q, k)
      /\ Done(q, k + 1) = Done(q, k) \union {u} /\ Done(q, k) \subseteq U
      /\ \A c \in Bytes : next[u][c] # Root => next[u][c] \notin ToSet(q)
      /\ \A w \in U : Depth(str, w) < Depth(str, u) => w \in Done(q, k)
  BY <1>1, QueueNext
<1>3. PICK row \in [Bytes -> U] : row = next[u]
  BY <1>2 DEF Tree
<1>4. \A c, d \in Bytes : row[c] # Root /\ row[c] = row[d] => c = d
  BY <1>2, <1>3, OneParent
<1>r. PICK r : r = Children(row)
  OBVIOUS
<1>5. /\ r \in Seq(U \ {Root}) /\ IsInjective(r)
      /\ ToSet(r) = {row[c] : c \in {b \in Bytes : row[b] # Root}}
  BY <1>4, <1>r, ChildrenOf
<1>6. q \in Seq(U \ {Root}) /\ IsInjective(q)
  BY DEF QueueOK
<1>s. PICK s : s = q \o r
  OBVIOUS
<1>7. s \in Seq(U \ {Root}) /\ ToSet(s) = ToSet(q) \union ToSet(r)
  BY <1>5, <1>6, <1>s, ConcatSet
<1>8. ToSet(q) \cap ToSet(r) = {}
  BY <1>2, <1>3, <1>5
<1>9. IsInjective(s)
  BY <1>5, <1>6, <1>s, <1>8, ConcatInjective
<1>10. PICK l \in Nat, m \in Nat : /\ l = Len(q) /\ DOMAIN q = 1 .. l
                                   /\ m = Len(r) /\ DOMAIN r = 1 .. m
  BY <1>5, <1>6, LenProperties
<1>11. /\ Len(s) = l + m /\ DOMAIN s = 1 .. l + m
       /\ \A i \in 1 .. l + m : s[i] = IF i <= l THEN q[i] ELSE r[i - l]
  <2>1. /\ Len(s) = l + m
        /\ \A i \in 1 .. l + m : s[i] = IF i <= l THEN q[i] ELSE r[i - l]
    BY <1>5, <1>6, <1>s, <1>10, ConcatProperties
  <2>. QED BY <2>1, LenProperties
<1>12. k + 1 <= l
  BY <1>10
<1>13. Done(s, k + 1) = Done(q, k + 1)
  <2>1. \A j \in 1 .. (k + 1) : j \in 1 .. l + m /\ j <= l
    BY <1>12
  <2>2. \A j \in 1 .. (k + 1) : s[j] = q[j]
    BY <1>11, <2>1
  <2>. QED BY <2>2 DEF Done
<1>14. ASSUME NEW v \in U
       PROVE  v \in ToSet(s) <=> v # Root /\ \E p \in Done(s, k + 1), c \in Bytes : next[p][c] = v
  <2>1. v \in ToSet(q) <=> v # Root /\ \E p \in Done(q, k), c \in Bytes : next[p][c] = v
    BY DEF QueueOK
  <2>2. v \in ToSet(r) <=> v # Root /\ \E c \in Bytes : next[u][c] = v
    BY <1>3, <1>5
  <2>3. \A p : p \in Done(s, k + 1) <=> p \in Done(q, k) \/ p = u
    BY <1>2, <1>13
  <2>. QED BY <1>7, <2>1, <2>2, <2>3
<1>15. \A v \in ToSet(r) : Depth(str, v) = Depth(str, u) + 1
  BY <1>2, <1>3, <1>5, OneParent
<1>16. ASSUME NEW v \in ToSet(q) PROVE Depth(str, v) <= Depth(str, u) + 1
  <2>1. v \in U \ {Root}
    BY <1>6, <1>10, ElementOfSeq DEF ToSet
  <2>2. PICK p \in Done(q, k), c \in Bytes : next[p][c] = v
    BY <2>1 DEF QueueOK
  <2>3. /\ p \in U /\ Depth(str, p) \in Nat /\ Depth(str, u) \in Nat
        /\ Depth(str, v) = Depth(str, p) + 1
    BY <1>2, <2>1, <2>2, OneParent
  <2>4. Depth(str, p) <= Depth(str, u)
    <3>1. CASE p = Root
      <4>1. Depth(str, p) = 0
        <5>1. str[Root] = <<>>
          BY DEF Tree
        <5>. QED BY <3>1, <5>1, EmptySeq DEF Depth
      <4>. QED BY <2>3, <4>1
    <3>2. CASE p # Root
      <4>1. PICK j \in 1 .. k : p = q[j]
        BY <3>2 DEF Done
      <4>2. j \in 1 .. l /\ k + 1 \in 1 .. l /\ j < k + 1
        BY <1>12
      <4>. QED BY <1>1, <1>10, <4>1, <4>2 DEF QueueOK
    <3>. QED BY <3>1, <3>2
  <2>. QED BY <2>3, <2>4
<1>17. ASSUME NEW i \in 1 .. l + m, NEW j \in 1 .. l + m, i < j
       PROVE  Depth(str, s[i]) <= Depth(str, s[j])
  <2>0. /\ \A x \in 1 .. l : q[x] \in ToSet(q)
        /\ \A x \in 1 .. m : r[x] \in ToSet(r)
        /\ Depth(str, u) \in Nat
    BY <1>2, <1>10, OneParent DEF ToSet
  <2>1. CASE j <= l
    <3>1. i \in 1 .. l /\ j \in 1 .. l /\ s[i] = q[i] /\ s[j] = q[j]
      BY <1>11, <1>17, <2>1
    <3>. QED BY <1>10, <1>17, <3>1 DEF QueueOK
  <2>2. CASE ~(j <= l)
    <3>1. j - l \in 1 .. m /\ s[j] = r[j - l]
      BY <1>11, <2>2
    <3>2. Depth(str, s[j]) = Depth(str, u) + 1
      BY <1>15, <2>0, <3>1
    <3>3. CASE i <= l
      <4>1. i \in 1 .. l /\ s[i] = q[i]
        BY <1>11, <3>3
      <4>. QED BY <1>16, <2>0, <3>2, <4>1
    <3>4. CASE ~(i <= l)
      <4>1. i - l \in 1 .. m /\ s[i] = r[i - l]
        BY <1>11, <3>4
      <4>2. Depth(str, s[i]) = Depth(str, u) + 1
        BY <1>15, <2>0, <4>1
      <4>. QED BY <2>0, <3>2, <4>2
    <3>. QED BY <3>3, <3>4
  <2>. QED BY <2>1, <2>2
<1>L. \A i, j \in 1 .. Len(s) : i < j => Depth(str, s[i]) <= Depth(str, s[j])
  BY <1>11, <1>17
<1>18. k + 1 \in 0 .. Len(s)
  BY <1>11, <1>12
<1>19. QueueOK(U, next, str, s, k + 1)
  BY <1>7, <1>9, <1>14, <1>17, <1>18, <1>L DEF QueueOK
<1>20. Children(next[q[k + 1]]) = r
  BY <1>1, <1>3, <1>r
<1>21. ToSet(s) = ToSet(q) \union {next[u][c] : c \in {d \in Bytes : next[u][d] # Root}}
  BY <1>3, <1>5, <1>7
<1>. QED BY <1>1, <1>2, <1>s, <1>7, <1>13, <1>19, <1>20, <1>21
\* The queue holds nodes.
LEMMA QueuedNodes ==
  ASSUME NEW U, NEW next, NEW str, NEW q, NEW k, QueueOK(U, next, str, q, k)
  PROVE  ToSet(q) \subseteq U \ {Root}
<1>1. q \in Seq(U \ {Root})
  BY DEF QueueOK
<1>2. DOMAIN q = 1 .. Len(q) /\ \A i \in 1 .. Len(q) : q[i] \in U \ {Root}
  BY <1>1, LenProperties, ElementOfSeq
<1>. QED BY <1>2 DEF ToSet
-----------------------------------------------------------------------------
(* The goto automaton: the search goes down the trie one queued node at a time. *)

\* The row and the mask of a node are those of the automaton.
RowFinal(U, str, probes, b, u) ==
  /\ \A c \in Bytes : Longest(U, str, b.next[u][c], Append(str[u], c))
  /\ b.mask[u] = Masks(Ending(probes, str[u]))

\* The search when it has visited the first k nodes of its queue: their rows are final,
\* the others are still those of the trie, and whatever is queued knows what it fails to.
SearchOK(U, next, str, probes, b, k) ==
  /\ b.next \in [U -> [Bytes -> U]] /\ DOMAIN b.mask = U /\ b.fail \in [U -> U]
  /\ QueueOK(U, next, str, b.queue, k)
  /\ \A u \in Done(b.queue, k) : RowFinal(U, str, probes, b, u)
  /\ \A u \in U \ Done(b.queue, k) :
       b.next[u] = next[u] /\ b.mask[u] = Masks({p \in probes : p.lit = str[u]})
  /\ \A v \in ToSet(b.queue) : Proper(U, str, b.fail[v], v)

\* Visit makes the next node of the queue final.
LEMMA VisitStep ==
  ASSUME NEW U, NEW next, NEW str, Tree(U, next, str), NEW probes, Spelled(U, str, probes),
         NEW b, NEW k \in Nat, SearchOK(U, next, str, probes, b, k), k + 1 <= Len(b.queue)
  PROVE  SearchOK(U, next, str, probes, Visit(b, k + 1), k + 1)
<1>1. PICK q : q = b.queue
  OBVIOUS
<1>2. /\ b.next \in [U -> [Bytes -> U]] /\ DOMAIN b.mask = U /\ b.fail \in [U -> U]
      /\ QueueOK(U, next, str, q, k) /\ k + 1 <= Len(q)
      /\ \A w \in Done(q, k) : RowFinal(U, str, probes, b, w)
      /\ \A w \in U \ Done(q, k) :
           b.next[w] = next[w] /\ b.mask[w] = Masks({p \in probes : p.lit = str[w]})
      /\ \A v \in ToSet(q) : Proper(U, str, b.fail[v], v)
  BY <1>1 DEF SearchOK
<1>3. PICK u : u = q[k + 1]
  OBVIOUS
<1>4. /\ u \in U \ {Root} /\ u \in ToSet(q) /\ u \notin Done(q, k)
      /\ Done(q, k + 1) = Done(q, k) \union {u} /\ Done(q, k) \subseteq U
      /\ \A c \in Bytes : next[u][c] # Root => next[u][c] \notin ToSet(q)
      /\ \A w \in U : Depth(str, w) < Depth(str, u) => w \in Done(q, k)
  BY <1>2, <1>3, QueueNext
<1>5. PICK row \in [Bytes -> U] : row = next[u] /\ row = b.next[u]
  BY <1>2, <1>4
<1>6. PICK f \in U : f = b.fail[u] /\ Proper(U, str, f, u)
  BY <1>2, <1>4
<1>7. PICK more : more = q \o Children(row)
  OBVIOUS
<1>8. /\ QueueOK(U, next, str, more, k + 1)
      /\ Done(more, k + 1) = Done(q, k) \union {u}
      /\ ToSet(more) = ToSet(q) \union {row[c] : c \in {d \in Bytes : row[d] # Root}}
  <2>0. QueueOK(U, next, str, q, k) /\ k + 1 <= Len(q)
    BY <1>2
  <2>1. /\ QueueOK(U, next, str, q \o Children(next[q[k + 1]]), k + 1)
        /\ Done(q \o Children(next[q[k + 1]]), k + 1) = Done(q, k) \union {q[k + 1]}
        /\ ToSet(q \o Children(next[q[k + 1]]))
             = ToSet(q) \union {next[q[k + 1]][c] : c \in {d \in Bytes : next[q[k + 1]][d] # Root}}
    BY <2>0, QueueStep
  <2>2. next[q[k + 1]] = row
    BY <1>3, <1>5
  <2>. QED BY <1>3, <1>7, <2>1, <2>2
<1>9. f \in Done(q, k) /\ f # u
  <2>1. /\ str[f] \in Seq(Bytes) /\ str[u] \in Seq(Bytes)
        /\ Suffix(str[f], str[u]) /\ f # u
    BY <1>4, <1>6 DEF Tree, Proper
  <2>2. str[f] # str[u]
    BY <1>4, <2>1 DEF Tree
  <2>3. Depth(str, f) \in Nat /\ Depth(str, u) \in Nat
    BY <1>4, OneParent
  <2>4. ~(Depth(str, f) >= Depth(str, u))
    BY <2>1, <2>2, SuffixEqual DEF Depth
  <2>. QED BY <1>4, <2>1, <2>3, <2>4
<1>10. PICK via \in [Bytes -> U] : /\ via = b.next[f]
                                   /\ \A c \in Bytes : Longest(U, str, via[c], Append(str[f], c))
  BY <1>2, <1>9 DEF RowFinal
<1>11. PICK final : final = [c \in Bytes |-> IF c \in {d \in Bytes : row[d] # Root} THEN row[c] ELSE via[c]]
  OBVIOUS
<1>12. ASSUME NEW c \in Bytes
       PROVE  final[c] \in U /\ Longest(U, str, final[c], Append(str[u], c))
  <2>1. CASE row[c] # Root
    <3>1. final[c] = row[c] /\ row[c] \in U /\ str[row[c]] = Append(str[u], c)
      <4>1. str[next[u][c]] = Append(str[u], c)
        <5>1. next[u][c] # Root /\ u \in U
          BY <1>4, <1>5, <2>1
        <5>. QED BY <5>1 DEF Tree
      <4>. QED BY <1>5, <1>11, <2>1, <4>1
    <3>2. Longest(U, str, row[c], str[row[c]])
      BY <3>1, LongestSelf
    <3>. QED BY <3>1, <3>2
  <2>2. CASE row[c] = Root
    <3>1. final[c] = via[c] /\ via[c] \in U
      BY <1>11, <2>2
    <3>2. ASSUME NEW w \in U, str[w] = Append(str[u], c) PROVE FALSE
      <4>1. next[u][c] = w
        BY <1>4, <3>2, TreeEdges
      <4>2. w = Root
        BY <1>5, <2>2, <4>1
      <4>3. str[w] = <<>> /\ str[u] \in Seq(Bytes)
        BY <1>4, <4>2 DEF Tree
      <4>4. Append(str[u], c) # <<>>
        BY <4>3, AppendProperties
      <4>. QED BY <3>2, <4>3, <4>4
    <3>3. PICK v \in U : v = via[c] /\ Longest(U, str, v, Append(str[f], c))
      BY <1>10
    <3>4. Longest(U, str, v, Append(str[u], c))
      BY <1>4, <1>6, <3>2, <3>3, LongestMissing
    <3>. QED BY <3>1, <3>3, <3>4
  <2>. QED BY <2>1, <2>2
<1>13. final \in [Bytes -> U]
  BY <1>11, <1>12
<1>14. PICK x : x = Visit(b, k + 1)
  OBVIOUS
<1>15. /\ x.next = [b.next EXCEPT ![u] = final]
       /\ x.mask = [b.mask EXCEPT ![u] = b.mask[u] \union b.mask[f]]
       /\ x.fail = [v \in DOMAIN b.fail |->
                     IF \E c \in {d \in Bytes : row[d] # Root} : row[c] = v
                     THEN via[CHOOSE c \in {d \in Bytes : row[d] # Root} : row[c] = v]
                     ELSE b.fail[v]]
       /\ x.queue = more
  <2>1. b.queue[k + 1] = u /\ b.next[u] = row /\ b.fail[u] = f /\ b.next[f] = via
    BY <1>1, <1>3, <1>5, <1>6, <1>10
  <2>2. x.next = [b.next EXCEPT ![u] = final]
    BY <1>11, <1>14, <2>1 DEF Visit
  <2>3. x.mask = [b.mask EXCEPT ![u] = b.mask[u] \union b.mask[f]]
    BY <1>14, <2>1 DEF Visit, Absorbed
  <2>4. x.fail = [v \in DOMAIN b.fail |->
                   IF \E c \in {d \in Bytes : row[d] # Root} : row[c] = v
                   THEN via[CHOOSE c \in {d \in Bytes : row[d] # Root} : row[c] = v]
                   ELSE b.fail[v]]
    BY <1>14, <2>1 DEF Visit
  <2>5. x.queue = more
    BY <1>1, <1>7, <1>14, <2>1 DEF Visit
  <2>. QED BY <2>2, <2>3, <2>4, <2>5
<1>16. x.next \in [U -> [Bytes -> U]] /\ DOMAIN x.mask = U
  BY <1>2, <1>4, <1>13, <1>15
<1>17. ASSUME NEW v \in U, NEW c \in Bytes, row[c] # Root, row[c] = v
       PROVE  x.fail[v] \in U /\ Proper(U, str, x.fail[v], v)
  <2>1. PICK d \in Bytes : row[d] # Root /\ row[d] = v /\ x.fail[v] = via[d]
    <3>1. \E d \in {d \in Bytes : row[d] # Root} : row[d] = v
      BY <1>17
    <3>2. PICK d : d = CHOOSE e \in {e \in Bytes : row[e] # Root} : row[e] = v
      OBVIOUS
    <3>3. d \in Bytes /\ row[d] # Root /\ row[d] = v
      BY <3>1, <3>2
    <3>4. x.fail[v] = via[d]
      BY <1>2, <1>15, <3>1, <3>2
    <3>. QED BY <3>3, <3>4
  <2>2. str[v] = Append(str[u], d)
    <3>1. str[next[u][d]] = Append(str[u], d)
      <4>1. next[u][d] # Root /\ u \in U
        BY <1>4, <1>5, <2>1
      <4>. QED BY <4>1 DEF Tree
    <3>. QED BY <1>5, <2>1, <3>1
  <2>3. PICK g \in U : g = via[d] /\ Longest(U, str, g, Append(str[f], d))
    BY <1>10
  <2>4. Proper(U, str, g, v)
    BY <1>4, <1>6, <2>2, <2>3, ProperChild
  <2>. QED BY <2>1, <2>3, <2>4
<1>18. ASSUME NEW v \in U, \A c \in Bytes : row[c] # Root => row[c] # v
       PROVE  x.fail[v] = b.fail[v]
  BY <1>2, <1>15, <1>18
<1>19. x.fail \in [U -> U]
  <2>1. \A v \in U : x.fail[v] \in U
    BY <1>2, <1>17, <1>18
  <2>. QED BY <1>2, <1>15, <2>1
<1>20. \A v \in ToSet(more) : Proper(U, str, x.fail[v], v)
  <2>1. ASSUME NEW v \in ToSet(more) PROVE Proper(U, str, x.fail[v], v)
    <3>1. CASE \E c \in Bytes : row[c] # Root /\ row[c] = v
      BY <1>17, <3>1
    <3>2. CASE \A c \in Bytes : row[c] # Root => row[c] # v
      <4>1. v \in ToSet(q)
        BY <1>8, <3>2
      <4>2. v \in U
        BY <1>2, <4>1, QueuedNodes
      <4>. QED BY <1>2, <1>18, <3>2, <4>1, <4>2
    <3>. QED BY <3>1, <3>2
  <2>. QED BY <2>1
<1>21. ASSUME NEW w \in Done(more, k + 1) PROVE RowFinal(U, str, probes, x, w)
  <2>1. CASE w = u
    <3>1. x.next[w] = final
      BY <1>2, <1>4, <1>15, <2>1
    <3>2. PICK own : own = {p \in probes : p.lit = str[u]}
      OBVIOUS
    <3>3. Ending(probes, str[u]) = own \union Ending(probes, str[f])
      BY <1>4, <1>6, <3>2, ProperEnding
    <3>4. b.mask[u] = Masks(own) /\ b.mask[f] = Masks(Ending(probes, str[f]))
      BY <1>2, <1>4, <1>9, <3>2 DEF RowFinal
    <3>5. x.mask[w] = b.mask[u] \union b.mask[f]
      BY <1>2, <1>4, <1>15, <2>1
    <3>6. x.mask[w] = Masks(Ending(probes, str[w]))
      <4>1. PICK e : e = Ending(probes, str[f])
        OBVIOUS
      <4>2. Masks(own \union e) = Masks(own) \union Masks(e)
        BY MasksUnion
      <4>. QED BY <2>1, <3>3, <3>4, <3>5, <4>1, <4>2
    <3>. QED BY <1>12, <2>1, <3>1, <3>6 DEF RowFinal
  <2>2. CASE w # u
    <3>1. w \in Done(q, k) /\ w \in U
      BY <1>4, <1>8, <2>2
    <3>2. x.next[w] = b.next[w] /\ x.mask[w] = b.mask[w]
      BY <1>2, <1>15, <2>2, <3>1
    <3>. QED BY <1>2, <3>1, <3>2 DEF RowFinal
  <2>. QED BY <2>1, <2>2
<1>22. ASSUME NEW w \in U \ Done(more, k + 1)
       PROVE  x.next[w] = next[w] /\ x.mask[w] = Masks({p \in probes : p.lit = str[w]})
  <2>1. w \in U \ Done(q, k) /\ w # u
    BY <1>8
  <2>. QED BY <1>2, <1>15, <2>1
<1>23. SearchOK(U, next, str, probes, x, k + 1)
  BY <1>8, <1>15, <1>16, <1>19, <1>20, <1>21, <1>22 DEF SearchOK
<1>. QED BY <1>14, <1>23

\* The search after the nodes in q.
VisitAll(base, q) == FoldLeft(Visit, base, q)

\* The search visits one node after the other.
VisitSteps(t, base, n, q) ==
  /\ t[0] = base /\ t[n] = VisitAll(base, q)
  /\ \A i \in 1 .. n : t[i] = Visit(t[i - 1], q[i])

\* The states the search goes through.
LEMMA VisitFold ==
  ASSUME NEW n \in Nat, NEW q, DOMAIN q = 1 .. n, NEW base
  PROVE  \E t : VisitSteps(t, base, n, q)
<1>1. VisitClimb!Folded(0, base, q) = VisitAll(base, q)
  BY DEF VisitAll, VisitIn, VisitClimb!Folded, VisitClimb!FoldLeft, VisitClimb!MapThenFoldSet,
         VisitClimb!Max, FoldLeft, MapThenFoldSet, Max
<1>2. PICK t : VisitClimb!Climbs(t, 0, base, n, q) /\ t[n] = VisitClimb!Folded(0, base, q)
  BY VisitClimb!FoldClimbs
<1>. QED BY <1>1, <1>2 DEF VisitClimb!Climbs, VisitIn, VisitSteps

\* When the search has visited as many nodes as the trie has below its root, all are final.
LEMMA SearchEnd ==
  ASSUME NEW n \in Nat \ {0}, NEW next, NEW str, Tree(0 .. n - 1, next, str), NEW probes,
         NEW b, SearchOK(0 .. n - 1, next, str, probes, b, n - 1)
  PROVE  Automaton(0 .. n - 1, str, probes, [next |-> b.next, mask |-> b.mask])
<1>q. PICK q : q = b.queue
  OBVIOUS
<1>1. PICK k \in Nat : q = b.queue /\ k = n - 1
  BY <1>q
<1> DEFINE U == 0 .. n - 1
<1>2. QueueOK(U, next, str, q, k)
  BY <1>1 DEF SearchOK
<1>3. PICK l \in Nat : l = Len(q) /\ DOMAIN q = 1 .. l /\ k <= l
  <2>1. q \in Seq(U \ {Root}) /\ k \in 0 .. Len(q)
    BY <1>2 DEF QueueOK
  <2>. QED BY <2>1, LenProperties
<1>4. U \ {Root} = 1 .. k /\ IsFiniteSet(1 .. k) /\ Cardinality(1 .. k) = k
  <2>1. U \ {Root} = 1 .. k
    BY <1>1 DEF Root
  <2>2. 1 \in Int /\ k \in Int
    OBVIOUS
  <2>3. IsFiniteSet(1 .. k) /\ Cardinality(1 .. k) = IF 1 > k THEN 0 ELSE k - 1 + 1
    BY <2>2, FS_Interval
  <2>. QED BY <2>1, <2>3
<1> HIDE DEF U
<1>5. ToSet(q) \subseteq 1 .. k
  BY <1>2, <1>4, QueuedNodes
<1>6. Cardinality(ToSet(q)) = l
  <2>1. q \in Seq(U \ {Root}) /\ IsInjective(q)
    BY <1>2 DEF QueueOK
  <2>. QED BY <1>3, <2>1, InjectiveLength
<1>7. l = k /\ ToSet(q) = 1 .. k
  <2>1. Cardinality(ToSet(q)) <= Cardinality(1 .. k)
    BY <1>4, <1>5, FS_Subset
  <2>2. l = k
    BY <1>3, <1>4, <1>6, <2>1
  <2>3. ToSet(q) \in SUBSET (1 .. k) /\ Cardinality(ToSet(q)) = Cardinality(1 .. k)
    BY <1>4, <1>5, <1>6, <2>2
  <2>. QED BY <1>4, <2>2, <2>3, FS_Subset
<1>8. Done(q, k) = U
  <2>1. {q[j] : j \in 1 .. k} = ToSet(q)
    BY <1>3, <1>7 DEF ToSet
  <2>2. Root \in U
    BY DEF U, Root
  <2>. QED BY <1>4, <1>7, <2>1, <2>2 DEF Done
<1>9. PICK ac : ac = [next |-> b.next, mask |-> b.mask]
  OBVIOUS
<1>10. ac.next = b.next /\ ac.mask = b.mask
  BY <1>9
<1>11. SearchOK(U, next, str, probes, b, k)
  BY <1>1 DEF U
<1>12. Automaton(U, str, probes, ac)
  BY <1>1, <1>8, <1>10, <1>11 DEF SearchOK, RowFinal, Automaton
<1>. QED BY <1>9, <1>12 DEF U

\* The search begins with the root final and its children queued.
LEMMA SearchInit ==
  ASSUME NEW U, NEW next, NEW str, Tree(U, next, str), NEW probes, Spelled(U, str, probes),
         NEW mask, DOMAIN mask = U, \A u \in U : mask[u] = Masks({p \in probes : p.lit = str[u]}),
         NEW b, b = [next |-> next, mask |-> mask, fail |-> [v \in U |-> Root],
                     queue |-> Children(next[Root])]
  PROVE  SearchOK(U, next, str, probes, b, 0)
<1>1. PICK q : q = Children(next[Root])
  OBVIOUS
<1>2. QueueOK(U, next, str, q, 0)
  BY <1>1, QueueInit
<1>3. /\ b.next = next /\ b.mask = mask /\ b.fail = [v \in U |-> Root] /\ b.queue = q
      /\ Root \in U /\ next \in [U -> [Bytes -> U]] /\ str[Root] = <<>>
  BY <1>1 DEF Tree
<1>4. Done(q, 0) = {Root}
  BY DEF Done
<1>5. Ending(probes, str[Root]) = {p \in probes : p.lit = str[Root]}
  <2>1. ASSUME NEW p \in probes PROVE Suffix(p.lit, <<>>) <=> p.lit = <<>>
    <3>1. p.lit \in Seq(Bytes) /\ p.lit # <<>>
      BY DEF Spelled, Probe
    <3>2. Len(p.lit) \in Nat \ {0} /\ Len(<<>>) = 0
      BY <3>1, EmptySeq
    <3>. QED BY <3>1, <3>2 DEF Suffix
  <2>. QED BY <1>3, <2>1 DEF Ending
<1>6. RowFinal(U, str, probes, b, Root)
  <2>1. \A c \in Bytes : Longest(U, str, next[Root][c], Append(str[Root], c))
    BY RootEdges
  <2>. QED BY <1>3, <1>5, <2>1 DEF RowFinal
<1>7. \A v \in ToSet(q) : Proper(U, str, Root, v)
  <2>1. ASSUME NEW v \in ToSet(q) PROVE Proper(U, str, Root, v)
    <3>1. v \in U
      BY <1>2, QueuedNodes
    <3>2. PICK c \in Bytes : next[Root][c] = v /\ v # Root
      BY <1>2, <1>4, <3>1 DEF QueueOK
    <3>. QED BY <3>2, RootEdges
  <2>. QED BY <2>1
<1>8. \A v \in ToSet(q) : b.fail[v] = Root
  BY <1>2, <1>3, QueuedNodes
<1>. QED BY <1>2, <1>3, <1>4, <1>6, <1>7, <1>8 DEF SearchOK

\* The automaton of a sequence of probes collects from a line the masks of the probes
\* whose literals the line contains.
THEOREM AhoCorasickExact ==
  ASSUME NEW m \in Nat, NEW probes, DOMAIN probes = 1 .. m,
         \A i \in 1 .. m : Probe(probes[i]), NEW text \in Seq(Bytes)
  PROVE  ScanAhoCorasick(BuildAhoCorasick(probes), text)
           = Masks({p \in {probes[i] : i \in 1 .. m} : Occurs(p.lit, text)})
<1>1. PICK all : all = {probes[i] : i \in 1 .. m}
  OBVIOUS
<1>2. PICK w : w = Trie(probes)
  OBVIOUS
<1>3a. PICK n \in Nat : \E str : TrieOK(w, n, str, all)
  <2>1. PICK s : Walked(Trie(probes), {probes[i] : i \in 1 .. m}, s)
    BY TrieWalked
  <2>2. Walked(w, all, s)
    BY <1>1, <1>2, <2>1
  <2>. QED BY <2>2 DEF Walked
<1>3. PICK str : TrieOK(w, n, str, all)
  BY <1>3a
<1>4. n \in Nat \ {0}
  BY <1>3 DEF TrieOK
<1> DEFINE U == 0 .. n - 1
<1>5. PICK k \in Nat : k = n - 1
  BY <1>4
<1>6. Cardinality(U) = n
  <2>1. 0 \in Int /\ n - 1 \in Int
    OBVIOUS
  <2>2. Cardinality(0 .. n - 1) = IF 0 > n - 1 THEN 0 ELSE (n - 1) - 0 + 1
    BY <2>1, FS_Interval
  <2>. QED BY <1>4, <2>2
<1>7. /\ Tree(U, w.next, str) /\ DOMAIN w.mask = U /\ Spelled(U, str, all)
      /\ \A u \in U : w.mask[u] = Masks({p \in all : p.lit = str[u]})
  BY <1>3 DEF TrieOK
<1> HIDE DEF U
<1>8. DOMAIN w.next = U
  BY <1>7 DEF Tree
<1> DEFINE base == [next |-> w.next, mask |-> w.mask, fail |-> [v \in U |-> Root],
                    queue |-> Children(w.next[Root])]
           q == [i \in 1 .. k |-> i]
<1>9. PICK b : b = VisitAll(base, q)
  OBVIOUS
<1>10. BuildAhoCorasick(probes) = [next |-> b.next, mask |-> b.mask]
  <2>1. 1 .. Cardinality(U) - 1 = 1 .. k
    BY <1>5, <1>6
  <2>. QED BY <1>2, <1>8, <1>9, <2>1 DEF BuildAhoCorasick, VisitAll
<1>11. SearchOK(U, w.next, str, all, base, 0)
  <2>1. PICK c : c = base
    OBVIOUS
  <2>2. PICK nx, mk : nx = w.next /\ mk = w.mask
    OBVIOUS
  <2>3. c = [next |-> nx, mask |-> mk, fail |-> [v \in U |-> Root], queue |-> Children(nx[Root])]
    BY <2>1, <2>2
  <2>4. /\ Tree(U, nx, str) /\ DOMAIN mk = U /\ Spelled(U, str, all)
        /\ \A u \in U : mk[u] = Masks({p \in all : p.lit = str[u]})
    BY <1>7, <2>2
  <2>5. SearchOK(U, nx, str, all, c, 0)
    BY <2>3, <2>4, SearchInit
  <2>. QED BY <2>1, <2>2, <2>5
<1>12. DOMAIN q = 1 .. k /\ \A i \in 1 .. k : q[i] = i
  OBVIOUS
<1> HIDE DEF base, q
<1>13. PICK t : /\ t[0] = base /\ t[k] = b
                /\ \A i \in 1 .. k : t[i] = Visit(t[i - 1], i)
  <2>1. PICK t : VisitSteps(t, base, k, q)
    BY <1>12, VisitFold
  <2>. QED BY <1>9, <1>12, <2>1 DEF VisitSteps
<1> DEFINE N == {i \in Nat : i <= k => SearchOK(U, w.next, str, all, t[i], i)}
<1>14. 0 \in N
  BY <1>11, <1>13
<1>15. ASSUME NEW i \in Nat, i \in N PROVE i + 1 \in N
  <2>1. SUFFICES ASSUME i + 1 <= k PROVE SearchOK(U, w.next, str, all, t[i + 1], i + 1)
    OBVIOUS
  <2>2. PICK x, y, nx : x = t[i] /\ y = t[i + 1] /\ nx = w.next
    OBVIOUS
  <2>3. SearchOK(U, nx, str, all, x, i)
    BY <1>15, <2>1, <2>2
  <2>4. y = Visit(x, i + 1)
    <3>1. i + 1 \in 1 .. k /\ (i + 1) - 1 = i
      BY <2>1
    <3>2. t[i + 1] = Visit(t[(i + 1) - 1], i + 1)
      BY <1>13, <3>1
    <3>. QED BY <2>2, <3>1, <3>2
  <2>5. i + 1 <= Len(x.queue)
    <3>1. PICK r : r = x.queue
      OBVIOUS
    <3>2. QueueOK(0 .. n - 1, nx, str, r, i) /\ Tree(0 .. n - 1, nx, str) /\ i + 1 <= n - 1
      BY <1>5, <1>7, <2>1, <2>2, <2>3, <3>1 DEF SearchOK, U
    <3>3. i + 1 <= Len(r)
      BY <1>4, <3>2, QueueReach
    <3>. QED BY <3>1, <3>3
  <2>6. Tree(U, nx, str) /\ Spelled(U, str, all)
    BY <1>7, <2>2
  <2>7. SearchOK(U, nx, str, all, Visit(x, i + 1), i + 1)
    BY <2>3, <2>5, <2>6, VisitStep
  <2>. QED BY <2>2, <2>4, <2>7
<1>16. k \in N
  <2> HIDE DEF N
  <2>. QED BY <1>14, <1>15, SetInduction
<1>17. PICK nx : nx = w.next
  OBVIOUS
<1>18. Tree(0 .. n - 1, nx, str) /\ SearchOK(0 .. n - 1, nx, str, all, b, n - 1)
  BY <1>5, <1>7, <1>13, <1>16, <1>17 DEF U
<1>19. Automaton(0 .. n - 1, str, all, [next |-> b.next, mask |-> b.mask])
  BY <1>4, <1>18, SearchEnd
<1>20. PICK ac : ac = BuildAhoCorasick(probes)
  OBVIOUS
<1>21. Automaton(U, str, all, ac) /\ Tree(U, nx, str) /\ Spelled(U, str, all)
  BY <1>7, <1>10, <1>17, <1>19, <1>20 DEF U
<1>22. ScanAhoCorasick(ac, text) = Masks({p \in all : Occurs(p.lit, text)})
  BY <1>21, ScanExact
<1>. QED BY <1>1, <1>20, <1>22
-----------------------------------------------------------------------------
(* Occurrences.                                                             *)

\* The bytes of lit follow the first i of the text.
FoundAt(lit, text, i) == i + Len(lit) <= Len(text) /\ \A j \in 1 .. Len(lit) : lit[j] = text[i + j]

\* A literal occurs where its bytes are.
LEMMA OccursAt ==
  ASSUME NEW S, NEW lit \in Seq(S), NEW text \in Seq(S)
  PROVE  Occurs(lit, text) <=> \E i \in Nat : FoundAt(lit, text, i)
<1>0. PICK k \in Nat, n \in Nat : k = Len(lit) /\ n = Len(text)
  BY LenProperties
<1>1. Occurs(lit, text) <=> \E m \in 0 .. n : Suffix(lit, Read(text, m))
  BY <1>0, OccursRead
<1>2. ASSUME NEW m \in 0 .. n
      PROVE  Suffix(lit, Read(text, m)) <=>
               k <= m /\ \A j \in 1 .. k : lit[j] = text[m - k + j]
  <2>1. PICK r : r = Read(text, m)
    OBVIOUS
  <2>2. Len(r) = m /\ \A j \in 1 .. m : r[j] = text[j]
    BY <1>0, <2>1, ReadMore
  <2>3. Suffix(lit, r) <=> k <= m /\ \A j \in 1 .. k : lit[j] = r[m - k + j]
    BY <1>0, <2>2 DEF Suffix
  <2>4. k <= m => \A j \in 1 .. k : m - k + j \in 1 .. m
    OBVIOUS
  <2>5. k <= m => \A j \in 1 .. k : r[m - k + j] = text[m - k + j]
    BY <2>2, <2>4
  <2>. QED BY <2>1, <2>3, <2>5
<1>3. ASSUME NEW m \in 0 .. n, Suffix(lit, Read(text, m)) PROVE \E i \in Nat : FoundAt(lit, text, i)
  <2>1. k <= m /\ \A j \in 1 .. k : lit[j] = text[m - k + j]
    BY <1>2, <1>3
  <2>2. PICK i \in Nat : i = m - k
    BY <2>1
  <2>3. i + k <= n /\ \A j \in 1 .. k : m - k + j = i + j
    BY <2>1, <2>2
  <2>4. \A j \in 1 .. k : lit[j] = text[i + j]
    BY <2>1, <2>3
  <2>. QED BY <1>0, <2>3, <2>4 DEF FoundAt
<1>4. ASSUME NEW i \in Nat, FoundAt(lit, text, i) PROVE \E m \in 0 .. n : Suffix(lit, Read(text, m))
  <2>0. i + Len(lit) <= Len(text) /\ \A j \in 1 .. Len(lit) : lit[j] = text[i + j]
    BY <1>4 DEF FoundAt
  <2>1. i + k <= n /\ \A j \in 1 .. k : lit[j] = text[i + j]
    BY <1>0, <2>0
  <2>2. PICK m \in 0 .. n : m = i + k
    BY <2>1
  <2>3. \A j \in 1 .. k : m - k + j = i + j
    BY <2>2
  <2>4. k <= m /\ \A j \in 1 .. k : lit[j] = text[m - k + j]
    BY <2>1, <2>2, <2>3
  <2>. QED BY <1>2, <2>4
<1>. QED BY <1>1, <1>3, <1>4

\* What occurs in what occurs in a text occurs in the text.
LEMMA OccursTrans ==
  ASSUME NEW S, NEW a \in Seq(S), NEW b \in Seq(S), NEW c \in Seq(S), Occurs(a, b), Occurs(b, c)
  PROVE  Occurs(a, c)
<1>1. PICK k \in Nat, l \in Nat, n \in Nat : k = Len(a) /\ l = Len(b) /\ n = Len(c)
  BY LenProperties
<1>2. PICK i \in Nat : FoundAt(a, b, i)
  BY OccursAt
<1>3. PICK h \in Nat : FoundAt(b, c, h)
  BY OccursAt
<1>4. i + k <= l /\ \A j \in 1 .. k : a[j] = b[i + j]
  BY <1>1, <1>2 DEF FoundAt
<1>5. h + l <= n /\ \A j \in 1 .. l : b[j] = c[h + j]
  BY <1>1, <1>3 DEF FoundAt
<1>6. PICK g \in Nat : g = h + i
  OBVIOUS
<1>7. ASSUME NEW j \in 1 .. k PROVE a[j] = c[g + j]
  <2>1. i + j \in 1 .. l /\ h + (i + j) = g + j
    BY <1>4, <1>6
  <2>2. b[i + j] = c[h + (i + j)]
    BY <1>5, <2>1
  <2>. QED BY <1>4, <2>1, <2>2
<1>8. g + k <= n
  BY <1>4, <1>5, <1>6
<1>9. FoundAt(a, c, g)
  BY <1>1, <1>7, <1>8 DEF FoundAt
<1>. QED BY <1>9, OccursAt

\* A string occurs in itself.
LEMMA OccursRefl ==
  ASSUME NEW S, NEW a \in Seq(S)
  PROVE  Occurs(a, a)
<1>1. PICK k \in Nat : k = Len(a)
  BY LenProperties
<1>2. FoundAt(a, a, 0)
  BY <1>1 DEF FoundAt
<1>. QED BY <1>2, OccursAt
-----------------------------------------------------------------------------
(* The order of the probes.                                                 *)

\* Before orders strings strictly.
LEMMA BeforeOrder ==
  ASSUME NEW a \in Seq(Bytes), NEW b \in Seq(Bytes), NEW c \in Seq(Bytes)
  PROVE  /\ ~Before(a, a)
         /\ a # b => Before(a, b) \/ Before(b, a)
         /\ Before(a, b) /\ Before(b, c) => Before(a, c)
<1>1. PICK k \in Nat, l \in Nat, n \in Nat :
        /\ k = Len(a) /\ l = Len(b) /\ n = Len(c)
        /\ DOMAIN a = 1 .. k /\ DOMAIN b = 1 .. l /\ DOMAIN c = 1 .. n
  BY LenProperties
<1>2. /\ \A i \in 1 .. k : a[i] \in Nat
      /\ \A i \in 1 .. l : b[i] \in Nat
      /\ \A i \in 1 .. n : c[i] \in Nat
  <2>1. Bytes \subseteq Nat
    BY BytesAssumption
  <2>. QED BY <1>1, <2>1, ElementOfSeq
<1>3. Before(a, b) <=> \/ k < l
                       \/ k = l /\ \E i \in 1 .. k : a[i] < b[i] /\ \A j \in 1 .. i - 1 : a[j] = b[j]
  BY <1>1 DEF Before
<1>4. Before(b, a) <=> \/ l < k
                       \/ l = k /\ \E i \in 1 .. l : b[i] < a[i] /\ \A j \in 1 .. i - 1 : b[j] = a[j]
  BY <1>1 DEF Before
<1>5. Before(b, c) <=> \/ l < n
                       \/ l = n /\ \E i \in 1 .. l : b[i] < c[i] /\ \A j \in 1 .. i - 1 : b[j] = c[j]
  BY <1>1 DEF Before
<1>6. Before(a, c) <=> \/ k < n
                       \/ k = n /\ \E i \in 1 .. k : a[i] < c[i] /\ \A j \in 1 .. i - 1 : a[j] = c[j]
  BY <1>1 DEF Before
<1>7. ~Before(a, a)
  BY <1>1, <1>2 DEF Before
<1>8. ASSUME a # b PROVE Before(a, b) \/ Before(b, a)
  <2>1. CASE k # l
    BY <1>3, <1>4, <2>1
  <2>2. CASE k = l
    <3> DEFINE D == {i \in 1 .. k : a[i] # b[i]}
    <3>1. D \in SUBSET Nat /\ D # {}
      <4>1. SUFFICES ASSUME \A i \in 1 .. k : a[i] = b[i] PROVE FALSE
        OBVIOUS
      <4>2. a = b
        BY <1>1, <2>2, <4>1, SeqEqual
      <4>. QED BY <1>8, <4>2
    <3>2. PICK m : m = Min(D)
      OBVIOUS
    <3>3. m \in D /\ \A i \in D : m <= i
      <4> HIDE DEF D
      <4>. QED BY <3>1, <3>2, MinProperties
    <3>4. m \in 1 .. k /\ a[m] # b[m] /\ \A j \in 1 .. m - 1 : a[j] = b[j]
      BY <3>3
    <3>5. a[m] < b[m] \/ b[m] < a[m]
      BY <1>2, <2>2, <3>4
    <3>. QED BY <1>3, <1>4, <2>2, <3>4, <3>5
  <2>. QED BY <2>1, <2>2
<1>9. ASSUME Before(a, b), Before(b, c) PROVE Before(a, c)
  <2>1. CASE k < l \/ l < n
    <3>1. k <= l /\ l <= n
      BY <1>3, <1>5, <1>9
    <3>2. k < n
      BY <2>1, <3>1
    <3>. QED BY <1>6, <3>2
  <2>2. CASE ~(k < l \/ l < n)
    <3>1. PICK i \in 1 .. k : k = l /\ a[i] < b[i] /\ \A j \in 1 .. i - 1 : a[j] = b[j]
      BY <1>3, <1>9, <2>2
    <3>2. PICK h \in 1 .. l : l = n /\ b[h] < c[h] /\ \A j \in 1 .. h - 1 : b[j] = c[j]
      BY <1>5, <1>9, <2>2
    <3>3. CASE i < h
      <4>1. i \in 1 .. h - 1
        BY <3>3
      <4>2. a[i] < c[i]
        BY <3>1, <3>2, <4>1
      <4>3. \A j \in 1 .. i - 1 : a[j] = c[j]
        <5>1. \A j \in 1 .. i - 1 : j \in 1 .. h - 1
          BY <3>3
        <5>. QED BY <3>1, <3>2, <5>1
      <4>. QED BY <1>6, <3>1, <3>2, <4>2, <4>3
    <3>4. CASE i = h
      <4>1. i \in 1 .. k /\ i \in 1 .. l /\ i \in 1 .. n
        BY <3>1, <3>2
      <4>2. a[i] \in Nat /\ b[i] \in Nat /\ c[i] \in Nat
        BY <1>2, <4>1
      <4>3. a[i] < c[i]
        BY <3>1, <3>2, <3>4, <4>2
      <4>4. \A j \in 1 .. i - 1 : a[j] = c[j]
        BY <3>1, <3>2, <3>4
      <4>. QED BY <1>6, <3>1, <3>2, <4>3, <4>4
    <3>5. CASE h < i
      <4>1. h \in 1 .. i - 1 /\ h \in 1 .. k
        BY <3>1, <3>5
      <4>2. a[h] < c[h]
        BY <3>1, <3>2, <4>1
      <4>3. \A j \in 1 .. h - 1 : a[j] = c[j]
        <5>1. \A j \in 1 .. h - 1 : j \in 1 .. i - 1
          BY <3>5
        <5>. QED BY <3>1, <3>2, <5>1
      <4>. QED BY <1>6, <3>1, <3>2, <4>1, <4>2, <4>3
    <3>. QED BY <3>3, <3>4, <3>5
  <2>. QED BY <2>1, <2>2
<1>. QED BY <1>7, <1>8, <1>9
-----------------------------------------------------------------------------
(* The probes of a sequence of start transitions.                           *)

\* A sequence of n transitions over the patterns.
StartsOK(ts, n) == DOMAIN ts = 1 .. n /\ Len(ts) = n /\ \A i \in 1 .. n : ts[i].pattern \in Patterns

\* Every literal of an addressed transition is that of a probe with its bit.
ProbesOK(ts, n, probes, m) ==
  /\ DOMAIN probes = 1 .. m /\ \A k \in 1 .. m : Probe(probes[k])
  /\ \A i \in 1 .. n : Addressed(ts, i) => \A a \in Required(ts[i].pattern) :
       \E k \in 1 .. m : probes[k].lit = a /\ i \in probes[k].mask

\* Probes lists the literals of the addressed transitions, each with its transitions.
LEMMA ProbesAll ==
  ASSUME NEW n \in Nat, NEW ts, StartsOK(ts, n)
  PROVE  \E m \in Nat : ProbesOK(ts, n, Probes(ts), m)
<1> DEFINE filtered == {i \in DOMAIN ts : Addressed(ts, i)}
           lits     == UNION {Required(ts[i].pattern) : i \in filtered}
           below    == [a \in lits |-> {b \in lits : Before(b, a)}]
           sorted   == Ranked(lits, below)
           probes   == [k \in DOMAIN sorted |->
                         [lit |-> sorted[k],
                          mask |-> {i \in filtered : sorted[k] \in Required(ts[i].pattern)}]]
<1>1. Probes(ts) = probes
  BY DEF Probes, Sorted
<1>2. /\ DOMAIN ts = 1 .. n /\ \A i \in 1 .. n : ts[i].pattern \in Patterns
      /\ filtered \subseteq 1 .. n
  BY DEF StartsOK
<1>3. \A p \in Patterns : Required(p) \subseteq Seq(Bytes) \ {<<>>} /\ IsFiniteSet(Required(p))
  BY LiteralAssumption
<1>4. IsFiniteSet(lits)
  <2>1. IsFiniteSet(filtered)
    <3>1. IsFiniteSet(1 .. n)
      BY FS_Interval
    <3> HIDE DEF filtered
    <3>. QED BY <1>2, <3>1, FS_Subset
  <2> DEFINE sets == {Required(ts[i].pattern) : i \in filtered}
  <2>2. IsFiniteSet(sets)
    <3> HIDE DEF filtered
    <3> DEFINE f == [i \in filtered |-> Required(ts[i].pattern)]
    <3>1. f \in Surjection(filtered, sets)
      BY DEF Surjection
    <3> HIDE DEF f, sets
    <3>. QED BY <2>1, <3>1, FS_Surjection
  <2>3. \A T \in sets : IsFiniteSet(T)
    BY <1>2, <1>3
  <2> HIDE DEF sets, filtered
  <2>4. IsFiniteSet(UNION sets)
    BY <2>2, <2>3, FS_UNION
  <2>. QED BY <2>4 DEF sets
<1>5. \A a \in lits : a \in Seq(Bytes) /\ a # <<>>
  BY <1>2, <1>3
<1> HIDE DEF lits
<1>6. /\ \A x \in lits : below[x] \in SUBSET lits /\ x \notin below[x]
      /\ \A x, y \in lits : x # y => x \in below[y] \/ y \in below[x]
      /\ \A x, y \in lits : x \in below[y] => below[x] \subseteq below[y]
  <2>1. \A x, y, z \in lits :
          /\ ~Before(x, x) /\ (x # y => Before(x, y) \/ Before(y, x))
          /\ Before(x, y) /\ Before(y, z) => Before(x, z)
    BY <1>5, BeforeOrder
  <2>. QED BY <2>1
<1> HIDE DEF below
<1>7. PICK m \in Nat : m = Cardinality(lits)
  BY <1>4, FS_CardinalityType
<1>8. /\ DOMAIN sorted = 1 .. m
      /\ \A k \in 1 .. m : sorted[k] \in lits
      /\ \A x \in lits : \E k \in 1 .. m : sorted[k] = x
  BY <1>4, <1>6, <1>7, RankedIs
<1> HIDE DEF sorted
<1>9. DOMAIN probes = 1 .. m /\ \A k \in 1 .. m : Probe(probes[k])
  BY <1>5, <1>8 DEF Probe
<1>10. ASSUME NEW i \in 1 .. n, Addressed(ts, i), NEW a \in Required(ts[i].pattern)
       PROVE  \E k \in 1 .. m : probes[k].lit = a /\ i \in probes[k].mask
  <2>1. i \in filtered /\ a \in lits
    BY <1>2, <1>10 DEF lits
  <2>2. PICK k \in 1 .. m : sorted[k] = a
    BY <1>8, <2>1
  <2> HIDE DEF filtered
  <2>3. probes[k].lit = a /\ i \in probes[k].mask
    BY <1>8, <2>1, <2>2
  <2>. QED BY <2>3
<1> HIDE DEF probes
<1>11. ProbesOK(ts, n, probes, m)
  BY <1>9, <1>10 DEF ProbesOK
<1>. QED BY <1>1, <1>11
-----------------------------------------------------------------------------
(* Which probes are kept.                                                   *)

\* The fold of the probes into the kept ones.
KeepIn(none, kept, probe) == Keep(kept, probe)
KeepClimb == INSTANCE Ladder WITH Op <- KeepIn

\* What is kept of q, from base.
KeepAll(base, q) == FoldLeft(Keep, base, q)

\* The probes are considered one after the other.
KeepSteps(t, base, n, q) ==
  /\ t[0] = base /\ t[n] = KeepAll(base, q)
  /\ \A i \in 1 .. n : t[i] = Keep(t[i - 1], q[i])

\* What is kept comes about so.
LEMMA KeepFold ==
  ASSUME NEW n \in Nat, NEW q, DOMAIN q = 1 .. n, NEW base
  PROVE  \E t : KeepSteps(t, base, n, q)
<1>1. KeepClimb!Folded(0, base, q) = KeepAll(base, q)
  BY DEF KeepAll, KeepIn, KeepClimb!Folded, KeepClimb!FoldLeft, KeepClimb!MapThenFoldSet,
         KeepClimb!Max, FoldLeft, MapThenFoldSet, Max
<1>2. PICK t : KeepClimb!Climbs(t, 0, base, n, q) /\ t[n] = KeepClimb!Folded(0, base, q)
  BY KeepClimb!FoldClimbs
<1>. QED BY <1>1, <1>2 DEF KeepClimb!Climbs, KeepIn, KeepSteps

\* A kept literal is a probe with a parent.
Kept(x) == x = [lit |-> x.lit, mask |-> x.mask, parent |-> x.parent] /\ Probe(x)

\* The parent of a literal comes before it, is one of those the hits bitmap has a bit
\* for, has no parent itself, and occurs in it.
Parented(kept, i) ==
  \/ kept[i].parent = 0
  \/ /\ kept[i].parent \in 1 .. i - 1 /\ kept[i].parent <= WordBits
     /\ kept[kept[i].parent].parent = 0
     /\ Occurs(kept[kept[i].parent].lit, kept[i].lit)

\* The first k probes are covered by l kept literals.
KeptOK(probes, k, kept, l) ==
  /\ DOMAIN kept = 1 .. l /\ Len(kept) = l /\ kept \in Seq({kept[i] : i \in 1 .. l})
  /\ \A i \in 1 .. l : Kept(kept[i]) /\ Parented(kept, i)
  /\ \A j \in 1 .. k : \E i \in 1 .. l : Folds(probes[j], kept[i])

\* The parent that is chosen.
LEMMA ParentOK ==
  ASSUME NEW probes, NEW k, NEW kept, NEW l \in Nat, KeptOK(probes, k, kept, l),
         NEW probe, Probe(probe), NEW p, p = ParentOf(probe, kept)
  PROVE  \/ p = 0
         \/ p \in 1 .. l /\ p <= WordBits /\ kept[p].parent = 0 /\ Occurs(kept[p].lit, probe.lit)
<1> DEFINE stems == {i \in DOMAIN kept : i <= WordBits /\ Occurs(kept[i].lit, probe.lit)}
<1>1. DOMAIN kept = 1 .. l /\ \A i \in 1 .. l : Kept(kept[i]) /\ Parented(kept, i)
  BY DEF KeptOK
<1>2. stems \in SUBSET Nat
  BY <1>1
<1>3. p = IF stems = {} THEN 0 ELSE Min(stems)
  BY DEF ParentOf
<1>4. CASE stems = {}
  BY <1>3, <1>4
<1>5. CASE stems # {}
  <2>1. p \in stems /\ \A x \in stems : p <= x
    <3> HIDE DEF stems
    <3>1. p = Min(stems)
      BY <1>3, <1>5
    <3>. QED BY <1>2, <1>5, <3>1, MinProperties
  <2>2. p \in 1 .. l /\ p <= WordBits /\ Occurs(kept[p].lit, probe.lit)
    BY <1>1, <2>1
  <2>3. ASSUME kept[p].parent # 0 PROVE FALSE
    <3>1. PICK q : q = kept[p].parent
      OBVIOUS
    <3>2. q \in 1 .. p - 1 /\ q <= WordBits /\ Occurs(kept[q].lit, kept[p].lit)
      BY <1>1, <2>2, <2>3, <3>1 DEF Parented
    <3>3. q \in 1 .. l /\ ~(p <= q)
      BY <2>2, <3>2
    <3>4. kept[q].lit \in Seq(Bytes) /\ kept[p].lit \in Seq(Bytes) /\ probe.lit \in Seq(Bytes)
      BY <1>1, <2>2, <3>3 DEF Kept, Probe
    <3>5. Occurs(kept[q].lit, probe.lit)
      BY <2>2, <3>2, <3>4, OccursTrans
    <3>6. q \in stems
      BY <1>1, <3>2, <3>3, <3>5
    <3>. QED BY <2>1, <3>3, <3>6
  <2>. QED BY <2>2, <2>3
<1>. QED BY <1>4, <1>5

\* One more probe.
LEMMA KeepStep ==
  ASSUME NEW m \in Nat, NEW probes, NEW k \in Nat, k + 1 <= m,
         \A i \in 1 .. m : Probe(probes[i]),
         NEW kept, NEW l \in Nat, KeptOK(probes, k, kept, l)
  PROVE  \E n \in Nat : KeptOK(probes, k + 1, Keep(kept, probes[k + 1]), n)
<1>1. PICK probe : probe = probes[k + 1]
  OBVIOUS
<1>2. Probe(probe)
  BY <1>1
<1>3. /\ DOMAIN kept = 1 .. l /\ Len(kept) = l /\ kept \in Seq({kept[i] : i \in 1 .. l})
      /\ \A i \in 1 .. l : Kept(kept[i]) /\ Parented(kept, i)
      /\ \A j \in 1 .. k : \E i \in 1 .. l : Folds(probes[j], kept[i])
  BY DEF KeptOK
<1>4. \A j \in 1 .. (k + 1) : j \in 1 .. k \/ j = k + 1
  OBVIOUS
<1>5. CASE \E i \in DOMAIN kept : Folds(probe, kept[i])
  <2>1. Keep(kept, probe) = kept
    BY <1>5 DEF Keep
  <2>2. \A j \in 1 .. (k + 1) : \E i \in 1 .. l : Folds(probes[j], kept[i])
    BY <1>1, <1>3, <1>4, <1>5
  <2>3. KeptOK(probes, k + 1, kept, l)
    BY <1>3, <2>2 DEF KeptOK
  <2>. QED BY <1>1, <2>1, <2>3
<1>6. CASE ~\E i \in DOMAIN kept : Folds(probe, kept[i])
  <2>1. PICK p : p = ParentOf(probe, kept)
    OBVIOUS
  <2>2. PICK x : x = [lit |-> probe.lit, mask |-> probe.mask, parent |-> p]
    OBVIOUS
  <2>3. PICK more : more = Append(kept, x)
    OBVIOUS
  <2>4. Keep(kept, probe) = more
    BY <1>6, <2>1, <2>2, <2>3 DEF Keep
  <2> DEFINE S == {kept[i] : i \in 1 .. l} \union {x}
  <2>5. kept \in Seq(S) /\ x \in S
    <3>1. \A i \in 1 .. l : kept[i] \in S
      OBVIOUS
    <3> HIDE DEF S
    <3>2. kept \in [1 .. l -> {kept[i] : i \in 1 .. l}]
      BY <1>3, LenProperties
    <3>3. kept \in [1 .. l -> S]
      BY <3>1, <3>2
    <3>. QED BY <3>3 DEF S
  <2> HIDE DEF S
  <2>6. /\ more \in Seq(S) /\ Len(more) = l + 1
        /\ \A i \in 1 .. l : more[i] = kept[i]
        /\ more[l + 1] = x
    BY <1>3, <2>3, <2>5, AppendProperties
  <2>7. DOMAIN more = 1 .. (l + 1) /\ more \in Seq({more[i] : i \in 1 .. (l + 1)})
    <3>1. DOMAIN more = 1 .. (l + 1) /\ more \in [1 .. (l + 1) -> S]
      BY <2>6, LenProperties
    <3>2. PICK T : T = {more[i] : i \in 1 .. (l + 1)}
      OBVIOUS
    <3>3. PICK n \in Nat : n = l + 1
      OBVIOUS
    <3>4. more \in [1 .. n -> T]
      BY <3>1, <3>2, <3>3
    <3>5. more \in Seq(T)
      BY <3>4
    <3>. QED BY <3>1, <3>2, <3>5
  <2>8. ASSUME NEW i \in 1 .. (l + 1) PROVE Kept(more[i]) /\ Parented(more, i)
    <3>1. CASE i \in 1 .. l
      <4>1. more[i] = kept[i] /\ Kept(kept[i]) /\ Parented(kept, i)
        BY <1>3, <2>6, <3>1
      <4>2. CASE kept[i].parent = 0
        BY <4>1, <4>2 DEF Parented
      <4>3. CASE kept[i].parent # 0
        <5>1. PICK q : q = kept[i].parent
          OBVIOUS
        <5>2. q \in 1 .. i - 1 /\ q \in 1 .. l
          BY <3>1, <4>1, <4>3, <5>1 DEF Parented
        <5>3. more[q] = kept[q]
          BY <2>6, <5>2
        <5>. QED BY <4>1, <4>3, <5>1, <5>3 DEF Parented
      <4>. QED BY <4>2, <4>3
    <3>2. CASE i = l + 1
      <4>1. more[i] = x
        BY <2>6, <3>2
      <4>2. x.lit = probe.lit /\ x.mask = probe.mask /\ x.parent = p
        BY <2>2
      <4>3. Kept(x)
        BY <1>2, <2>2, <4>2 DEF Kept, Probe
      <4>4. \/ p = 0
            \/ p \in 1 .. l /\ p <= WordBits /\ kept[p].parent = 0 /\ Occurs(kept[p].lit, probe.lit)
        BY <1>2, <2>1, ParentOK
      <4>5. Parented(more, i)
        <5>1. CASE p = 0
          BY <4>1, <4>2, <5>1 DEF Parented
        <5>2. CASE p # 0
          <6>1. p \in 1 .. l /\ p <= WordBits /\ kept[p].parent = 0 /\ Occurs(kept[p].lit, probe.lit)
            BY <4>4, <5>2
          <6>2. more[p] = kept[p] /\ p \in 1 .. i - 1
            BY <2>6, <3>2, <6>1
          <6>. QED BY <4>1, <4>2, <6>1, <6>2 DEF Parented
        <5>. QED BY <5>1, <5>2
      <4>. QED BY <4>1, <4>3, <4>5
    <3>. QED BY <3>1, <3>2
  <2>9. ASSUME NEW j \in 1 .. (k + 1) PROVE \E i \in 1 .. (l + 1) : Folds(probes[j], more[i])
    <3>1. CASE j \in 1 .. k
      <4>1. PICK i \in 1 .. l : Folds(probes[j], kept[i])
        BY <1>3, <3>1
      <4>2. i \in 1 .. (l + 1) /\ more[i] = kept[i]
        BY <2>6
      <4>. QED BY <4>1, <4>2
    <3>2. CASE j = k + 1
      <4>1. l + 1 \in 1 .. (l + 1)
        OBVIOUS
      <4>2. Occurs(probe.lit, probe.lit)
        BY <1>2, OccursRefl DEF Probe
      <4>3. Folds(probe, x)
        BY <2>2, <4>2 DEF Folds
      <4>. QED BY <1>1, <2>6, <3>2, <4>1, <4>3
    <3>. QED BY <1>4, <3>1, <3>2
  <2>10. l + 1 \in Nat
    OBVIOUS
  <2>11. KeptOK(probes, k + 1, more, l + 1)
    BY <2>6, <2>7, <2>8, <2>9 DEF KeptOK
  <2>. QED BY <1>1, <2>4, <2>10, <2>11
<1>. QED BY <1>5, <1>6

\* The kept literals cover all probes.
LEMMA FoldCovers ==
  ASSUME NEW m \in Nat, NEW probes, DOMAIN probes = 1 .. m, \A i \in 1 .. m : Probe(probes[i])
  PROVE  \E l \in Nat : KeptOK(probes, m, Fold(probes), l)
<1>1. PICK t : KeepSteps(t, <<>>, m, probes)
  BY KeepFold
<1>2. /\ t[0] = <<>> /\ Fold(probes) = t[m]
      /\ \A i \in 1 .. m : t[i] = Keep(t[i - 1], probes[i])
  BY <1>1 DEF KeepSteps, KeepAll, Fold
<1> DEFINE N == {k \in Nat : k <= m => \E l \in Nat : KeptOK(probes, k, t[k], l)}
<1>3. 0 \in N
  <2>1. /\ DOMAIN <<>> = 1 .. 0 /\ Len(<<>>) = 0
        /\ \A i \in 1 .. 0 : FALSE
    BY EmptySeq
  <2>2. <<>> \in Seq({<<>>[i] : i \in 1 .. 0})
    BY EmptySeq
  <2>3. KeptOK(probes, 0, <<>>, 0)
    BY <2>1, <2>2 DEF KeptOK
  <2>. QED BY <1>2, <2>3
<1>4. ASSUME NEW k \in Nat, k \in N PROVE k + 1 \in N
  <2>1. SUFFICES ASSUME k + 1 <= m PROVE \E l \in Nat : KeptOK(probes, k + 1, t[k + 1], l)
    OBVIOUS
  <2>2. k + 1 \in 1 .. m /\ (k + 1) - 1 = k /\ k <= m
    BY <2>1
  <2>3. PICK l \in Nat : KeptOK(probes, k, t[k], l)
    BY <1>4, <2>2
  <2>4. PICK kept : kept = t[k]
    OBVIOUS
  <2>5. KeptOK(probes, k, kept, l)
    BY <2>3, <2>4
  <2>6. \E n \in Nat : KeptOK(probes, k + 1, Keep(kept, probes[k + 1]), n)
    BY <2>1, <2>5, KeepStep
  <2>7. t[k + 1] = Keep(kept, probes[k + 1])
    BY <1>2, <2>2, <2>4
  <2>. QED BY <2>6, <2>7
<1>5. m \in N
  <2> HIDE DEF N
  <2>. QED BY <1>3, <1>4, SetInduction
<1>. QED BY <1>2, <1>5
-----------------------------------------------------------------------------
(* Selecting from a sequence.                                               *)

\* How many of the first p elements of s are in S.
Rank(s, S, p) == Cardinality({i \in 1 .. p : s[i] \in S})

\* The rank goes up by one at an element that is selected.
LEMMA RankStep ==
  ASSUME NEW s, NEW S, NEW p \in Nat
  PROVE  /\ Rank(s, S, 0) = 0 /\ Rank(s, S, p) \in Nat /\ Rank(s, S, p) <= p
         /\ s[p + 1] \in S => Rank(s, S, p + 1) = Rank(s, S, p) + 1
         /\ s[p + 1] \notin S => Rank(s, S, p + 1) = Rank(s, S, p)
<1> DEFINE T(k) == {i \in 1 .. k : s[i] \in S}
<1>1. IsFiniteSet(1 .. p) /\ Cardinality(1 .. p) = p
  <2>1. 1 \in Int /\ p \in Int
    OBVIOUS
  <2>2. IsFiniteSet(1 .. p) /\ Cardinality(1 .. p) = IF 1 > p THEN 0 ELSE p - 1 + 1
    BY <2>1, FS_Interval
  <2>. QED BY <2>2
<1>2. IsFiniteSet(T(p)) /\ Cardinality(T(p)) \in Nat /\ Cardinality(T(p)) <= p
  <2>1. T(p) \subseteq 1 .. p
    OBVIOUS
  <2> HIDE DEF T
  <2>2. IsFiniteSet(T(p)) /\ Cardinality(T(p)) <= Cardinality(1 .. p)
    BY <1>1, <2>1, FS_Subset
  <2>. QED BY <1>1, <2>2, FS_CardinalityType
<1>3. T(0) = {} /\ Cardinality({}) = 0
  BY FS_EmptySet
<1>4. 1 .. (p + 1) = (1 .. p) \union {p + 1} /\ p + 1 \notin 1 .. p
  OBVIOUS
<1>5. Cardinality(T(p + 1)) = IF s[p + 1] \in S THEN Cardinality(T(p)) + 1 ELSE Cardinality(T(p))
  <2>1. CASE s[p + 1] \in S
    <3>1. T(p + 1) = T(p) \union {p + 1} /\ p + 1 \notin T(p)
      BY <1>4, <2>1
    <3> HIDE DEF T
    <3>2. Cardinality(T(p) \union {p + 1}) = Cardinality(T(p)) + 1
      BY <1>2, <3>1, FS_AddElement
    <3>. QED BY <2>1, <3>1, <3>2
  <2>2. CASE s[p + 1] \notin S
    <3>1. T(p + 1) = T(p)
      BY <1>4, <2>2
    <3> HIDE DEF T
    <3>. QED BY <2>2, <3>1
  <2>. QED BY <2>1, <2>2
<1> HIDE DEF T
<1>6. /\ Rank(s, S, 0) = Cardinality(T(0)) /\ Rank(s, S, p) = Cardinality(T(p))
      /\ Rank(s, S, p + 1) = Cardinality(T(p + 1))
  BY DEF Rank, T
<1>. QED BY <1>2, <1>3, <1>5, <1>6

\* u holds the elements of the first p of s that are in S, in their order.
SelectedTo(u, s, S, p) ==
  /\ u \in Seq(ToSet(s) \cap S) /\ Len(u) = Rank(s, S, p)
  /\ \A i \in 1 .. p : s[i] \in S => Rank(s, S, i) \in 1 .. Rank(s, S, p) /\ u[Rank(s, S, i)] = s[i]

\* The elements of s that are in S keep their order: each is where it ranks.
LEMMA SelectedRanks ==
  ASSUME NEW A, NEW s \in Seq(A), NEW S, NEW n \in Nat, n = Len(s)
  PROVE  SelectedTo(Selected(s, S), s, S, n)
<1>r. \A p \in Nat : /\ s[p + 1] \notin S => Rank(s, S, p + 1) = Rank(s, S, p)
                     /\ s[p + 1] \in S => Rank(s, S, p + 1) = Rank(s, S, p) + 1
  BY RankStep
<1> DEFINE T == ToSet(s) \cap S
           part(i) == IF s[i] \in S THEN <<s[i]>> ELSE <<>>
<1>1. PICK ss : ss = [i \in 1 .. n |-> part(i)]
  OBVIOUS
<1>2. DOMAIN s = 1 .. n
  BY LenProperties
<1>3. \A i \in 1 .. n : part(i) \in Seq(T)
  <2>1. \A i \in 1 .. n : s[i] \in ToSet(s)
    BY <1>2 DEF ToSet
  <2>2. <<>> \in Seq(T)
    BY EmptySeq
  <2>3. \A i \in 1 .. n : s[i] \in S => s[i] \in T
    BY <2>1
  <2>4. \A x \in T : <<x>> \in Seq(T)
    OBVIOUS
  <2> HIDE DEF T
  <2>. QED BY <2>2, <2>3, <2>4
<1> HIDE DEF T
<1>4. ss \in Seq(Seq(T)) /\ Len(ss) = n
  <2>1. ss \in [1 .. n -> Seq(T)]
    BY <1>1, <1>3
  <2>2. ss \in Seq(Seq(T)) /\ DOMAIN ss = 1 .. n
    BY <2>1
  <2>. QED BY <2>2, LenProperties
<1>5. Selected(s, S) = FlattenSeq(ss)
  BY <1>1, <1>2 DEF Selected
<1>6. PICK t : FlattenClimbs(t, T, ss, n)
  BY <1>4, FlattenSteps
<1>7. /\ t \in [0 .. n -> Seq(T)] /\ t[0] = <<>> /\ FlattenSeq(ss) = t[n]
      /\ \A i \in 1 .. n : t[i] = t[i - 1] \o ss[i]
  BY <1>6 DEF FlattenClimbs, Concats
<1> DEFINE N == {p \in Nat : p <= n => SelectedTo(t[p], s, S, p)}
<1>8. 0 \in N
  <2>1. <<>> \in Seq(ToSet(s) \cap S) /\ Len(<<>>) = 0 /\ Rank(s, S, 0) = 0
    BY EmptySeq, RankStep
  <2>2. SelectedTo(<<>>, s, S, 0)
    BY <2>1 DEF SelectedTo
  <2>. QED BY <1>7, <2>2
<1>9. ASSUME NEW p \in Nat, p \in N PROVE p + 1 \in N
  <2>1. SUFFICES ASSUME p + 1 <= n PROVE SelectedTo(t[p + 1], s, S, p + 1)
    OBVIOUS
  <2>2. p + 1 \in 1 .. n /\ (p + 1) - 1 = p /\ p \in 0 .. n /\ p <= n
    BY <2>1
  <2>3. PICK u \in Seq(T) : u = t[p]
    BY <1>7, <2>2
  <2>4. SelectedTo(u, s, S, p)
    BY <1>9, <2>2, <2>3
  <2>5. PICK k \in Nat : k = Rank(s, S, p) /\ k = Len(u)
    BY <2>4, RankStep DEF SelectedTo
  <2>6. \A i \in 1 .. p : s[i] \in S => Rank(s, S, i) \in 1 .. k /\ u[Rank(s, S, i)] = s[i]
    BY <2>4, <2>5 DEF SelectedTo
  <2>7. \A i \in 1 .. (p + 1) : i \in 1 .. p \/ i = p + 1
    OBVIOUS
  <2>8. CASE s[p + 1] \in S
    <3>1. PICK x \in T : x = s[p + 1]
      BY <1>2, <2>2, <2>8 DEF T, ToSet
    <3>2. ss[p + 1] = <<x>>
      BY <1>1, <2>2, <2>8, <3>1
    <3>3. t[p + 1] = u \o <<x>>
      BY <1>7, <2>2, <2>3, <3>2
    <3>4. PICK v : v = Append(u, x)
      OBVIOUS
    <3>5. t[p + 1] = v
      BY <3>3, <3>4, AppendIsConcat
    <3>6. /\ v \in Seq(T) /\ Len(v) = k + 1
          /\ \A i \in 1 .. k : v[i] = u[i]
          /\ v[k + 1] = x
      BY <2>5, <3>4, AppendProperties
    <3>7. Rank(s, S, p + 1) = k + 1
      BY <1>r, <2>5, <2>8
    <3>8. ASSUME NEW i \in 1 .. (p + 1), s[i] \in S
          PROVE  Rank(s, S, i) \in 1 .. (k + 1) /\ v[Rank(s, S, i)] = s[i]
      <4>1. CASE i \in 1 .. p
        <5>1. PICK r \in 1 .. k : r = Rank(s, S, i) /\ u[r] = s[i]
          BY <2>6, <3>8, <4>1
        <5>. QED BY <3>6, <5>1
      <4>2. CASE i = p + 1
        BY <3>1, <3>6, <3>7, <4>2
      <4>. QED BY <2>7, <4>1, <4>2
    <3>. QED BY <3>5, <3>6, <3>7, <3>8 DEF SelectedTo, T
  <2>9. CASE s[p + 1] \notin S
    <3>1. ss[p + 1] = <<>>
      BY <1>1, <2>2, <2>9
    <3>2. t[p + 1] = u
      BY <1>7, <2>2, <2>3, <3>1, ConcatEmptySeq
    <3>3. Rank(s, S, p + 1) = k
      BY <1>r, <2>5, <2>9
    <3>4. \A i \in 1 .. (p + 1) : s[i] \in S => Rank(s, S, i) \in 1 .. k /\ u[Rank(s, S, i)] = s[i]
      BY <2>6, <2>7, <2>9
    <3>. QED BY <2>5, <3>2, <3>3, <3>4 DEF SelectedTo, T
  <2>. QED BY <2>8, <2>9
<1>10. n \in N
  <2> HIDE DEF N
  <2>. QED BY <1>8, <1>9, SetInduction
<1>. QED BY <1>5, <1>7, <1>10
-----------------------------------------------------------------------------
\* The r roots come first, and every literal after them has its stem among them.
PartitionOK(kept, l, P, r, n) ==
  /\ DOMAIN P = 1 .. n /\ Len(P) = n /\ r <= n
  /\ \A i \in 1 .. n : Probe(P[i])
  /\ \A i \in 1 .. r : P[i].parent = 0
  /\ \A i \in (r + 1) .. n :
       /\ P[i].parent \in 1 .. r /\ P[i].parent <= WordBits
       /\ Occurs(P[P[i].parent].lit, P[i].lit)
  /\ \A j \in 1 .. l : \E i \in 1 .. n : P[i].lit = kept[j].lit /\ P[i].mask = kept[j].mask

\* The reordered literals, with their parents renumbered.
LEMMA PartitionedOK ==
  ASSUME NEW probes, NEW k, NEW kept, NEW l \in Nat, KeptOK(probes, k, kept, l)
  PROVE  \E r, n \in Nat : PartitionOK(kept, l, Partitioned(kept), r, n)
<1> DEFINE R == Roots(kept)
           C == ToSet(kept) \ Roots(kept)
           NewIndex(old) == Cardinality({i \in 1 .. old : kept[i].parent = 0})
<1>1. /\ DOMAIN kept = 1 .. l /\ Len(kept) = l /\ kept \in Seq({kept[i] : i \in 1 .. l})
      /\ \A i \in 1 .. l : Kept(kept[i]) /\ Parented(kept, i)
  BY DEF KeptOK
<1>2. /\ \A i \in 1 .. l : kept[i] \in R <=> kept[i].parent = 0
      /\ \A i \in 1 .. l : kept[i] \in R \/ kept[i] \in C
      /\ \A x \in ToSet(kept) \cap R : x.parent = 0 /\ \E i \in 1 .. l : x = kept[i]
      /\ \A x \in ToSet(kept) \cap C : x.parent # 0 /\ \E i \in 1 .. l : x = kept[i]
  BY <1>1 DEF Roots, ToSet
<1> HIDE DEF R, C
<1>3. \A i \in 1 .. l : NewIndex(i) = Rank(kept, R, i)
  <2>1. ASSUME NEW i \in 1 .. l
        PROVE  {h \in 1 .. i : kept[h].parent = 0} = {h \in 1 .. i : kept[h] \in R}
    <3>1. \A h \in 1 .. i : h \in 1 .. l
      OBVIOUS
    <3>. QED BY <1>2, <3>1
  <2>. QED BY <2>1 DEF Rank
<1>4. PICK u, v : u = Selected(kept, R) /\ v = Selected(kept, C)
  OBVIOUS
<1>5. SelectedTo(u, kept, R, l) /\ SelectedTo(v, kept, C, l)
  BY <1>1, <1>4, SelectedRanks
<1>6. PICK r \in Nat, c \in Nat : r = Rank(kept, R, l) /\ c = Rank(kept, C, l)
  BY RankStep
<1>7. /\ u \in Seq(ToSet(kept) \cap R) /\ Len(u) = r
      /\ v \in Seq(ToSet(kept) \cap C) /\ Len(v) = c
      /\ \A i \in 1 .. l : kept[i] \in R => Rank(kept, R, i) \in 1 .. r /\ u[Rank(kept, R, i)] = kept[i]
      /\ \A i \in 1 .. l : kept[i] \in C => Rank(kept, C, i) \in 1 .. c /\ v[Rank(kept, C, i)] = kept[i]
  BY <1>5, <1>6 DEF SelectedTo
<1>8. /\ DOMAIN u = 1 .. r /\ \A i \in 1 .. r : u[i] \in ToSet(kept) \cap R
      /\ DOMAIN v = 1 .. c /\ \A i \in 1 .. c : v[i] \in ToSet(kept) \cap C
  BY <1>7, LenProperties, ElementOfSeq
<1>9. PICK w : w = [i \in 1 .. c |-> [v[i] EXCEPT !.parent = NewIndex(@)]]
  OBVIOUS
<1>10. PICK P : P = u \o w
  OBVIOUS
<1>11. Partitioned(kept) = P
  BY <1>4, <1>8, <1>9, <1>10 DEF Partitioned, R, C
<1>12. \A i \in 1 .. c : \E h \in 1 .. l : v[i] = kept[h] /\ kept[h].parent # 0
  BY <1>2, <1>8
<1>13. ASSUME NEW i \in 1 .. c, NEW h \in 1 .. l, v[i] = kept[h], kept[h].parent # 0
       PROVE  /\ w[i].lit = kept[h].lit /\ w[i].mask = kept[h].mask
              /\ w[i].parent = NewIndex(kept[h].parent)
  <2>1. PICK x : x = kept[h]
    OBVIOUS
  <2>2. x = [lit |-> x.lit, mask |-> x.mask, parent |-> x.parent]
    BY <1>1, <2>1 DEF Kept
  <2>3. w[i] = [x EXCEPT !.parent = NewIndex(@)]
    BY <1>9, <1>13, <2>1
  <2> HIDE DEF NewIndex
  <2>. QED BY <2>1, <2>2, <2>3
<1>14. /\ Len(u) = r /\ Len(w) = c /\ DOMAIN w = 1 .. c
       /\ \E A : u \in Seq(A) /\ w \in Seq(A)
  <2>1. DOMAIN w = 1 .. c /\ w \in [1 .. c -> {w[i] : i \in 1 .. c}]
    BY <1>9
  <2>2. w \in Seq({w[i] : i \in 1 .. c}) /\ Len(w) = c
    BY <2>1, LenProperties
  <2>3. PICK A : A = {w[i] : i \in 1 .. c} \union {u[i] : i \in 1 .. r}
    OBVIOUS
  <2>4. w \in [1 .. c -> A] /\ u \in [1 .. r -> A]
    <3>1. u \in [1 .. r -> {u[i] : i \in 1 .. r}]
      BY <1>7, LenProperties
    <3>. QED BY <2>1, <2>3, <3>1
  <2>5. w \in Seq(A) /\ u \in Seq(A)
    BY <2>4
  <2>. QED BY <1>7, <2>1, <2>2, <2>5
<1>15. PICK n \in Nat : n = r + c
  OBVIOUS
<1>16. /\ DOMAIN P = 1 .. n /\ Len(P) = n
       /\ \A i \in 1 .. n : P[i] = IF i <= r THEN u[i] ELSE w[i - r]
  <2>1. PICK A : u \in Seq(A) /\ w \in Seq(A)
    BY <1>14
  <2>2. /\ P \in Seq(A) /\ Len(P) = r + c
        /\ \A i \in 1 .. r + c : P[i] = IF i <= r THEN u[i] ELSE w[i - r]
    BY <1>10, <1>14, <2>1, ConcatProperties
  <2>. QED BY <1>15, <2>2, LenProperties
<1>17. /\ \A i \in 1 .. r : P[i] = u[i]
       /\ \A i \in (r + 1) .. n : i - r \in 1 .. c /\ P[i] = w[i - r]
       /\ \A i \in 1 .. c : r + i \in 1 .. n /\ P[r + i] = w[i]
  <2>1. \A i \in 1 .. r : i \in 1 .. n
    BY <1>15
  <2>2. \A i \in (r + 1) .. n : i \in 1 .. n /\ i - r \in 1 .. c /\ ~(i <= r)
    BY <1>15
  <2>3. \A i \in 1 .. c : r + i \in 1 .. n /\ ~(r + i <= r) /\ (r + i) - r = i
    BY <1>15
  <2>4. \A i \in 1 .. r : P[i] = u[i]
    BY <1>16, <2>1
  <2>5. \A i \in (r + 1) .. n : P[i] = w[i - r]
    BY <1>16, <2>2
  <2>6. ASSUME NEW i \in 1 .. c PROVE P[r + i] = w[i]
    <3>1. PICK k1 \in 1 .. n : k1 = r + i /\ ~(k1 <= r) /\ k1 - r = i
      BY <2>3
    <3>2. P[k1] = w[k1 - r]
      BY <1>16, <3>1
    <3>. QED BY <3>1, <3>2
  <2>. QED BY <2>2, <2>3, <2>4, <2>5, <2>6
<1>18. ASSUME NEW i \in 1 .. r PROVE Probe(P[i]) /\ P[i].parent = 0
  <2>1. PICK h \in 1 .. l : u[i] = kept[h] /\ u[i].parent = 0
    BY <1>2, <1>8
  <2>. QED BY <1>1, <1>17, <2>1 DEF Kept
<1>19. ASSUME NEW i \in (r + 1) .. n
       PROVE  /\ Probe(P[i]) /\ P[i].parent \in 1 .. r /\ P[i].parent <= WordBits
              /\ Occurs(P[P[i].parent].lit, P[i].lit)
  <2>1. PICK j \in 1 .. c : P[i] = w[j]
    BY <1>17
  <2>2. PICK h \in 1 .. l : v[j] = kept[h] /\ kept[h].parent # 0
    BY <1>12
  <2>3. w[j].lit = kept[h].lit /\ w[j].parent = NewIndex(kept[h].parent)
    BY <1>13, <2>2
  <2>4. PICK q : q = kept[h].parent
    OBVIOUS
  <2>5. /\ q \in 1 .. h - 1 /\ q <= WordBits /\ kept[q].parent = 0
        /\ Occurs(kept[q].lit, kept[h].lit)
    BY <1>1, <2>2, <2>4 DEF Parented
  <2>6. q \in 1 .. l /\ q \in Nat
    BY <2>5
  <2>7. PICK y \in Nat : y = Rank(kept, R, q) /\ y <= q
    BY <2>6, RankStep
  <2>8. y \in 1 .. r /\ u[y] = kept[q]
    BY <1>2, <1>7, <2>5, <2>6, <2>7
  <2>9. w[j].parent = y
    BY <1>3, <2>3, <2>4, <2>6, <2>7
  <2>10. P[y] = kept[q]
    BY <1>17, <2>8
  <2>11. Probe(P[i])
    BY <1>1, <2>1, <2>3 DEF Kept, Probe
  <2>12. y <= WordBits
    BY <2>5, <2>6, <2>7, LiteralAssumption
  <2>. QED BY <2>1, <2>3, <2>5, <2>8, <2>9, <2>10, <2>11, <2>12
<1>20. ASSUME NEW j \in 1 .. l
       PROVE  \E i \in 1 .. n : P[i].lit = kept[j].lit /\ P[i].mask = kept[j].mask
  <2>1. CASE kept[j] \in R
    <3>1. PICK y \in 1 .. r : u[y] = kept[j]
      BY <1>7, <2>1
    <3>2. y \in 1 .. n /\ P[y] = kept[j]
      BY <1>15, <1>17, <3>1
    <3>. QED BY <3>2
  <2>2. CASE kept[j] \in C
    <3>1. PICK y \in 1 .. c : v[y] = kept[j]
      BY <1>7, <2>2
    <3>2. kept[j].parent # 0
      BY <1>2, <1>8, <3>1
    <3>3. r + y \in 1 .. n /\ P[r + y] = w[y]
      BY <1>17
    <3>4. w[y].lit = kept[j].lit /\ w[y].mask = kept[j].mask
      BY <1>13, <3>1, <3>2
    <3>. QED BY <3>3, <3>4
  <2>. QED BY <1>2, <2>1, <2>2
<1>21. \A i \in 1 .. n : i \in 1 .. r \/ i \in (r + 1) .. n
  OBVIOUS
<1>22. r <= n
  BY <1>15
<1>23. PartitionOK(kept, l, P, r, n)
  BY <1>16, <1>18, <1>19, <1>20, <1>21, <1>22 DEF PartitionOK
<1>. QED BY <1>11, <1>23
-----------------------------------------------------------------------------
(* The scan of a line.                                                      *)

\* The prefilter of a sequence of transitions, once startPrefilter has found its
\* probes, folded them and put the roots first.
FilterOK(pf, ts, n, r, c) ==
  /\ PartitionOK(Fold(Probes(ts)), Len(Fold(Probes(ts))), pf.kept, r, c)
  /\ pf.roots = r /\ pf.always = Always(ts) /\ pf.wide = (n > WordBits)
  /\ pf.ac # NoAutomaton => pf.ac = BuildAhoCorasick(pf.kept)

\* Every literal of an addressed transition contains a kept one that has its bit.
Covers(pf, ts, n, c) ==
  \A i \in 1 .. n : Addressed(ts, i) => \A a \in Required(ts[i].pattern) :
    \E j \in 1 .. c : Occurs(pf.kept[j].lit, a) /\ i \in pf.kept[j].mask

\* The literals no line is spared are those of the kept probes.
LEMMA PrefilterOK ==
  ASSUME NEW sets, NEW ts, ts = StartTransitions(sets), NEW n \in Nat, StartsOK(ts, n),
         NEW pf, pf = StartPrefilter(sets)
  PROVE  \E r, c \in Nat : FilterOK(pf, ts, n, r, c) /\ Covers(pf, ts, n, c)
<1>1. PICK m \in Nat : ProbesOK(ts, n, Probes(ts), m)
  BY ProbesAll
<1>2. PICK probes : probes = Probes(ts)
  OBVIOUS
<1>3. /\ DOMAIN probes = 1 .. m /\ \A k \in 1 .. m : Probe(probes[k])
      /\ \A i \in 1 .. n : Addressed(ts, i) => \A a \in Required(ts[i].pattern) :
           \E k \in 1 .. m : probes[k].lit = a /\ i \in probes[k].mask
  BY <1>1, <1>2 DEF ProbesOK
<1>4. PICK l \in Nat : KeptOK(probes, m, Fold(probes), l)
  BY <1>3, FoldCovers
<1>5. PICK kept : kept = Fold(probes)
  OBVIOUS
<1>6. KeptOK(probes, m, kept, l)
  BY <1>4, <1>5
<1>7. PICK r \in Nat, c \in Nat : PartitionOK(kept, l, Partitioned(kept), r, c)
  BY <1>6, PartitionedOK
<1>8. PICK P : P = Partitioned(kept)
  OBVIOUS
<1>9. /\ DOMAIN P = 1 .. c /\ Len(P) = c /\ r <= c
      /\ \A i \in 1 .. c : Probe(P[i])
      /\ \A i \in 1 .. r : P[i].parent = 0
      /\ \A i \in (r + 1) .. c :
           /\ P[i].parent \in 1 .. r /\ P[i].parent <= WordBits
           /\ Occurs(P[P[i].parent].lit, P[i].lit)
      /\ \A j \in 1 .. l : \E i \in 1 .. c : P[i].lit = kept[j].lit /\ P[i].mask = kept[j].mask
  BY <1>7, <1>8 DEF PartitionOK
<1>10. Cardinality({i \in DOMAIN P : P[i].parent = 0}) = r
  <2>1. \A i \in 1 .. c : i \in 1 .. r \/ i \in (r + 1) .. c
    OBVIOUS
  <2>2. \A i \in 1 .. r : i \in 1 .. c
    BY <1>9
  <2>3. {i \in DOMAIN P : P[i].parent = 0} = 1 .. r
    BY <1>9, <2>1, <2>2
  <2>4. 1 \in Int /\ r \in Int
    OBVIOUS
  <2>5. Cardinality(1 .. r) = IF 1 > r THEN 0 ELSE r - 1 + 1
    BY <2>4, FS_Interval
  <2>6. Cardinality(1 .. r) = r
    BY <2>5
  <2>. QED BY <2>3, <2>6
<1>11. Len(kept) = l /\ \A j \in 1 .. m : \E i \in 1 .. l : Folds(probes[j], kept[i])
  BY <1>6 DEF KeptOK
<1>12. /\ pf.kept = P /\ pf.roots = r /\ pf.always = Always(ts) /\ pf.wide = (n > WordBits)
       /\ pf.ac # NoAutomaton => pf.ac = BuildAhoCorasick(P)
  <2>1. Len(ts) = n
    BY DEF StartsOK
  <2>2. PICK S : S = {i \in DOMAIN P : P[i].parent = 0}
    OBVIOUS
  <2>3. pf = [kept |-> P, roots |-> Cardinality(S), always |-> Always(ts), wide |-> Len(ts) > WordBits,
              unfiltered |-> {ts[i].pattern : i \in {j \in DOMAIN ts : ~Addressed(ts, j)}},
              ac |-> IF Cardinality(S) >= AcMinLiterals \/ Len(P) >= 2 * AcMinLiterals
                     THEN BuildAhoCorasick(P) ELSE NoAutomaton]
    BY <1>2, <1>5, <1>8, <2>2 DEF StartPrefilter
  <2>4. Cardinality(S) = r
    BY <1>10, <2>2
  <2>. QED BY <2>1, <2>3, <2>4
<1>13. FilterOK(pf, ts, n, r, c)
  BY <1>2, <1>5, <1>7, <1>8, <1>11, <1>12 DEF FilterOK
<1>14. ASSUME NEW i \in 1 .. n, Addressed(ts, i), NEW a \in Required(ts[i].pattern)
       PROVE  \E j \in 1 .. c : Occurs(pf.kept[j].lit, a) /\ i \in pf.kept[j].mask
  <2>1. PICK k \in 1 .. m : probes[k].lit = a /\ i \in probes[k].mask
    BY <1>3, <1>14
  <2>2. PICK h \in 1 .. l : Folds(probes[k], kept[h])
    BY <1>11
  <2>3. Occurs(kept[h].lit, a) /\ i \in kept[h].mask
    BY <2>1, <2>2 DEF Folds
  <2>4. PICK j \in 1 .. c : P[j].lit = kept[h].lit /\ P[j].mask = kept[h].mask
    BY <1>9
  <2>. QED BY <1>12, <2>3, <2>4
<1>15. Covers(pf, ts, n, c)
  BY <1>14 DEF Covers
<1>. QED BY <1>13, <1>15

\* A scan finds exactly the masks of the kept literals the text contains.
LEMMA ScanFinds ==
  ASSUME NEW pf, NEW ts, NEW n \in Nat, NEW r \in Nat, NEW c \in Nat, FilterOK(pf, ts, n, r, c),
         NEW text \in Seq(Bytes)
  PROVE  Scan(pf, text) = pf.always \union
           Implied(pf, {i \in DOMAIN pf.kept : Occurs(pf.kept[i].lit, text)})
<1>1. PICK P : P = pf.kept
  OBVIOUS
<1>2. /\ DOMAIN P = 1 .. c /\ Len(P) = c /\ r <= c
      /\ \A i \in 1 .. c : Probe(P[i])
      /\ \A i \in (r + 1) .. c :
           /\ P[i].parent \in 1 .. r /\ P[i].parent <= WordBits
           /\ Occurs(P[P[i].parent].lit, P[i].lit)
  BY <1>1 DEF FilterOK, PartitionOK
<1>3. pf.roots = r /\ (pf.ac # NoAutomaton => pf.ac = BuildAhoCorasick(P))
  BY <1>1 DEF FilterOK
<1>4. PICK hits : hits = {i \in 1 .. c : Occurs(P[i].lit, text)}
  OBVIOUS
<1>5. CASE pf.ac = NoAutomaton
  <2>1. PICK roots : roots = {i \in 1 .. r : Occurs(P[i].lit, text)}
    OBVIOUS
  <2>2. PICK stems : stems = {i \in roots : i <= WordBits}
    OBVIOUS
  <2>3. PICK childs : childs = {i \in r + 1 .. c : P[i].parent \in stems /\ Occurs(P[i].lit, text)}
    OBVIOUS
  <2>4. LinearScan(pf, text) = Implied(pf, roots \union childs)
    BY <1>1, <1>2, <1>3, <2>1, <2>2, <2>3 DEF LinearScan
  <2>5. roots \union childs \subseteq hits
    <3>1. \A i \in 1 .. r : i \in 1 .. c
      BY <1>2
    <3>2. \A i \in (r + 1) .. c : i \in 1 .. c
      OBVIOUS
    <3>. QED BY <1>4, <2>1, <2>3, <3>1, <3>2
  <2>6. ASSUME NEW i \in hits PROVE i \in roots \union childs
    <3>1. i \in 1 .. c /\ Occurs(P[i].lit, text)
      BY <1>4
    <3>2. CASE i \in 1 .. r
      BY <2>1, <3>1, <3>2
    <3>3. CASE i \in (r + 1) .. c
      <4>1. PICK q \in 1 .. r : q = P[i].parent /\ q <= WordBits /\ Occurs(P[q].lit, P[i].lit)
        BY <1>2, <3>3
      <4>2. q \in 1 .. c
        BY <1>2
      <4>3. P[q].lit \in Seq(Bytes) /\ P[i].lit \in Seq(Bytes)
        BY <1>2, <3>1, <4>2 DEF Probe
      <4>4. Occurs(P[q].lit, text)
        BY <3>1, <4>1, <4>3, OccursTrans
      <4>5. q \in stems
        BY <2>1, <2>2, <4>1, <4>4
      <4>. QED BY <2>3, <3>1, <3>3, <4>1, <4>5
    <3>4. i \in 1 .. r \/ i \in (r + 1) .. c
      BY <3>1
    <3>. QED BY <3>2, <3>3, <3>4
  <2>7. roots \union childs = hits
    BY <2>5, <2>6
  <2>. QED BY <1>1, <1>2, <1>4, <1>5, <2>4, <2>7 DEF Scan
<1>6. CASE pf.ac # NoAutomaton
  <2>1. ScanAhoCorasick(BuildAhoCorasick(P), text)
          = Masks({p \in {P[i] : i \in 1 .. c} : Occurs(p.lit, text)})
    BY <1>2, AhoCorasickExact
  <2>2. {p \in {P[i] : i \in 1 .. c} : Occurs(p.lit, text)} = {P[i] : i \in hits}
    BY <1>4
  <2>3. Masks({P[i] : i \in hits}) = UNION {P[i].mask : i \in hits}
    BY DEF Masks
  <2>4. ScanAhoCorasick(pf.ac, text) = Implied(pf, hits)
    BY <1>1, <1>3, <1>6, <2>1, <2>2, <2>3 DEF Implied
  <2>. QED BY <1>1, <1>2, <1>4, <1>6, <2>4 DEF Scan
<1>. QED BY <1>5, <1>6

\* A transition that is not a candidate does not match the line.
LEMMA CandidatesSuffice ==
  ASSUME NEW pf, NEW ts, NEW n \in Nat, StartsOK(ts, n), NEW r \in Nat, NEW c \in Nat,
         FilterOK(pf, ts, n, r, c), Covers(pf, ts, n, c), NEW l \in Lines,
         NEW i \in 1 .. n, i \notin Scan(pf, Text(l)), i <= WordBits
  PROVE  ~Matches(l, ts[i].pattern)
<1>1. PICK P : P = pf.kept
  OBVIOUS
<1>2. DOMAIN P = 1 .. c /\ \A j \in 1 .. c : Probe(P[j])
  BY <1>1 DEF FilterOK, PartitionOK
<1>3. PICK text : text = Text(l)
  OBVIOUS
<1>4. text \in Seq(Bytes)
  BY <1>3, LiteralAssumption
<1>5. i \notin pf.always /\ i \notin Implied(pf, {j \in DOMAIN pf.kept : Occurs(pf.kept[j].lit, text)})
  BY <1>3, <1>4, ScanFinds
<1>6. \A j \in 1 .. c : Occurs(P[j].lit, text) => i \notin P[j].mask
  BY <1>1, <1>2, <1>5 DEF Implied
<1>7. DOMAIN ts = 1 .. n /\ ts[i].pattern \in Patterns
  BY DEF StartsOK
<1>8. pf.always = Always(ts)
  BY DEF FilterOK
<1>9. Required(ts[i].pattern) # {}
  BY <1>5, <1>7, <1>8 DEF Always
<1>10. SUFFICES ASSUME Matches(l, ts[i].pattern) PROVE FALSE
  OBVIOUS
<1>11. PICK a \in Required(ts[i].pattern) : Occurs(a, text)
  BY <1>3, <1>7, <1>9, <1>10, ContentAssumption
<1>12. Addressed(ts, i)
  BY <1>9 DEF Addressed
<1>13. PICK j \in 1 .. c : Occurs(P[j].lit, a) /\ i \in P[j].mask
  BY <1>1, <1>11, <1>12 DEF Covers
<1>14. a \in Seq(Bytes) /\ P[j].lit \in Seq(Bytes)
  BY <1>2, <1>7, LiteralAssumption DEF Probe
<1>15. Occurs(P[j].lit, text)
  BY <1>4, <1>11, <1>13, <1>14, OccursTrans
<1>. QED BY <1>6, <1>13, <1>15
=============================================================================
