--------------------------- MODULE MachineProofs ----------------------------
(***************************************************************************)
(* Theorems about the matcher, for every menu of state sets, every set of  *)
(* lines and patterns, and every bound on the active states.               *)
(*                                                                         *)
(* A machine compiled without an error has a numbered state for each       *)
(* declared name, and the transitions of its entries; so the indices a     *)
(* line leads to stand for the named states a reading of the declarations  *)
(* leads to, in an order that respects that of the sets. MachineInv says   *)
(* so of the machine, of the active states and of what the last line       *)
(* reported. It is inductive, and the properties of StateMachine follow    *)
(* from it.                                                                *)
(***************************************************************************)
EXTENDS StateMachine, PrefilterProofs
-----------------------------------------------------------------------------
(* What is declared.                                                        *)

\* A state and the number of its set, of n.
DeclSet(n) == [set : 1 .. n, state : States]
Arrows     == [pattern : Patterns, next : STRING]
Links      == [pattern : Patterns, next : Int]

\* The first is declared in the set of the second or in one before it.
InOrder(n) == {p \in DeclSet(n) \X DeclSet(n) : p[1].set <= p[2].set}

\* The declarations of the i-th set.
PartOf(sets, i) == [j \in DOMAIN sets[i].states |-> [set |-> i, state |-> sets[i].states[j]]]
Parts(sets)     == [i \in DOMAIN sets |-> PartOf(sets, i)]

\* The fields of a declaration.
LEMMA DeclFields ==
  ASSUME NEW n \in Nat, NEW d \in DeclSet(n)
  PROVE  /\ d.set \in 1 .. n /\ d.state \in States
         /\ d.state.name \in STRING /\ d.state.nonTerminal \in BOOLEAN
         /\ d.state.transitions \in Seq(Arrows)
BY DEF DeclSet, States, Arrows

\* The parts are sequences of declarations.
LEMMA PartsOf ==
  ASSUME NEW sets \in Seq(StateSets), NEW n \in Nat, n = Len(sets)
  PROVE  /\ Parts(sets) \in Seq(Seq(DeclSet(n))) /\ Len(Parts(sets)) = n
         /\ DOMAIN Parts(sets) = 1 .. n
         /\ \A i \in 1 .. n : /\ Parts(sets)[i] = PartOf(sets, i)
                               /\ PartOf(sets, i) \in Seq(DeclSet(n))
                               /\ DOMAIN PartOf(sets, i) = DOMAIN sets[i].states
         /\ Declarations(sets) = FlattenSeq(Parts(sets))
<1>1. DOMAIN sets = 1 .. n /\ \A i \in 1 .. n : sets[i] \in StateSets
  BY LenProperties, ElementOfSeq
<1>2. ASSUME NEW i \in 1 .. n
      PROVE  PartOf(sets, i) \in Seq(DeclSet(n)) /\ DOMAIN PartOf(sets, i) = DOMAIN sets[i].states
  <2>1. PICK s \in Seq(States) : s = sets[i].states
    BY <1>1 DEF StateSets
  <2>2. PICK m \in Nat : m = Len(s) /\ DOMAIN s = 1 .. m /\ \A j \in 1 .. m : s[j] \in States
    BY LenProperties, ElementOfSeq
  <2>3. PICK p : p = [j \in 1 .. m |-> [set |-> i, state |-> s[j]]]
    OBVIOUS
  <2>4. p \in [1 .. m -> DeclSet(n)]
    BY <2>2, <2>3 DEF DeclSet
  <2>5. p \in Seq(DeclSet(n)) /\ DOMAIN p = 1 .. m
    BY <2>4
  <2>6. PartOf(sets, i) = p
    BY <2>1, <2>2, <2>3 DEF PartOf
  <2>. QED BY <2>1, <2>2, <2>5, <2>6
<1>3. Parts(sets) \in [1 .. n -> Seq(DeclSet(n))] /\ \A i \in 1 .. n : Parts(sets)[i] = PartOf(sets, i)
  BY <1>1, <1>2 DEF Parts
<1>4. Parts(sets) \in Seq(Seq(DeclSet(n))) /\ DOMAIN Parts(sets) = 1 .. n
  BY <1>3
<1>5. Len(Parts(sets)) = n
  BY <1>4, LenProperties
<1>6. Declarations(sets) = FlattenSeq(Parts(sets))
  BY DEF Declarations, Parts, PartOf
<1>. QED BY <1>2, <1>3, <1>4, <1>5, <1>6

\* Which declarations there are, and that those of a set come before those of the next.
LEMMA DeclarationsAre ==
  ASSUME NEW sets \in Seq(StateSets), NEW n \in Nat, n = Len(sets)
  PROVE  /\ Declarations(sets) \in Seq(DeclSet(n))
         /\ \A d : d \in ToSet(Declarations(sets)) <=>
              \E i \in 1 .. n : \E j \in DOMAIN sets[i].states :
                d = [set |-> i, state |-> sets[i].states[j]]
         /\ Ordered(InOrder(n), Declarations(sets))
<1>1. PICK ps : ps = Parts(sets)
  OBVIOUS
<1>2. /\ ps \in Seq(Seq(DeclSet(n))) /\ Len(ps) = n
      /\ \A i \in 1 .. n : /\ ps[i] = PartOf(sets, i) /\ ps[i] \in Seq(DeclSet(n))
                            /\ DOMAIN ps[i] = DOMAIN sets[i].states
      /\ Declarations(sets) = FlattenSeq(ps)
  BY <1>1, PartsOf
<1>3. /\ FlattenSeq(ps) \in Seq(DeclSet(n))
      /\ ToSet(FlattenSeq(ps)) = UNION {ToSet(ps[i]) : i \in 1 .. n}
  BY <1>2, FlattenElements
<1>4. ASSUME NEW i \in 1 .. n
      PROVE  /\ \A d : d \in ToSet(ps[i]) <=>
                   \E j \in DOMAIN sets[i].states : d = [set |-> i, state |-> sets[i].states[j]]
             /\ \A d \in ToSet(ps[i]) : d.set = i /\ d \in DeclSet(n)
  <2>1. PICK p \in Seq(DeclSet(n)) : p = ps[i]
    BY <1>2
  <2>2. PICK s : s = sets[i].states
    OBVIOUS
  <2>3. DOMAIN p = DOMAIN s /\ \A j \in DOMAIN s : p[j] = [set |-> i, state |-> s[j]]
    BY <1>2, <2>1, <2>2 DEF PartOf
  <2>4. \A d : d \in ToSet(p) <=> \E j \in DOMAIN s : d = p[j]
    BY <2>3 DEF ToSet
  <2>5. \A d : d \in ToSet(p) <=> \E j \in DOMAIN s : d = [set |-> i, state |-> s[j]]
    BY <2>3, <2>4
  <2>6. \A j \in DOMAIN s : p[j] \in DeclSet(n)
    BY <2>3, LenProperties, ElementOfSeq
  <2>7. \A d \in ToSet(p) : d.set = i /\ d \in DeclSet(n)
    BY <2>3, <2>4, <2>6
  <2>. QED BY <2>1, <2>2, <2>5, <2>7
<1>5. \A d : d \in ToSet(Declarations(sets)) <=>
        \E i \in 1 .. n : \E j \in DOMAIN sets[i].states :
          d = [set |-> i, state |-> sets[i].states[j]]
  <2>3. \A d : d \in ToSet(Declarations(sets)) <=> \E i \in 1 .. n : d \in ToSet(ps[i])
    BY <1>2, <1>3
  <2>. QED BY <1>4, <2>3
<1> DEFINE R == InOrder(n)
<1>7. ASSUME NEW i \in 1 .. n, NEW j \in 1 .. n, i <= j,
             NEW d \in ToSet(ps[i]), NEW e \in ToSet(ps[j])
      PROVE  <<d, e>> \in R
  BY <1>4, <1>7 DEF InOrder
<1> HIDE DEF R
<1>8. \A i \in 1 .. n : Ordered(R, ps[i])
  <2>1. \A i \in 1 .. n : \A j \in 1 .. Len(ps[i]) : ps[i][j] \in ToSet(ps[i])
    BY <1>2, LenProperties DEF ToSet
  <2>2. \A i \in 1 .. n : i <= i
    OBVIOUS
  <2>. QED BY <1>7, <2>1, <2>2 DEF Ordered
<1>9. Ordered(R, FlattenSeq(ps))
  <2>1. ASSUME NEW i \in 1 .. n, NEW j \in 1 .. n, i < j,
               NEW d \in ToSet(ps[i]), NEW e \in ToSet(ps[j])
        PROVE  <<d, e>> \in R
    BY <1>7, <2>1
  <2>. QED BY <1>2, <1>8, <2>1, OrderedFlatten
<1>. QED BY <1>2, <1>3, <1>5, <1>9 DEF R
-----------------------------------------------------------------------------
(* What is compiled.                                                        *)

\* A name is found where its node is numbered.
LEMMA IndexOfIs ==
  ASSUME NEW A, NEW nodes \in Seq(A), NEW m \in Nat, m = Len(nodes), NEW set, NEW name
  PROVE  /\ IndexOf(nodes, set, name) \in Int
         /\ Scoped(set, name) \in ToSet(nodes) =>
              /\ IndexOf(nodes, set, name) \in 0 .. m - 1
              /\ nodes[IndexOf(nodes, set, name) + 1] = Scoped(set, name)
<1> DEFINE I == {i \in 1 .. m : nodes[i] = Scoped(set, name)}
<1>1. I \in SUBSET Nat /\ DOMAIN nodes = 1 .. m
  BY LenProperties
<1>2. IndexOf(nodes, set, name) = (IF I # {} THEN Min(I) ELSE 0) - 1
  BY DEF IndexOf, SelectInSeq
<1>3. I # {} => Min(I) \in I
  <2> HIDE DEF I
  <2>. QED BY <1>1, MinProperties
<1>4. CASE I = {}
  <2>1. Scoped(set, name) \notin ToSet(nodes)
    BY <1>1, <1>4 DEF ToSet
  <2>. QED BY <1>2, <1>4, <2>1
<1>5. CASE I # {}
  <2>1. PICK k \in 1 .. m : k = Min(I) /\ nodes[k] = Scoped(set, name)
    BY <1>3, <1>5
  <2>2. IndexOf(nodes, set, name) = k - 1
    BY <1>2, <1>5, <2>1
  <2>3. (k - 1) + 1 = k /\ k - 1 \in 0 .. m - 1
    BY <2>1
  <2>. QED BY <2>1, <2>2, <2>3
<1>. QED BY <1>4, <1>5

Owned(d, node) == Scoped(d.set, d.state.name) = node

\* The transitions a declaration gives its state, compiled.
Gives(nodes, d) ==
  [j \in DOMAIN d.state.transitions |->
    [pattern |-> d.state.transitions[j].pattern,
     next |-> IndexOf(nodes, d.set, d.state.transitions[j].next)]]

\* What every declaration adds to the transitions of a node.
Given(n, nodes, node) == [d \in DeclSet(n) |-> IF Owned(d, node) THEN Gives(nodes, d) ELSE <<>>]

\* What every declaration adds to the start transitions.
Starting(n) == [d \in DeclSet(n) |->
                 IF d.state.name = StartName THEN d.state.transitions ELSE <<>>]

\* The compiled transitions of a declaration.
LEMMA GivesLinks ==
  ASSUME NEW n \in Nat, NEW A, NEW nodes \in Seq(A), NEW d \in DeclSet(n)
  PROVE  Gives(nodes, d) \in Seq(Links)
<1>1. PICK ts \in Seq(Arrows) : ts = d.state.transitions
  BY DeclFields
<1>2. PICK m \in Nat : m = Len(ts) /\ DOMAIN ts = 1 .. m /\ \A j \in 1 .. m : ts[j] \in Arrows
  BY LenProperties, ElementOfSeq
<1>3. \A j \in 1 .. m : IndexOf(nodes, d.set, ts[j].next) \in Int
  <2>1. Len(nodes) \in Nat
    BY LenProperties
  <2>. QED BY <2>1, IndexOfIs
<1>4. PICK gs : gs = [j \in 1 .. m |-> [pattern |-> ts[j].pattern,
                                        next |-> IndexOf(nodes, d.set, ts[j].next)]]
  OBVIOUS
<1>5. gs \in [1 .. m -> Links]
  BY <1>2, <1>3, <1>4 DEF Links, Arrows
<1>6. Gives(nodes, d) = gs
  BY <1>1, <1>2, <1>4 DEF Gives
<1>. QED BY <1>5, <1>6

\* What the two maps yield.
LEMMA GivenMaps ==
  ASSUME NEW n \in Nat, NEW A, NEW nodes \in Seq(A), NEW node
  PROVE  Maps(Given(n, nodes, node), DeclSet(n), Links) /\ Maps(Starting(n), DeclSet(n), Arrows)
<1>1. \A d \in DeclSet(n) : Gives(nodes, d) \in Seq(Links) /\ d.state.transitions \in Seq(Arrows)
  BY GivesLinks, DeclFields
<1>2. <<>> \in Seq(Links) /\ <<>> \in Seq(Arrows)
  BY EmptySeq
<1>. QED BY <1>1, <1>2 DEF Maps, Given, Starting

\* The selected elements, as a map.
LEMMA SelectedMaps ==
  ASSUME NEW A, NEW s \in Seq(A), NEW S, NEW G, G = [x \in A |-> IF x \in S THEN <<x>> ELSE <<>>]
  PROVE  Maps(G, A, A) /\ Selected(s, S) = FlatMap(G, s) /\ Selected(s, S) \in Seq(A)
<1>1. \A x \in A : G[x] \in Seq(A)
  BY EmptySeq
<1>2. Maps(G, A, A)
  BY <1>1 DEF Maps
<1>3. \A i \in DOMAIN s : s[i] \in A
  BY LenProperties, ElementOfSeq
<1>4. [i \in DOMAIN s |-> IF s[i] \in S THEN <<s[i]>> ELSE <<>>] = [i \in DOMAIN s |-> G[s[i]]]
  BY <1>3
<1>5. Selected(s, S) = FlatMap(G, s)
  BY <1>4 DEF Selected, FlatMap
<1>6. FlatMap(G, s) \in Seq(A)
  <2>1. <<>> \in Seq(A) /\ s \o <<>> = s
    BY EmptySeq, ConcatEmptySeq
  <2>. QED BY <1>2, <2>1, FlatMapConcat
<1>. QED BY <1>2, <1>5, <1>6

\* The transitions of a node are what one declaration after the other gives it.
LEMMA CompiledIs ==
  ASSUME NEW sets \in Seq(StateSets), NEW n \in Nat, n = Len(sets),
         NEW A, NEW nodes \in Seq(A), NEW node
  PROVE  /\ CompiledTransitions(sets, nodes, node) = FlatMap(Given(n, nodes, node), Declarations(sets))
         /\ CompiledTransitions(sets, nodes, node) \in Seq(Links)
<1>1. PICK ds \in Seq(DeclSet(n)) : ds = Declarations(sets)
  BY DeclarationsAre
<1>2. PICK E : E = Entries(sets, node)
  OBVIOUS
<1>3. \A k \in DOMAIN ds : ds[k] \in DeclSet(n) /\ (ds[k] \in E <=> Owned(ds[k], node))
  BY <1>1, <1>2, LenProperties, ElementOfSeq DEF Entries, Owned, ToSet
<1>4. PICK G : G = [x \in DeclSet(n) |-> IF x \in E THEN <<x>> ELSE <<>>]
  OBVIOUS
<1>5. PICK C : C = [d \in DeclSet(n) |-> Gives(nodes, d)]
  OBVIOUS
<1>6. Maps(C, DeclSet(n), Links)
  BY <1>5, GivesLinks DEF Maps
<1>7. PICK ms : ms = Selected(ds, E)
  OBVIOUS
<1>8. Maps(G, DeclSet(n), DeclSet(n)) /\ ms = FlatMap(G, ds) /\ ms \in Seq(DeclSet(n))
  BY <1>4, <1>7, SelectedMaps
<1>9. CompiledTransitions(sets, nodes, node) = FlatMap(C, ms)
  <2>1. \A k \in DOMAIN ms : ms[k] \in DeclSet(n)
    BY <1>8, LenProperties, ElementOfSeq
  <2>2. [k \in DOMAIN ms |-> C[ms[k]]] = [k \in DOMAIN ms |-> Gives(nodes, ms[k])]
    BY <1>5, <2>1
  <2>3. Merged(sets, node) = ms
    BY <1>1, <1>2, <1>7 DEF Merged
  <2>4. CompiledTransitions(sets, nodes, node) = FlattenSeq([k \in DOMAIN ms |-> Gives(nodes, ms[k])])
    BY <2>3 DEF CompiledTransitions, Gives
  <2>. QED BY <2>2, <2>4 DEF FlatMap
<1>10. PICK ss : ss = [k \in DOMAIN ds |-> G[ds[k]]]
  OBVIOUS
<1>11. ss \in Seq(Seq(DeclSet(n))) /\ DOMAIN ss = DOMAIN ds
  BY <1>8, <1>10, MapParts
<1>12. FlatMap(C, ms) = FlattenSeq([k \in DOMAIN ss |-> FlatMap(C, ss[k])])
  <2>1. ms = FlattenSeq(ss)
    BY <1>8, <1>10 DEF FlatMap
  <2>. QED BY <1>6, <1>11, <2>1, FlatMapFlatten
<1>13. ASSUME NEW k \in DOMAIN ds PROVE FlatMap(C, ss[k]) = Given(n, nodes, node)[ds[k]]
  <2>1. PICK d \in DeclSet(n) : d = ds[k] /\ (d \in E <=> Owned(d, node))
    BY <1>3
  <2>2. ss[k] = IF d \in E THEN <<d>> ELSE <<>>
    BY <1>4, <1>10, <2>1
  <2>3. FlatMap(C, <<>>) = <<>> /\ FlatMap(C, <<d>>) = C[d]
    BY <1>6, FlatMapSingle
  <2>4. C[d] = Gives(nodes, d)
    BY <1>5
  <2>5. Given(n, nodes, node)[d] = IF Owned(d, node) THEN Gives(nodes, d) ELSE <<>>
    BY DEF Given
  <2>. QED BY <2>1, <2>2, <2>3, <2>4, <2>5
<1>14. [k \in DOMAIN ss |-> FlatMap(C, ss[k])] = [k \in DOMAIN ds |-> Given(n, nodes, node)[ds[k]]]
  BY <1>11, <1>13
<1>15. FlatMap(C, ms) = FlatMap(Given(n, nodes, node), ds)
  BY <1>12, <1>14 DEF FlatMap
<1>16. FlatMap(C, ms) \in Seq(Links)
  <2>1. <<>> \in Seq(DeclSet(n))
    BY EmptySeq
  <2>. QED BY <1>6, <1>8, <2>1, FlatMapConcat
<1>. QED BY <1>1, <1>9, <1>15, <1>16

\* The transitions startPrefilter sees are those declarations one after the other give
\* the start state.
LEMMA StartsAre ==
  ASSUME NEW sets \in Seq(StateSets), NEW n \in Nat, n = Len(sets)
  PROVE  /\ StartTransitions(sets) = FlatMap(Starting(n), Declarations(sets))
         /\ StartTransitions(sets) \in Seq(Arrows)
<1>1. PICK ps : ps = Parts(sets)
  OBVIOUS
<1>2. /\ ps \in Seq(Seq(DeclSet(n))) /\ DOMAIN ps = 1 .. n
      /\ \A i \in 1 .. n : /\ ps[i] = PartOf(sets, i) /\ ps[i] \in Seq(DeclSet(n))
                            /\ DOMAIN ps[i] = DOMAIN sets[i].states
      /\ Declarations(sets) = FlattenSeq(ps)
  BY <1>1, PartsOf
<1>3. Maps(Starting(n), DeclSet(n), Arrows)
  <2>1. <<>> \in Seq({})
    BY EmptySeq
  <2>. QED BY <2>1, GivenMaps
<1>4. FlatMap(Starting(n), Declarations(sets)) = FlattenSeq([i \in 1 .. n |-> FlatMap(Starting(n), ps[i])])
  BY <1>2, <1>3, FlatMapFlatten
<1>5. ASSUME NEW i \in 1 .. n
      PROVE  FlatMap(Starting(n), ps[i]) = FlattenSeq([j \in DOMAIN sets[i].states |->
               IF sets[i].states[j].name = StartName THEN sets[i].states[j].transitions ELSE <<>>])
  <2>1. PICK p \in Seq(DeclSet(n)) : p = ps[i]
    BY <1>2
  <2>2. PICK s : s = sets[i].states
    OBVIOUS
  <2>3. DOMAIN p = DOMAIN s /\ \A j \in DOMAIN s : p[j] = [set |-> i, state |-> s[j]]
    BY <1>2, <2>1, <2>2 DEF PartOf
  <2>4. \A j \in DOMAIN s : p[j] \in DeclSet(n)
    BY <2>3, LenProperties, ElementOfSeq
  <2>5. \A j \in DOMAIN s : Starting(n)[p[j]] =
          IF s[j].name = StartName THEN s[j].transitions ELSE <<>>
    BY <2>3, <2>4 DEF Starting
  <2>6. [j \in DOMAIN p |-> Starting(n)[p[j]]] =
          [j \in DOMAIN s |-> IF s[j].name = StartName THEN s[j].transitions ELSE <<>>]
    BY <2>3, <2>5
  <2>. QED BY <2>1, <2>2, <2>6 DEF FlatMap
<1>6. DOMAIN sets = 1 .. n
  BY LenProperties
<1>7. StartTransitions(sets) = FlatMap(Starting(n), Declarations(sets))
  BY <1>4, <1>5, <1>6 DEF StartTransitions
<1>8. FlatMap(Starting(n), Declarations(sets)) \in Seq(Arrows)
  <2>1. <<>> \in Seq(DeclSet(n)) /\ Declarations(sets) \in Seq(DeclSet(n))
    BY EmptySeq, DeclarationsAre
  <2>. QED BY <1>3, <2>1, FlatMapConcat
<1>. QED BY <1>7, <1>8
\* The same pattern on both sides.
SamePattern == {p \in Arrows \X Links : p[1].pattern = p[2].pattern}

\* The transitions of the start state are those startPrefilter sees, in their order.
LEMMA StartPatterns ==
  ASSUME NEW sets \in Seq(StateSets), NEW n \in Nat, n = Len(sets), NEW A, NEW nodes \in Seq(A)
  PROVE  Related(SamePattern, StartTransitions(sets),
                 CompiledTransitions(sets, nodes, <<0, StartName>>))
<1>1. PICK G : G = Given(n, nodes, <<0, StartName>>)
  OBVIOUS
<1>2. PICK H : H = Starting(n)
  OBVIOUS
<1>3. Maps(G, DeclSet(n), Links) /\ Maps(H, DeclSet(n), Arrows)
  BY <1>1, <1>2, GivenMaps
<1>4. PICK ds \in Seq(DeclSet(n)) : ds = Declarations(sets)
  BY DeclarationsAre
<1>5. PICK xs : xs = [k \in DOMAIN ds |-> H[ds[k]]]
  OBVIOUS
<1>6. PICK ys : ys = [k \in DOMAIN ds |-> G[ds[k]]]
  OBVIOUS
<1>7. /\ xs \in Seq(Seq(Arrows)) /\ Len(xs) = Len(ds)
      /\ ys \in Seq(Seq(Links)) /\ Len(ys) = Len(ds)
  BY <1>3, <1>5, <1>6, MapParts
<1>8. ASSUME NEW d \in DeclSet(n) PROVE Related(SamePattern, H[d], G[d])
  <2>1. d.set \in 1 .. n /\ d.state.transitions \in Seq(Arrows)
    BY DeclFields
  <2>2. Owned(d, <<0, StartName>>) <=> d.state.name = StartName
    BY DEF Owned, Scoped, NodeOf
  <2>3. CASE d.state.name = StartName
    <3>1. H[d] = d.state.transitions /\ G[d] = Gives(nodes, d)
      BY <1>1, <1>2, <2>2, <2>3 DEF Starting, Given
    <3>2. PICK ts \in Seq(Arrows) : ts = d.state.transitions
      BY <2>1
    <3>3. PICK gs \in Seq(Links) : gs = Gives(nodes, d)
      BY GivesLinks
    <3>4. DOMAIN gs = DOMAIN ts /\ \A j \in DOMAIN ts : gs[j].pattern = ts[j].pattern
      BY <3>2, <3>3 DEF Gives
    <3>5. PICK m \in Nat : /\ m = Len(ts) /\ DOMAIN ts = 1 .. m
                           /\ \A j \in 1 .. m : ts[j] \in Arrows
      BY LenProperties, ElementOfSeq
    <3>6. m = Len(gs) /\ \A j \in 1 .. m : gs[j] \in Links
      BY <3>4, <3>5, LenProperties, ElementOfSeq
    <3>7. \A j \in 1 .. m : <<ts[j], gs[j]>> \in SamePattern
      BY <3>4, <3>5, <3>6 DEF SamePattern
    <3>. QED BY <3>1, <3>2, <3>3, <3>5, <3>6, <3>7 DEF Related
  <2>4. CASE d.state.name # StartName
    <3>1. H[d] = <<>> /\ G[d] = <<>>
      BY <1>1, <1>2, <2>2, <2>4 DEF Starting, Given
    <3>2. Len(<<>>) = 0
      BY LenOfEmpty
    <3>. QED BY <3>1, <3>2 DEF Related
  <2>. QED BY <2>3, <2>4
<1>9. \A k \in 1 .. Len(xs) : Related(SamePattern, xs[k], ys[k])
  <2>1. DOMAIN ds = 1 .. Len(ds) /\ \A k \in DOMAIN ds : ds[k] \in DeclSet(n)
    BY LenProperties, ElementOfSeq
  <2>2. \A k \in DOMAIN ds : Related(SamePattern, H[ds[k]], G[ds[k]])
    BY <1>8, <2>1
  <2>. QED BY <1>5, <1>6, <1>7, <2>1, <2>2
<1>10. Related(SamePattern, FlattenSeq(xs), FlattenSeq(ys))
  <2>1. Len(xs) = Len(ys)
    BY <1>7
  <2>. QED BY <1>7, <1>9, <2>1, RelatedFlatten
<1>11. StartTransitions(sets) = FlattenSeq(xs)
  BY <1>2, <1>4, <1>5, StartsAre DEF FlatMap
<1>12. CompiledTransitions(sets, nodes, <<0, StartName>>) = FlattenSeq(ys)
  BY <1>1, <1>4, <1>6, CompiledIs DEF FlatMap
<1>. QED BY <1>10, <1>11, <1>12
-----------------------------------------------------------------------------
(* The numbering of the states.                                             *)

\* The numbering of the states, declaration by declaration.
NumberIn(none, nodes, d) == Numbered(nodes, d)
NumberClimb == INSTANCE Ladder WITH Op <- NumberIn

\* The nodes after the declarations in q.
NumberAll(base, q) == FoldLeft(Numbered, base, q)

\* The declarations are numbered one after the other.
NumberSteps(t, base, n, q) ==
  /\ t[0] = base /\ t[n] = NumberAll(base, q)
  /\ \A i \in 1 .. n : t[i] = Numbered(t[i - 1], q[i])

\* The numbering goes from one declaration to the next.
LEMMA NumberFold ==
  ASSUME NEW n \in Nat, NEW q, DOMAIN q = 1 .. n, NEW base
  PROVE  \E t : NumberSteps(t, base, n, q)
<1>1. NumberClimb!Folded(0, base, q) = NumberAll(base, q)
  BY DEF NumberAll, NumberIn, NumberClimb!Folded, NumberClimb!FoldLeft,
         NumberClimb!MapThenFoldSet, NumberClimb!Max, FoldLeft, MapThenFoldSet, Max
<1>2. PICK t : NumberClimb!Climbs(t, 0, base, n, q) /\ t[n] = NumberClimb!Folded(0, base, q)
  BY NumberClimb!FoldClimbs
<1>. QED BY <1>1, <1>2 DEF NumberClimb!Climbs, NumberIn, NumberSteps

Places(n) == (0 .. n) \X (STRING \union {StartName})

\* Where a declaration puts its state.
PlaceOf(d) == Scoped(d.set, d.state.name)

\* The first k declarations are numbered, each state once and the start state first.
NodesOK(nodes, n, ds, k) ==
  /\ nodes \in Seq(Places(n)) /\ IsInjective(nodes)
  /\ Len(nodes) >= 1 /\ nodes[1] = <<0, StartName>>
  /\ ToSet(nodes) = {<<0, StartName>>} \union {PlaceOf(ds[j]) : j \in 1 .. k}

\* One more declaration.
LEMMA NumberStep ==
  ASSUME NEW n \in Nat, NEW ds, NEW k \in Nat, NEW nodes, NodesOK(nodes, n, ds, k),
         ds[k + 1] \in DeclSet(n)
  PROVE  NodesOK(Numbered(nodes, ds[k + 1]), n, ds, k + 1)
<1>1. PICK d \in DeclSet(n) : d = ds[k + 1]
  OBVIOUS
<1>2. /\ nodes \in Seq(Places(n)) /\ IsInjective(nodes)
      /\ Len(nodes) >= 1 /\ nodes[1] = <<0, StartName>>
      /\ ToSet(nodes) = {<<0, StartName>>} \union {PlaceOf(ds[j]) : j \in 1 .. k}
  BY DEF NodesOK
<1>3. PICK p : p = PlaceOf(d)
  OBVIOUS
<1>4. p \in Places(n)
  <2>1. d.set \in 1 .. n /\ d.state.name \in STRING
    BY DeclFields
  <2>2. d.set \in 0 .. n /\ 0 \in 0 .. n
    BY <2>1
  <2>. QED BY <1>3, <2>1, <2>2 DEF PlaceOf, Scoped, NodeOf, Places
<1>5. {PlaceOf(ds[j]) : j \in 1 .. (k + 1)} = {PlaceOf(ds[j]) : j \in 1 .. k} \union {p}
  <2>1. \A j \in 1 .. (k + 1) : j \in 1 .. k \/ j = k + 1
    OBVIOUS
  <2>2. k + 1 \in 1 .. (k + 1) /\ \A j \in 1 .. k : j \in 1 .. (k + 1)
    OBVIOUS
  <2>. QED BY <1>1, <1>3, <2>1, <2>2
<1>6. Numbered(nodes, d) = IF p \in ToSet(nodes) THEN nodes ELSE Append(nodes, p)
  BY <1>3 DEF Numbered, PlaceOf
<1>7. CASE p \in ToSet(nodes)
  <2>1. Numbered(nodes, d) = nodes
    BY <1>6, <1>7
  <2>2. ToSet(nodes) = {<<0, StartName>>} \union {PlaceOf(ds[j]) : j \in 1 .. (k + 1)}
    BY <1>2, <1>5, <1>7
  <2>3. NodesOK(nodes, n, ds, k + 1)
    BY <1>2, <2>2 DEF NodesOK
  <2>. QED BY <1>1, <2>1, <2>3
<1>8. CASE p \notin ToSet(nodes)
  <2>1. PICK more : more = Append(nodes, p)
    OBVIOUS
  <2>2. /\ more \in Seq(Places(n)) /\ IsInjective(more)
        /\ ToSet(more) = ToSet(nodes) \union {p}
    BY <1>2, <1>4, <1>8, <2>1, AppendSet
  <2>3. Len(more) >= 1 /\ more[1] = nodes[1]
    <3>1. PICK m \in Nat : m = Len(nodes) /\ m >= 1
      BY <1>2, LenProperties
    <3>2. Len(more) = m + 1 /\ \A i \in 1 .. m : more[i] = nodes[i]
      BY <1>2, <1>4, <2>1, <3>1, AppendProperties
    <3>. QED BY <3>1, <3>2
  <2>4. ToSet(more) = {<<0, StartName>>} \union {PlaceOf(ds[j]) : j \in 1 .. (k + 1)}
    BY <1>2, <1>5, <2>2
  <2>5. NodesOK(more, n, ds, k + 1)
    BY <1>2, <2>2, <2>3, <2>4 DEF NodesOK
  <2>6. Numbered(nodes, d) = more
    BY <1>6, <1>8, <2>1
  <2>. QED BY <1>1, <2>5, <2>6
<1>. QED BY <1>7, <1>8

\* Every declared state has a number, and no other but the start state.
LEMMA NodesAre ==
  ASSUME NEW sets \in Seq(StateSets), NEW n \in Nat, n = Len(sets)
  PROVE  \E k \in Nat : /\ k = Len(Declarations(sets))
                        /\ NodesOK(Nodes(sets), n, Declarations(sets), k)
<1>1. PICK ds \in Seq(DeclSet(n)) : ds = Declarations(sets)
  BY DeclarationsAre
<1>2. PICK k \in Nat : k = Len(ds) /\ DOMAIN ds = 1 .. k /\ \A i \in 1 .. k : ds[i] \in DeclSet(n)
  BY LenProperties, ElementOfSeq
<1>3. PICK start : start = <<0, StartName>>
  OBVIOUS
<1>4. Scoped(0, StartName) = start
  BY <1>3 DEF Scoped, NodeOf
<1>5. PICK t : NumberSteps(t, <<start>>, k, ds)
  BY <1>2, NumberFold
<1>6. /\ t[0] = <<start>> /\ Nodes(sets) = t[k]
      /\ \A i \in 1 .. k : t[i] = Numbered(t[i - 1], ds[i])
  BY <1>1, <1>4, <1>5 DEF NumberSteps, NumberAll, Nodes
<1> DEFINE N == {i \in Nat : i <= k => NodesOK(t[i], n, ds, i)}
<1>7. 0 \in N
  <2>1. start \in Places(n)
    <3>1. 0 \in 0 .. n
      OBVIOUS
    <3>. QED BY <1>3, <3>1 DEF Places
  <2>2. <<start>> \in Seq(Places(n)) /\ Len(<<start>>) = 1 /\ <<start>>[1] = start
    BY <2>1
  <2>3. IsInjective(<<start>>)
    BY DEF IsInjective
  <2>4. ToSet(<<start>>) = {start}
    BY DEF ToSet
  <2>5. {start} = {start} \union {PlaceOf(ds[j]) : j \in 1 .. 0}
    OBVIOUS
  <2>6. PICK u : u = <<start>>
    OBVIOUS
  <2>7. /\ u \in Seq(Places(n)) /\ IsInjective(u) /\ Len(u) >= 1 /\ u[1] = start
        /\ ToSet(u) = {start} \union {PlaceOf(ds[j]) : j \in 1 .. 0}
    BY <2>2, <2>3, <2>4, <2>5, <2>6
  <2>8. NodesOK(u, n, ds, 0)
    BY <1>3, <2>7 DEF NodesOK
  <2>. QED BY <1>6, <2>6, <2>8
<1>8. ASSUME NEW i \in Nat, i \in N PROVE i + 1 \in N
  <2>1. SUFFICES ASSUME i + 1 <= k PROVE NodesOK(t[i + 1], n, ds, i + 1)
    OBVIOUS
  <2>2. i + 1 \in 1 .. k /\ (i + 1) - 1 = i /\ i <= k
    BY <2>1
  <2>3. PICK nodes : nodes = t[i]
    OBVIOUS
  <2>4. NodesOK(nodes, n, ds, i) /\ ds[i + 1] \in DeclSet(n)
    BY <1>2, <1>8, <2>2, <2>3
  <2>5. NodesOK(Numbered(nodes, ds[i + 1]), n, ds, i + 1)
    BY <2>4, NumberStep
  <2>6. t[i + 1] = Numbered(nodes, ds[i + 1])
    BY <1>6, <2>2, <2>3
  <2>. QED BY <2>5, <2>6
<1>9. k \in N
  <2> HIDE DEF N
  <2>. QED BY <1>7, <1>8, SetInduction
<1>. QED BY <1>1, <1>2, <1>6, <1>9
-----------------------------------------------------------------------------
(* The compiled machine.                                                    *)

\* m is compiled from n sets without an error, over c numbered states.
Built(m, sets, n, nodes, c) ==
  /\ sets \in Seq(StateSets) /\ n = Len(sets) /\ ~Rejects(sets)
  /\ nodes = Nodes(sets) /\ c = Len(nodes) /\ m = Compiled(sets)

\* A compiled transition comes from a declaration of its state.
LEMMA CompiledLinks ==
  ASSUME NEW sets \in Seq(StateSets), NEW n \in Nat, n = Len(sets),
         NEW A, NEW nodes \in Seq(A), NEW node, NEW t
  PROVE  t \in ToSet(CompiledTransitions(sets, nodes, node)) <=>
           \E d \in ToSet(Declarations(sets)) : Owned(d, node) /\
             \E a \in ToSet(d.state.transitions) :
               t = [pattern |-> a.pattern, next |-> IndexOf(nodes, d.set, a.next)]
<1>1. PICK ds \in Seq(DeclSet(n)) : ds = Declarations(sets)
  BY DeclarationsAre
<1>2. PICK G : G = Given(n, nodes, node)
  OBVIOUS
<1>3. Maps(G, DeclSet(n), Links)
  BY <1>2, GivenMaps
<1>4. CompiledTransitions(sets, nodes, node) = FlatMap(G, ds)
  BY <1>1, <1>2, CompiledIs
<1>5. t \in ToSet(FlatMap(G, ds)) <=> \E d \in ToSet(ds) : t \in ToSet(G[d])
  BY <1>3, FlatMapElements
<1>6. ASSUME NEW d \in ToSet(ds)
      PROVE  t \in ToSet(G[d]) <=> Owned(d, node) /\
               \E a \in ToSet(d.state.transitions) :
                 t = [pattern |-> a.pattern, next |-> IndexOf(nodes, d.set, a.next)]
  <2>1. d \in DeclSet(n)
    BY <1>6, LenProperties, ElementOfSeq DEF ToSet
  <2>2. G[d] = IF Owned(d, node) THEN Gives(nodes, d) ELSE <<>>
    BY <1>2, <2>1 DEF Given
  <2>3. CASE Owned(d, node)
    <3>1. PICK gs : gs = Gives(nodes, d)
      OBVIOUS
    <3>2. PICK ts : ts = d.state.transitions
      OBVIOUS
    <3>3. gs = [j \in DOMAIN ts |-> [pattern |-> ts[j].pattern, next |-> IndexOf(nodes, d.set, ts[j].next)]]
      BY <3>1, <3>2 DEF Gives
    <3>4. t \in ToSet(gs) <=> \E j \in DOMAIN ts :
            t = [pattern |-> ts[j].pattern, next |-> IndexOf(nodes, d.set, ts[j].next)]
      BY <3>3 DEF ToSet
    <3>5. \A a : a \in ToSet(ts) <=> \E j \in DOMAIN ts : a = ts[j]
      BY DEF ToSet
    <3>. QED BY <2>2, <2>3, <3>1, <3>2, <3>4, <3>5
  <2>4. CASE ~Owned(d, node)
    <3>1. ToSet(<<>>) = {}
      BY DEF ToSet
    <3>. QED BY <2>2, <2>4, <3>1
  <2>. QED BY <2>3, <2>4
<1>. QED BY <1>1, <1>4, <1>5, <1>6

\* The tables of the machine.
LEMMA BuiltTables ==
  ASSUME NEW m, NEW sets, NEW n, NEW nodes, NEW c, Built(m, sets, n, nodes, c)
  PROVE  /\ n \in Nat /\ c \in Nat /\ c >= 1 /\ nodes \in Seq(Places(n)) /\ nodes[1] = <<0, StartName>>
         /\ \A i, j \in 1 .. c : nodes[i] = nodes[j] => i = j
         /\ \A p : p \in ToSet(nodes) <=>
              p = <<0, StartName>> \/ \E d \in ToSet(Declarations(sets)) : p = PlaceOf(d)
         /\ DOMAIN m.transitions = 0 .. c - 1
         /\ \A i \in 0 .. c - 1 :
              /\ m.transitions[i] = CompiledTransitions(sets, nodes, nodes[i + 1])
              /\ m.transitions[i] \in Seq(Links)
         /\ m.pf = StartPrefilter(sets)
<1>1. /\ sets \in Seq(StateSets) /\ n = Len(sets) /\ nodes = Nodes(sets) /\ c = Len(nodes)
      /\ m = Compiled(sets)
  BY DEF Built
<1>2. n \in Nat
  BY <1>1, LenProperties
<1>3. PICK ds \in Seq(DeclSet(n)) : ds = Declarations(sets)
  BY <1>1, <1>2, DeclarationsAre
<1>4. PICK k \in Nat : k = Len(ds) /\ NodesOK(nodes, n, ds, k)
  BY <1>1, <1>2, <1>3, NodesAre
<1>5. /\ nodes \in Seq(Places(n)) /\ IsInjective(nodes)
      /\ Len(nodes) >= 1 /\ nodes[1] = <<0, StartName>>
      /\ ToSet(nodes) = {<<0, StartName>>} \union {PlaceOf(ds[j]) : j \in 1 .. k}
  BY <1>4 DEF NodesOK
<1>6. c \in Nat /\ DOMAIN nodes = 1 .. c
  BY <1>1, <1>5, LenProperties
<1>7. \A i, j \in 1 .. c : nodes[i] = nodes[j] => i = j
  BY <1>5, <1>6 DEF IsInjective
<1>8. \A d : d \in ToSet(ds) <=> \E j \in 1 .. k : d = ds[j]
  BY <1>4, LenProperties DEF ToSet
<1>9. \A p : p \in ToSet(nodes) <=>
        p = <<0, StartName>> \/ \E d \in ToSet(Declarations(sets)) : p = PlaceOf(d)
  BY <1>3, <1>5, <1>8
<1>10. m.pf = StartPrefilter(sets) /\ m.transitions = [i \in 0 .. c - 1 |-> CompiledTransitions(sets, nodes, nodes[i + 1])]
  BY <1>1 DEF Compiled
<1>11. \A i \in 0 .. c - 1 : CompiledTransitions(sets, nodes, nodes[i + 1]) \in Seq(Links)
  BY <1>1, <1>2, <1>5, CompiledIs
<1>. QED BY <1>1, <1>2, <1>5, <1>6, <1>7, <1>9, <1>10, <1>11

\* Every transition leads to a numbered state, the one its declaration names.
LEMMA LeadsToNode ==
  ASSUME NEW m, NEW sets, NEW n, NEW nodes, NEW c, Built(m, sets, n, nodes, c),
         NEW d \in ToSet(Declarations(sets)), NEW a \in ToSet(d.state.transitions)
  PROVE  /\ IndexOf(nodes, d.set, a.next) \in 0 .. c - 1
         /\ nodes[IndexOf(nodes, d.set, a.next) + 1] = NodeOf(d.set, a.next)
<1>1. ~Rejects(sets) /\ c = Len(nodes)
  BY DEF Built
<1>2. /\ c \in Nat /\ nodes \in Seq(Places(n))
      /\ \A p : p \in ToSet(nodes) <=>
           p = <<0, StartName>> \/ \E e \in ToSet(Declarations(sets)) : p = PlaceOf(e)
  BY BuiltTables
<1>3. Scoped(d.set, a.next) \in ToSet(nodes)
  <2>1. CASE a.next = StartName
    BY <1>2, <2>1 DEF Scoped, NodeOf
  <2>2. CASE a.next # StartName
    <3>1. PICK e \in ToSet(Declarations(sets)) : e.set = d.set /\ e.state.name = a.next
      BY <1>1, <2>2 DEF Rejects
    <3>2. Scoped(d.set, a.next) = PlaceOf(e)
      BY <3>1 DEF PlaceOf
    <3>. QED BY <1>2, <3>2
  <2>. QED BY <2>1, <2>2
<1>4. Scoped(d.set, a.next) = NodeOf(d.set, a.next)
  BY DEF Scoped
<1>. QED BY <1>1, <1>2, <1>3, <1>4, IndexOfIs
-----------------------------------------------------------------------------
(* One line.                                                                *)

\* Where each transition takes the line l.
Hops(l) == [t \in Links |-> Target(t, l)]

\* Where the transitions of a state take a line.
LEMMA TargetsAre ==
  ASSUME NEW ts \in Seq(Links), NEW l
  PROVE  /\ Maps(Hops(l), Links, Int) /\ Targets(ts, l) = FlatMap(Hops(l), ts)
         /\ Targets(ts, l) \in Seq(Int)
         /\ \A y : y \in ToSet(Targets(ts, l)) <=>
              \E t \in ToSet(ts) : Matches(l, t.pattern) /\ y = t.next
<1>1. PICK H : H = Hops(l)
  OBVIOUS
<1>2. \A t \in Links : H[t] = IF Matches(l, t.pattern) THEN <<t.next>> ELSE <<>>
  BY <1>1 DEF Hops, Target
<1>3. \A t \in Links : H[t] \in Seq(Int)
  <2>1. <<>> \in Seq(Int)
    BY EmptySeq
  <2>2. \A t \in Links : t.next \in Int
    BY DEF Links
  <2>3. \A x \in Int : <<x>> \in Seq(Int)
    OBVIOUS
  <2>. QED BY <1>2, <2>1, <2>2, <2>3
<1>4. Maps(H, Links, Int)
  BY <1>1, <1>3 DEF Maps, Hops
<1>5. \A j \in DOMAIN ts : ts[j] \in Links
  BY LenProperties, ElementOfSeq
<1>6. Targets(ts, l) = FlatMap(H, ts)
  <2>1. [j \in DOMAIN ts |-> H[ts[j]]] = [j \in DOMAIN ts |-> Target(ts[j], l)]
    BY <1>1, <1>5 DEF Hops
  <2>. QED BY <2>1 DEF Targets, FlatMap
<1>7. /\ FlatMap(H, ts) \in Seq(Int)
      /\ \A y : y \in ToSet(FlatMap(H, ts)) <=> \E t \in ToSet(ts) : y \in ToSet(H[t])
  BY <1>4, FlatMapElements
<1>8. ASSUME NEW t \in ToSet(ts), NEW y
      PROVE  y \in ToSet(H[t]) <=> Matches(l, t.pattern) /\ y = t.next
  <2>1. t \in Links
    BY <1>5 DEF ToSet
  <2>2. ToSet(<<>>) = {} /\ ToSet(<<t.next>>) = {t.next}
    BY DEF ToSet
  <2>. QED BY <1>2, <2>1, <2>2
<1>. QED BY <1>1, <1>4, <1>6, <1>7, <1>8

\* A declaration of the state numbered i takes the line to the one numbered y.
LeadsFrom(ds, nodes, l, i, y) ==
  \E d \in ds : Owned(d, nodes[i + 1]) /\ \E a \in ToSet(d.state.transitions) :
    Matches(l, a.pattern) /\ y = IndexOf(nodes, d.set, a.next)

\* Where each active state takes a line.
Moves(m, l) == [i \in DOMAIN m.transitions |-> Targets(m.transitions[i], l)]

\* The successors of a sequence of states are indices, and they stand for the states
\* that the declarations lead to.
LEMMA SuccessorsAre ==
  ASSUME NEW m, NEW sets, NEW n, NEW nodes, NEW c, Built(m, sets, n, nodes, c), NEW l,
         NEW states \in Seq(0 .. c - 1)
  PROVE  /\ Maps(Moves(m, l), 0 .. c - 1, 0 .. c - 1)
         /\ Successors(m, l, states) = FlatMap(Moves(m, l), states)
         /\ Successors(m, l, states) \in Seq(0 .. c - 1)
         /\ {nodes[y + 1] : y \in ToSet(Successors(m, l, states))}
              = DeclaredNext(sets, {nodes[i + 1] : i \in ToSet(states)}, l)
<1>1. /\ n \in Nat /\ c \in Nat /\ nodes \in Seq(Places(n)) /\ DOMAIN m.transitions = 0 .. c - 1
      /\ \A i \in 0 .. c - 1 :
           /\ m.transitions[i] = CompiledTransitions(sets, nodes, nodes[i + 1])
           /\ m.transitions[i] \in Seq(Links)
  BY BuiltTables
<1>2. sets \in Seq(StateSets) /\ n = Len(sets)
  BY DEF Built
<1>3. PICK ds : ds = ToSet(Declarations(sets))
  OBVIOUS
<1>4. ASSUME NEW i \in 0 .. c - 1, NEW y
      PROVE  y \in ToSet(Targets(m.transitions[i], l)) <=> LeadsFrom(ds, nodes, l, i, y)
  <2>1. PICK ts \in Seq(Links) : ts = m.transitions[i]
    BY <1>1
  <2>2. y \in ToSet(Targets(ts, l)) <=> \E t \in ToSet(ts) : Matches(l, t.pattern) /\ y = t.next
    BY TargetsAre
  <2>3. \A t : t \in ToSet(ts) <=>
          \E d \in ds : Owned(d, nodes[i + 1]) /\ \E a \in ToSet(d.state.transitions) :
            t = [pattern |-> a.pattern, next |-> IndexOf(nodes, d.set, a.next)]
    BY <1>1, <1>2, <1>3, <2>1, CompiledLinks
  <2>4. ASSUME NEW d \in ds, Owned(d, nodes[i + 1]), NEW a \in ToSet(d.state.transitions),
               Matches(l, a.pattern), y = IndexOf(nodes, d.set, a.next)
        PROVE  y \in ToSet(Targets(ts, l))
    <3>1. PICK t : t = [pattern |-> a.pattern, next |-> IndexOf(nodes, d.set, a.next)]
      OBVIOUS
    <3>2. t \in ToSet(ts) /\ t.pattern = a.pattern /\ t.next = y
      BY <2>3, <2>4, <3>1
    <3>. QED BY <2>2, <2>4, <3>2
  <2>5. ASSUME NEW t \in ToSet(ts), Matches(l, t.pattern), y = t.next
        PROVE  LeadsFrom(ds, nodes, l, i, y)
    <3>1. PICK d, a :
            /\ d \in ds /\ a \in ToSet(d.state.transitions) /\ Owned(d, nodes[i + 1])
            /\ t = [pattern |-> a.pattern, next |-> IndexOf(nodes, d.set, a.next)]
      BY <2>3
    <3>2. t.pattern = a.pattern /\ t.next = IndexOf(nodes, d.set, a.next)
      BY <3>1
    <3>. QED BY <2>5, <3>1, <3>2 DEF LeadsFrom
  <2>. QED BY <2>1, <2>2, <2>4, <2>5 DEF LeadsFrom
<1>5. \A d \in ds : \A a \in ToSet(d.state.transitions) :
        /\ IndexOf(nodes, d.set, a.next) \in 0 .. c - 1
        /\ nodes[IndexOf(nodes, d.set, a.next) + 1] = NodeOf(d.set, a.next)
  BY <1>3, LeadsToNode
<1>6. PICK M : M = Moves(m, l)
  OBVIOUS
<1>7. \A i \in 0 .. c - 1 : M[i] = Targets(m.transitions[i], l)
  BY <1>1, <1>6 DEF Moves
<1>8. Maps(M, 0 .. c - 1, 0 .. c - 1)
  <2>1. ASSUME NEW i \in 0 .. c - 1 PROVE M[i] \in Seq(0 .. c - 1)
    <3>1. M[i] \in Seq(Int)
      BY <1>1, <1>7, TargetsAre
    <3>2. ToSet(M[i]) \subseteq 0 .. c - 1
      BY <1>4, <1>5, <1>7 DEF LeadsFrom
    <3>. QED BY <3>1, <3>2, SeqOver
  <2>. QED BY <1>1, <1>6, <2>1 DEF Maps, Moves
<1>9. Successors(m, l, states) = FlatMap(M, states)
  <2>1. \A k \in DOMAIN states : states[k] \in 0 .. c - 1
    BY LenProperties, ElementOfSeq
  <2>2. [k \in DOMAIN states |-> M[states[k]]] = [k \in DOMAIN states |-> Targets(m.transitions[states[k]], l)]
    BY <1>7, <2>1
  <2>. QED BY <2>2 DEF Successors, FlatMap
<1>10. PICK succ : succ = FlatMap(M, states)
  OBVIOUS
<1>11. /\ succ \in Seq(0 .. c - 1)
       /\ \A y : y \in ToSet(succ) <=> \E i \in ToSet(states) : y \in ToSet(M[i])
  BY <1>8, <1>10, FlatMapElements
<1>12. ToSet(states) \subseteq 0 .. c - 1
  BY ElementsIn
<1>13. \A y : y \in ToSet(succ) <=> \E i \in ToSet(states) : LeadsFrom(ds, nodes, l, i, y)
  <2>1. ASSUME NEW i \in ToSet(states), NEW y
        PROVE  y \in ToSet(M[i]) <=> LeadsFrom(ds, nodes, l, i, y)
    BY <1>4, <1>7, <1>12
  <2>. QED BY <1>11, <2>1
<1>14. PICK from : from = {nodes[i + 1] : i \in ToSet(states)}
  OBVIOUS
<1>15. \A p : p \in DeclaredNext(sets, from, l) <=>
         \E d \in ds : NodeOf(d.set, d.state.name) \in from /\ \E a \in ToSet(d.state.transitions) :
           Matches(l, a.pattern) /\ p = NodeOf(d.set, a.next)
  BY <1>3 DEF DeclaredNext
<1>16. ASSUME NEW y \in ToSet(succ) PROVE nodes[y + 1] \in DeclaredNext(sets, from, l)
  <2>1. PICK i, d, a :
          /\ i \in ToSet(states) /\ d \in ds /\ a \in ToSet(d.state.transitions)
          /\ Owned(d, nodes[i + 1]) /\ Matches(l, a.pattern) /\ y = IndexOf(nodes, d.set, a.next)
    BY <1>13 DEF LeadsFrom
  <2>2. nodes[y + 1] = NodeOf(d.set, a.next)
    BY <1>5, <2>1
  <2>3. NodeOf(d.set, d.state.name) \in from
    BY <1>14, <2>1 DEF Owned, Scoped
  <2>. QED BY <1>15, <2>1, <2>2, <2>3
<1>17. ASSUME NEW p \in DeclaredNext(sets, from, l) PROVE \E y \in ToSet(succ) : p = nodes[y + 1]
  <2>1. PICK d, a :
          /\ d \in ds /\ a \in ToSet(d.state.transitions)
          /\ NodeOf(d.set, d.state.name) \in from
          /\ Matches(l, a.pattern) /\ p = NodeOf(d.set, a.next)
    BY <1>15
  <2>2. PICK i \in ToSet(states) : Owned(d, nodes[i + 1])
    BY <1>14, <2>1 DEF Owned, Scoped
  <2>3. PICK y : y = IndexOf(nodes, d.set, a.next)
    OBVIOUS
  <2>4. y \in ToSet(succ)
    BY <1>13, <2>1, <2>2, <2>3 DEF LeadsFrom
  <2>. QED BY <1>5, <2>1, <2>3, <2>4
<1>18. {nodes[y + 1] : y \in ToSet(succ)} = DeclaredNext(sets, from, l)
  BY <1>16, <1>17
<1>. QED BY <1>6, <1>8, <1>9, <1>10, <1>11, <1>14, <1>18
-----------------------------------------------------------------------------
(* What is kept of the successors, and what is reported.                    *)

\* The collection of successors.
CollectIn(none, buf, s) == Collects(buf, s)
CollectClimb == INSTANCE Ladder WITH Op <- CollectIn

\* What is collected of q, from base.
CollectAll(base, q) == FoldLeft(Collects, base, q)

\* The successors are considered one after the other.
CollectSteps(t, base, n, q) ==
  /\ t[0] = base /\ t[n] = CollectAll(base, q)
  /\ \A i \in 1 .. n : t[i] = Collects(t[i - 1], q[i])

\* One successor is collected after the other.
LEMMA CollectFold ==
  ASSUME NEW n \in Nat, NEW q, DOMAIN q = 1 .. n, NEW base
  PROVE  \E t : CollectSteps(t, base, n, q)
<1>1. CollectClimb!Folded(0, base, q) = CollectAll(base, q)
  BY DEF CollectAll, CollectIn, CollectClimb!Folded, CollectClimb!FoldLeft,
         CollectClimb!MapThenFoldSet, CollectClimb!Max, FoldLeft, MapThenFoldSet, Max
<1>2. PICK t : CollectClimb!Climbs(t, 0, base, n, q) /\ t[n] = CollectClimb!Folded(0, base, q)
  BY CollectClimb!FoldClimbs
<1>. QED BY <1>1, <1>2 DEF CollectClimb!Climbs, CollectIn, CollectSteps

\* The first k elements of q.
Firsts(q, k) == {q[j] : j \in 1 .. k}

\* buf is kept of the first k of q: each once, in their order, all of them when there
\* are no more than may be kept, and no more than may be.
CollectedOK(buf, S, R, q, k) ==
  /\ buf \in Seq(S) /\ IsInjective(buf) /\ Len(buf) <= MaxActiveStates
  /\ ToSet(buf) \subseteq Firsts(q, k) /\ Ordered(R, buf)
  /\ Len(buf) < MaxActiveStates => ToSet(buf) = Firsts(q, k)

\* One more successor, ordered after all before it.
LEMMA CollectStep ==
  ASSUME NEW S, NEW R, NEW q, NEW k \in Nat, NEW buf, CollectedOK(buf, S, R, q, k),
         q[k + 1] \in S, \A j \in 1 .. k : <<q[j], q[k + 1]>> \in R
  PROVE  CollectedOK(Collects(buf, q[k + 1]), S, R, q, k + 1)
<1>1. PICK x \in S : x = q[k + 1]
  OBVIOUS
<1>2. /\ buf \in Seq(S) /\ IsInjective(buf) /\ Len(buf) <= MaxActiveStates
      /\ ToSet(buf) \subseteq Firsts(q, k) /\ Ordered(R, buf)
      /\ Len(buf) < MaxActiveStates => ToSet(buf) = Firsts(q, k)
  BY DEF CollectedOK
<1>3. Firsts(q, k + 1) = Firsts(q, k) \union {x}
  <2>1. \A j \in 1 .. (k + 1) : j \in 1 .. k \/ j = k + 1
    OBVIOUS
  <2>2. k + 1 \in 1 .. (k + 1) /\ \A j \in 1 .. k : j \in 1 .. (k + 1)
    OBVIOUS
  <2>. QED BY <1>1, <2>1, <2>2 DEF Firsts
<1>4. MaxActiveStates \in Nat \ {0}
  BY MachineAssumption
<1>5. PICK n \in Nat : n = Len(buf)
  BY <1>2, LenProperties
<1>6. CASE Len(buf) < MaxActiveStates /\ x \notin ToSet(buf)
  <2>1. PICK more : more = Append(buf, x)
    OBVIOUS
  <2>2. Collects(buf, x) = more
    BY <1>6, <2>1 DEF Collects
  <2>3. more \in Seq(S) /\ IsInjective(more) /\ ToSet(more) = ToSet(buf) \union {x}
    BY <1>2, <1>6, <2>1, AppendSet
  <2>4. Len(more) = n + 1 /\ (\A i \in 1 .. n : more[i] = buf[i]) /\ more[n + 1] = x
    BY <1>2, <1>5, <2>1, AppendProperties
  <2>5. Len(more) <= MaxActiveStates
    BY <1>4, <1>5, <1>6, <2>4
  <2>6. Ordered(R, more)
    <3>1. ASSUME NEW i \in 1 .. (n + 1), NEW j \in 1 .. (n + 1), i < j
          PROVE  <<more[i], more[j]>> \in R
      <4>1. CASE j \in 1 .. n
        <5>1. i \in 1 .. n
          BY <3>1, <4>1
        <5>. QED BY <1>2, <1>5, <2>4, <3>1, <4>1, <5>1 DEF Ordered
      <4>2. CASE j = n + 1
        <5>1. i \in 1 .. n
          BY <3>1, <4>2
        <5>2. more[i] = buf[i] /\ buf[i] \in ToSet(buf)
          BY <1>2, <1>5, <2>4, <5>1, LenProperties DEF ToSet
        <5>3. PICK h \in 1 .. k : more[i] = q[h]
          BY <1>2, <5>2 DEF Firsts
        <5>4. <<q[h], x>> \in R
          BY <1>1
        <5>. QED BY <2>4, <4>2, <5>3, <5>4
      <4>. QED BY <4>1, <4>2
    <3>. QED BY <2>4, <3>1 DEF Ordered
  <2>7. ToSet(more) = Firsts(q, k + 1)
    BY <1>2, <1>3, <1>6, <2>3
  <2>8. CollectedOK(more, S, R, q, k + 1)
    BY <2>3, <2>5, <2>6, <2>7 DEF CollectedOK
  <2>. QED BY <1>1, <2>2, <2>8
<1>7. CASE ~(Len(buf) < MaxActiveStates /\ x \notin ToSet(buf))
  <2>1. Collects(buf, x) = buf
    BY <1>7 DEF Collects
  <2>2. ToSet(buf) \subseteq Firsts(q, k + 1)
    BY <1>2, <1>3
  <2>3. Len(buf) < MaxActiveStates => ToSet(buf) = Firsts(q, k + 1)
    BY <1>2, <1>3, <1>7
  <2>4. CollectedOK(buf, S, R, q, k + 1)
    BY <1>2, <2>2, <2>3 DEF CollectedOK
  <2>. QED BY <1>1, <2>1, <2>4
<1>. QED BY <1>6, <1>7

\* All successors.
LEMMA CollectedAll ==
  ASSUME NEW S, NEW R, NEW q \in Seq(S), Ordered(R, q), NEW buf, buf = FoldLeft(Collects, <<>>, q)
  PROVE  /\ buf \in Seq(S) /\ IsInjective(buf) /\ Len(buf) <= MaxActiveStates
         /\ ToSet(buf) \subseteq ToSet(q) /\ Ordered(R, buf)
         /\ Cardinality(ToSet(q)) <= MaxActiveStates => ToSet(buf) = ToSet(q)
<1>1. PICK n \in Nat : n = Len(q) /\ DOMAIN q = 1 .. n /\ \A i \in 1 .. n : q[i] \in S
  BY LenProperties, ElementOfSeq
<1>2. PICK t : CollectSteps(t, <<>>, n, q)
  BY <1>1, CollectFold
<1>3. t[0] = <<>> /\ buf = t[n] /\ \A i \in 1 .. n : t[i] = Collects(t[i - 1], q[i])
  BY <1>2 DEF CollectSteps, CollectAll
<1> DEFINE N == {k \in Nat : k <= n => CollectedOK(t[k], S, R, q, k)}
<1>4. MaxActiveStates \in Nat \ {0}
  BY MachineAssumption
<1>5. 0 \in N
  <2>1. PICK u : u = <<>>
    OBVIOUS
  <2>2. u \in Seq(S) /\ Len(u) = 0 /\ ToSet(u) = {} /\ IsInjective(u)
    BY <2>1, EmptySeq DEF ToSet, IsInjective
  <2>3. Firsts(q, 0) = {}
    BY DEF Firsts
  <2>4. Ordered(R, u)
    BY <2>2 DEF Ordered
  <2>5. Len(u) <= MaxActiveStates
    BY <1>4, <2>2
  <2>6. CollectedOK(u, S, R, q, 0)
    BY <2>2, <2>3, <2>4, <2>5 DEF CollectedOK
  <2>. QED BY <1>3, <2>1, <2>6
<1>6. ASSUME NEW k \in Nat, k \in N PROVE k + 1 \in N
  <2>1. SUFFICES ASSUME k + 1 <= n PROVE CollectedOK(t[k + 1], S, R, q, k + 1)
    OBVIOUS
  <2>2. k + 1 \in 1 .. n /\ (k + 1) - 1 = k /\ k <= n /\ \A j \in 1 .. k : j \in 1 .. n /\ j < k + 1
    BY <2>1
  <2>3. PICK w : w = t[k]
    OBVIOUS
  <2>4. CollectedOK(w, S, R, q, k)
    BY <1>6, <2>2, <2>3
  <2>5. \A j \in 1 .. k : <<q[j], q[k + 1]>> \in R
    BY <1>1, <2>2 DEF Ordered
  <2>6. q[k + 1] \in S
    BY <1>1, <2>2
  <2>7. CollectedOK(Collects(w, q[k + 1]), S, R, q, k + 1)
    BY <2>4, <2>5, <2>6, CollectStep
  <2>8. t[k + 1] = Collects(w, q[k + 1])
    BY <1>3, <2>2, <2>3
  <2>. QED BY <2>7, <2>8
<1>7. CollectedOK(buf, S, R, q, n)
  <2>1. n \in N
    <3> HIDE DEF N
    <3>. QED BY <1>5, <1>6, SetInduction
  <2>. QED BY <1>3, <2>1
<1>8. Firsts(q, n) = ToSet(q)
  BY <1>1 DEF Firsts, ToSet
<1>9. /\ buf \in Seq(S) /\ IsInjective(buf) /\ Len(buf) <= MaxActiveStates
      /\ ToSet(buf) \subseteq ToSet(q) /\ Ordered(R, buf)
      /\ Len(buf) < MaxActiveStates => ToSet(buf) = ToSet(q)
  BY <1>7, <1>8 DEF CollectedOK
<1>10. ASSUME Cardinality(ToSet(q)) <= MaxActiveStates PROVE ToSet(buf) = ToSet(q)
  <2>1. CASE Len(buf) < MaxActiveStates
    BY <1>9, <2>1
  <2>2. CASE ~(Len(buf) < MaxActiveStates)
    <3>1. IsFiniteSet(ToSet(q)) /\ Cardinality(ToSet(q)) \in Nat
      <4>1. IsFiniteSet(1 .. n)
        BY FS_Interval
      <4>2. q \in Surjection(1 .. n, ToSet(q))
        <5>1. q \in [1 .. n -> ToSet(q)]
          BY <1>1, LenProperties DEF ToSet
        <5>. QED BY <1>1, <5>1 DEF Surjection, ToSet
      <4>3. IsFiniteSet(ToSet(q))
        BY <4>1, <4>2, FS_Surjection
      <4>. QED BY <4>3, FS_CardinalityType
    <3>2. Cardinality(ToSet(buf)) = Len(buf) /\ Len(buf) \in Nat
      BY <1>9, InjectiveLength, LenProperties
    <3>3. Cardinality(ToSet(buf)) = Cardinality(ToSet(q))
      <4>1. Cardinality(ToSet(buf)) <= Cardinality(ToSet(q))
        BY <1>9, <3>1, FS_Subset
      <4>. QED BY <1>4, <1>10, <2>2, <3>1, <3>2, <4>1
    <3>. QED BY <1>9, <3>1, <3>3, FS_Subset
  <2>. QED BY <2>1, <2>2
<1>. QED BY <1>9, <1>10

\* x is the first of the n successors of q that a group may complete in, if any is.
FirstOf(m, q, n, x) ==
  \/ x = NoState /\ \A i \in 1 .. n : m.nonTerminal[q[i]]
  \/ \E k \in 1 .. n : /\ x = q[k] /\ ~m.nonTerminal[q[k]]
                       /\ \A i \in 1 .. k - 1 : m.nonTerminal[q[i]]

\* What is reported is the first successor a group may complete in.
LEMMA FirstAcceptedIs ==
  ASSUME NEW m, NEW S, NEW q \in Seq(S), NEW n \in Nat, n = Len(q), NEW x, x = FirstAccepted(m, q)
  PROVE  FirstOf(m, q, n, x)
<1> DEFINE I == {i \in 1 .. n : ~m.nonTerminal[q[i]]}
<1>1. I \in SUBSET Nat
  OBVIOUS
<1>2. PICK j : j = IF I # {} THEN Min(I) ELSE 0
  OBVIOUS
<1>3. x = IF j = 0 THEN NoState ELSE q[j]
  BY <1>2 DEF FirstAccepted, SelectInSeq
<1>4. CASE I = {}
  <2>1. x = NoState /\ \A i \in 1 .. n : m.nonTerminal[q[i]]
    BY <1>2, <1>3, <1>4
  <2>. QED BY <2>1 DEF FirstOf
<1>5. CASE I # {}
  <2>1. j \in I /\ \A i \in I : j <= i
    <3> HIDE DEF I
    <3>. QED BY <1>1, <1>2, <1>5, MinProperties
  <2>2. j \in 1 .. n /\ j # 0 /\ ~m.nonTerminal[q[j]]
    BY <2>1
  <2>3. \A i \in 1 .. j - 1 : m.nonTerminal[q[i]]
    <3>1. \A i \in 1 .. j - 1 : i \in 1 .. n /\ ~(j <= i)
      BY <2>2
    <3>. QED BY <2>1, <3>1
  <2>4. \E k \in 1 .. n : /\ x = q[k] /\ ~m.nonTerminal[q[k]]
                         /\ \A i \in 1 .. k - 1 : m.nonTerminal[q[i]]
    BY <1>3, <2>2, <2>3
  <2>. QED BY <2>4 DEF FirstOf
<1>. QED BY <1>4, <1>5
-----------------------------------------------------------------------------
(* The prefilter.                                                           *)

\* The outcome when there is no successor.
LEMMA NoOutcome ==
  ASSUME NEW m
  PROVE  Outcome(m, <<>>) = [next |-> NoStates, accepted |-> NoState]
<1>1. PICK q : q = <<>>
  OBVIOUS
<1>2. q \in Seq({}) /\ Len(q) = 0 /\ ToSet(q) = {} /\ Ordered({}, q)
  BY <1>1, EmptySeq DEF ToSet, Ordered
<1>3. PICK buf : buf = FoldLeft(Collects, <<>>, q)
  OBVIOUS
<1>4. buf \in Seq({}) /\ ToSet(buf) \subseteq ToSet(q)
  BY <1>2, <1>3, CollectedAll
<1>5. buf = <<>>
  BY <1>2, <1>4, NoElements
<1>6. PICK x : x = FirstAccepted(m, q)
  OBVIOUS
<1>7. x = NoState
  <2> DEFINE I == {i \in 1 .. Len(q) : ~m.nonTerminal[q[i]]}
  <2>1. I = {}
    BY <1>2
  <2>2. x = IF (IF I # {} THEN Min(I) ELSE 0) = 0 THEN NoState
            ELSE q[IF I # {} THEN Min(I) ELSE 0]
    BY <1>6 DEF FirstAccepted, SelectInSeq
  <2> HIDE DEF I
  <2>. QED BY <2>1, <2>2
<1>. QED BY <1>1, <1>3, <1>5, <1>6, <1>7 DEF Outcome, NoStates

\* The k start transitions of m are compiled from ts, and its filter is made of them.
StartsFrom(m, ts, k, r, h) ==
  /\ StartsOK(ts, k) /\ FilterOK(m.pf, ts, k, r, h) /\ Covers(m.pf, ts, k, h)
  /\ m.transitions[Start] \in Seq(Links) /\ Len(m.transitions[Start]) = k
  /\ \A i \in 1 .. k : m.transitions[Start][i].pattern = ts[i].pattern

\* So are those of every compiled machine.
LEMMA StartOf ==
  ASSUME NEW m, NEW sets, NEW n, NEW nodes, NEW c, Built(m, sets, n, nodes, c)
  PROVE  \E k, r, h \in Nat : \E ts : StartsFrom(m, ts, k, r, h)
<1>1. /\ n \in Nat /\ c \in Nat /\ c >= 1 /\ nodes \in Seq(Places(n)) /\ nodes[1] = <<0, StartName>>
      /\ \A i \in 0 .. c - 1 :
           /\ m.transitions[i] = CompiledTransitions(sets, nodes, nodes[i + 1])
           /\ m.transitions[i] \in Seq(Links)
      /\ m.pf = StartPrefilter(sets)
  BY BuiltTables
<1>2. sets \in Seq(StateSets) /\ n = Len(sets)
  BY DEF Built
<1>3. PICK tr \in Seq(Links) : tr = m.transitions[Start]
  <2>1. Start \in 0 .. c - 1
    BY <1>1 DEF Start
  <2>. QED BY <1>1, <2>1
<1>4. tr = CompiledTransitions(sets, nodes, <<0, StartName>>)
  <2>1. 0 \in 0 .. c - 1 /\ 0 + 1 = 1
    BY <1>1
  <2>2. m.transitions[0] = CompiledTransitions(sets, nodes, nodes[0 + 1])
    BY <1>1, <2>1
  <2>. QED BY <1>1, <1>3, <2>1, <2>2 DEF Start
<1>5. PICK ts \in Seq(Arrows) : ts = StartTransitions(sets)
  BY <1>1, <1>2, StartsAre
<1>6. PICK k \in Nat : k = Len(ts) /\ DOMAIN ts = 1 .. k /\ \A i \in 1 .. k : ts[i] \in Arrows
  BY LenProperties, ElementOfSeq
<1>7. StartsOK(ts, k)
  BY <1>6 DEF StartsOK, Arrows
<1>8. Related(SamePattern, ts, tr)
  BY <1>1, <1>2, <1>4, <1>5, StartPatterns
<1>9. Len(tr) = k /\ \A i \in 1 .. k : tr[i].pattern = ts[i].pattern
  BY <1>6, <1>8 DEF Related, SamePattern
<1>10. PICK r \in Nat, h \in Nat : FilterOK(m.pf, ts, k, r, h) /\ Covers(m.pf, ts, k, h)
  BY <1>1, <1>5, <1>7, PrefilterOK
<1>11. StartsFrom(m, ts, k, r, h)
  BY <1>3, <1>7, <1>9, <1>10 DEF StartsFrom
<1>. QED BY <1>11

\* From the start state alone, the successors are its targets.
LEMMA FromStart ==
  ASSUME NEW m, NEW l, m.transitions[Start] \in Seq(Links)
  PROVE  Successors(m, l, <<Start>>) = Targets(m.transitions[Start], l)
<1>1. PICK u \in Seq(Int) : u = Targets(m.transitions[Start], l)
  BY TargetsAre
<1>2. PICK G : G = [i \in {Start} |-> u]
  OBVIOUS
<1>3. Maps(G, {Start}, Int)
  BY <1>2 DEF Maps
<1>4. FlatMap(G, <<Start>>) = G[Start]
  BY <1>3, FlatMapSingle
<1>5. PICK s : s = <<Start>>
  OBVIOUS
<1>6. \A k \in DOMAIN s : s[k] = Start
  BY <1>5
<1>7. [k \in DOMAIN s |-> G[s[k]]] = [k \in DOMAIN s |-> Targets(m.transitions[s[k]], l)]
  BY <1>1, <1>2, <1>6
<1>8. FlatMap(G, s) = Successors(m, l, s)
  BY <1>7 DEF FlatMap, Successors
<1>. QED BY <1>1, <1>2, <1>4, <1>5, <1>8

\* Trying only the candidates gives what trying every start transition gives.
LEMMA CandidatesGive ==
  ASSUME NEW m, NEW sets, NEW n, NEW nodes, NEW c, Built(m, sets, n, nodes, c), NEW l \in Lines
  PROVE  StepStart(m, l) = Outcome(m, Successors(m, l, <<Start>>))
<1>0. PICK k \in Nat, r \in Nat, h \in Nat : \E ts : StartsFrom(m, ts, k, r, h)
  BY StartOf
<1>0a. PICK ts : StartsFrom(m, ts, k, r, h)
  BY <1>0
<1>1. /\ StartsOK(ts, k) /\ FilterOK(m.pf, ts, k, r, h) /\ Covers(m.pf, ts, k, h)
      /\ m.transitions[Start] \in Seq(Links) /\ Len(m.transitions[Start]) = k
      /\ \A i \in 1 .. k : m.transitions[Start][i].pattern = ts[i].pattern
  BY <1>0a DEF StartsFrom
<1>2. PICK tr \in Seq(Links) : tr = m.transitions[Start]
  BY <1>1
<1>3. DOMAIN tr = 1 .. k /\ \A i \in 1 .. k : tr[i].pattern = ts[i].pattern
  BY <1>1, <1>2, LenProperties
<1>4. PICK mask : mask = Scan(m.pf, Text(l))
  OBVIOUS
<1>5. ASSUME NEW i \in 1 .. k, ~Candidate(i, mask) PROVE Target(tr[i], l) = <<>>
  <2>1. i \notin mask /\ ~(i > WordBits)
    BY <1>5 DEF Candidate
  <2>2. WordBits \in Nat
    BY LiteralAssumption
  <2>3. i <= WordBits
    BY <2>1, <2>2
  <2>4. ~Matches(l, ts[i].pattern)
    BY <1>1, <1>4, <2>1, <2>3, CandidatesSuffice
  <2>. QED BY <1>3, <2>4 DEF Target
<1>6. Successors(m, l, <<Start>>) = Targets(tr, l)
  BY <1>2, FromStart
<1>7. [i \in DOMAIN tr |-> IF Candidate(i, mask) THEN Target(tr[i], l) ELSE <<>>]
        = [i \in DOMAIN tr |-> Target(tr[i], l)]
  BY <1>3, <1>5
<1>8. CASE mask = {} /\ ~m.pf.wide
  <2>1. k <= WordBits
    <3>1. m.pf.wide = (k > WordBits) /\ WordBits \in Nat
      BY <1>1, LiteralAssumption DEF FilterOK
    <3>2. ~(k > WordBits)
      BY <1>8, <3>1
    <3>. QED BY <3>1, <3>2
  <2>2. \A i \in 1 .. k : ~Candidate(i, mask)
    BY <1>8, <2>1, LiteralAssumption DEF Candidate
  <2>3. \A i \in 1 .. k : Target(tr[i], l) = <<>>
    BY <1>5, <2>2
  <2>4. ASSUME NEW y, y \in ToSet(Targets(tr, l)) PROVE FALSE
    <3>1. PICK t \in ToSet(tr) : Matches(l, t.pattern)
      BY <2>4, TargetsAre
    <3>2. PICK i \in 1 .. k : t = tr[i]
      BY <1>3 DEF ToSet
    <3>3. Target(tr[i], l) = <<t.next>>
      BY <3>1, <3>2 DEF Target
    <3>4. <<t.next>> # <<>>
      OBVIOUS
    <3>5. Target(tr[i], l) = <<>>
      BY <2>3
    <3>. QED BY <3>3, <3>4, <3>5
  <2>5. Targets(tr, l) = <<>>
    <3>1. Targets(tr, l) \in Seq(Int)
      BY TargetsAre
    <3>2. ToSet(Targets(tr, l)) = {}
      BY <2>4
    <3>. QED BY <3>1, <3>2, NoElements
  <2>6. StepStart(m, l) = [next |-> NoStates, accepted |-> NoState]
    BY <1>4, <1>8 DEF StepStart
  <2>. QED BY <1>6, <2>5, <2>6, NoOutcome
<1>9. CASE ~(mask = {} /\ ~m.pf.wide)
  <2>1. StepStart(m, l) = Outcome(m, FlattenSeq([i \in DOMAIN tr |->
                            IF Candidate(i, mask) THEN Target(tr[i], l) ELSE <<>>]))
    BY <1>2, <1>4, <1>9 DEF StepStart
  <2>2. Targets(tr, l) = FlattenSeq([i \in DOMAIN tr |-> Target(tr[i], l)])
    BY DEF Targets
  <2>. QED BY <1>6, <1>7, <2>1, <2>2
<1>. QED BY <1>8, <1>9

\* A step is what the successors of all active states come to.
LEMMA StepIs ==
  ASSUME NEW m, NEW sets, NEW n, NEW nodes, NEW c, Built(m, sets, n, nodes, c), NEW l \in Lines,
         NEW states
  PROVE  Step(m, l, states) = Outcome(m, Successors(m, l, states))
BY CandidatesGive DEF Step
-----------------------------------------------------------------------------
(* What a group may complete in.                                            *)

\* The entries of a state are the declarations that give it its transitions.
LEMMA MergedIs ==
  ASSUME NEW sets \in Seq(StateSets), NEW node
  PROVE  /\ \A d : d \in ToSet(Merged(sets, node)) <=>
                     d \in ToSet(Declarations(sets)) /\ PlaceOf(d) = node
         /\ Merged(sets, node) # <<>> => Merged(sets, node)[1] \in ToSet(Merged(sets, node))
<1>1. PICK n \in Nat : n = Len(sets)
  BY LenProperties
<1>2. PICK ds \in Seq(DeclSet(n)) : ds = Declarations(sets)
  BY <1>1, DeclarationsAre
<1>3. PICK E : E = Entries(sets, node)
  OBVIOUS
<1>4. \A d : d \in E <=> d \in ToSet(ds) /\ PlaceOf(d) = node
  BY <1>2, <1>3 DEF Entries, PlaceOf
<1>5. PICK G : G = [x \in DeclSet(n) |-> IF x \in E THEN <<x>> ELSE <<>>]
  OBVIOUS
<1>6. PICK ms : ms = Selected(ds, E)
  OBVIOUS
<1>7. Maps(G, DeclSet(n), DeclSet(n)) /\ ms = FlatMap(G, ds) /\ ms \in Seq(DeclSet(n))
  BY <1>5, <1>6, SelectedMaps
<1>8. \A y : y \in ToSet(ms) <=> \E x \in ToSet(ds) : y \in ToSet(G[x])
  BY <1>7, FlatMapElements
<1>9. ToSet(ds) \subseteq DeclSet(n)
  BY ElementsIn
<1>10. ASSUME NEW x \in ToSet(ds), NEW y PROVE y \in ToSet(G[x]) <=> y = x /\ x \in E
  <2>1. G[x] = IF x \in E THEN <<x>> ELSE <<>>
    BY <1>5, <1>9
  <2>2. ToSet(<<>>) = {} /\ ToSet(<<x>>) = {x}
    BY DEF ToSet
  <2>. QED BY <2>1, <2>2
<1>11. ASSUME NEW d PROVE d \in ToSet(ms) <=> d \in ToSet(ds) /\ PlaceOf(d) = node
  <2>1. d \in ToSet(ms) <=> \E x \in ToSet(ds) : d = x /\ x \in E
    BY <1>8, <1>10
  <2>. QED BY <1>4, <2>1
<1>12. ms # <<>> => ms[1] \in ToSet(ms)
  <2>1. ASSUME ms # <<>> PROVE 1 \in DOMAIN ms
    BY <1>7, <2>1, EmptySeq, LenProperties
  <2>. QED BY <2>1 DEF ToSet
<1>13. Merged(sets, node) = ms
  BY <1>2, <1>3, <1>6 DEF Merged
<1>. QED BY <1>2, <1>11, <1>12, <1>13

\* An index accepts exactly when its state is declared as one a group may complete in,
\* and its format is that of the set of the state.
LEMMA AcceptsTerminal ==
  ASSUME NEW m, NEW sets, NEW n, NEW nodes, NEW c, Built(m, sets, n, nodes, c), NEW i \in 0 .. c - 1
  PROVE  /\ m.nonTerminal[i] \in BOOLEAN /\ (~m.nonTerminal[i] <=> Terminal(sets, nodes[i + 1]))
         /\ m.format[i] = IF i = Start THEN NoName ELSE sets[nodes[i + 1][1]].name
         /\ i # Start => nodes[i + 1][1] \in 1 .. n /\ nodes[i + 1] # <<0, StartName>>
<1>1. /\ sets \in Seq(StateSets) /\ n = Len(sets) /\ ~Rejects(sets) /\ nodes = Nodes(sets)
      /\ c = Len(nodes) /\ m = Compiled(sets)
  BY DEF Built
<1>2. /\ n \in Nat /\ c \in Nat /\ c >= 1 /\ nodes \in Seq(Places(n)) /\ nodes[1] = <<0, StartName>>
      /\ \A h, j \in 1 .. c : nodes[h] = nodes[j] => h = j
      /\ \A p : p \in ToSet(nodes) <=>
           p = <<0, StartName>> \/ \E d \in ToSet(Declarations(sets)) : p = PlaceOf(d)
  BY BuiltTables
<1>3. PICK ds \in Seq(DeclSet(n)) : ds = Declarations(sets)
  BY <1>1, <1>2, DeclarationsAre
<1>4. ToSet(ds) \subseteq DeclSet(n)
  BY ElementsIn
<1>5. PICK node : node = nodes[i + 1]
  OBVIOUS
<1>6. /\ m.nonTerminal[i] = (i = Start \/ Merged(sets, node)[1].state.nonTerminal)
      /\ m.format[i] = IF i = Start THEN NoName ELSE sets[node[1]].name
  BY <1>1, <1>5 DEF Compiled
<1>7. CASE i = Start
  <2>1. i + 1 = 1
    BY <1>7 DEF Start
  <2>2. node = <<0, StartName>>
    BY <1>2, <1>5, <2>1
  <2>3. ~Terminal(sets, node)
    BY <2>2 DEF Terminal, NodeOf
  <2>. QED BY <1>5, <1>6, <1>7, <2>3
<1>8. CASE i # Start
  <2>1. i + 1 \in 1 .. c /\ 1 \in 1 .. c /\ i + 1 # 1
    BY <1>2, <1>8 DEF Start
  <2>2. node # <<0, StartName>>
    BY <1>2, <1>5, <2>1
  <2>3. node \in ToSet(nodes)
    BY <1>1, <1>2, <1>5, <2>1, LenProperties DEF ToSet
  <2>4. PICK e \in ToSet(ds) : node = PlaceOf(e)
    BY <1>2, <1>3, <2>2, <2>3
  <2>5. \A d \in ToSet(ds) : PlaceOf(d) = node =>
          d.state.name # StartName /\ d.set = e.set /\ d.state.name = e.state.name
    BY <2>2, <2>4 DEF PlaceOf, Scoped, NodeOf
  <2>6. \A d \in ToSet(ds) : PlaceOf(d) = node => d.state.nonTerminal = e.state.nonTerminal
    BY <1>1, <1>3, <2>5 DEF Rejects
  <2>7. PICK ms : ms = Merged(sets, node)
    OBVIOUS
  <2>8. /\ \A d : d \in ToSet(ms) <=> d \in ToSet(ds) /\ PlaceOf(d) = node
        /\ ms # <<>> => ms[1] \in ToSet(ms)
    BY <1>1, <1>3, <2>7, MergedIs
  <2>9. ms # <<>>
    BY <2>4, <2>8 DEF ToSet
  <2>10. ms[1].state.nonTerminal = e.state.nonTerminal
    BY <2>6, <2>8, <2>9
  <2>11. e.state.nonTerminal \in BOOLEAN /\ e.set \in 1 .. n
    <3>1. e \in DeclSet(n)
      BY <1>4
    <3>. QED BY <1>2, <3>1, DeclFields
  <2>12. m.nonTerminal[i] = e.state.nonTerminal
    BY <1>6, <1>8, <2>7, <2>10, <2>11
  <2>13. Terminal(sets, node) <=> ~e.state.nonTerminal
    <3>1. \A d : PlaceOf(d) = NodeOf(d.set, d.state.name)
      BY DEF PlaceOf, Scoped
    <3>. QED BY <1>3, <2>4, <2>5, <2>6, <3>1 DEF Terminal
  <2>14. node[1] = e.set
    BY <2>4, <2>5 DEF PlaceOf, Scoped, NodeOf
  <2>. QED BY <1>5, <1>6, <2>2, <2>11, <2>12, <2>13, <2>14
<1>. QED BY <1>7, <1>8
-----------------------------------------------------------------------------
(* The order of the successors.                                             *)

\* The set of the first index is declared no later than that of the second.
ByPlace(nodes, c) ==
  {p \in (0 .. c - 1) \X (0 .. c - 1) : nodes[p[1] + 1][1] <= nodes[p[2] + 1][1]}

\* No transition leads back to the start state.
NoReturn(m) == \A i \in DOMAIN m.transitions : \A t \in ToSet(m.transitions[i]) : t.next # Start

\* Unless it returns to the start state, a transition stays in the set it is declared in.
LEMMA StaysInSet ==
  ASSUME NEW m, NEW sets, NEW n, NEW nodes, NEW c, Built(m, sets, n, nodes, c),
         NEW d \in ToSet(Declarations(sets)), NEW a \in ToSet(d.state.transitions),
         NEW y, y = IndexOf(nodes, d.set, a.next), y # Start
  PROVE  y \in 0 .. c - 1 /\ nodes[y + 1][1] = d.set
<1>1. y \in 0 .. c - 1 /\ nodes[y + 1] = NodeOf(d.set, a.next)
  BY LeadsToNode
<1>2. /\ c \in Nat /\ nodes[1] = <<0, StartName>>
      /\ \A h, j \in 1 .. c : nodes[h] = nodes[j] => h = j
  BY BuiltTables
<1>3. y + 1 \in 1 .. c /\ 1 \in 1 .. c /\ y + 1 # 1
  BY <1>1, <1>2 DEF Start
<1>4. nodes[y + 1] # <<0, StartName>>
  BY <1>2, <1>3
<1>5. nodes[y + 1] = <<d.set, a.next>>
  BY <1>1, <1>4 DEF NodeOf
<1>. QED BY <1>1, <1>5

\* The targets of the start state come in the order of their sets.
LEMMA StartOrdered ==
  ASSUME NEW m, NEW sets, NEW n, NEW nodes, NEW c, Built(m, sets, n, nodes, c), NoReturn(m), NEW l
  PROVE  Ordered(ByPlace(nodes, c), Targets(m.transitions[Start], l))
<1>1. /\ n \in Nat /\ c \in Nat /\ c >= 1 /\ nodes \in Seq(Places(n)) /\ nodes[1] = <<0, StartName>>
      /\ DOMAIN m.transitions = 0 .. c - 1
      /\ \A i \in 0 .. c - 1 :
           /\ m.transitions[i] = CompiledTransitions(sets, nodes, nodes[i + 1])
           /\ m.transitions[i] \in Seq(Links)
  BY BuiltTables
<1>2. sets \in Seq(StateSets) /\ n = Len(sets)
  BY DEF Built
<1>3. Start \in 0 .. c - 1 /\ Start + 1 = 1
  BY <1>1 DEF Start
<1>4. PICK tr \in Seq(Links) : tr = m.transitions[Start]
  BY <1>1, <1>3
<1>5. PICK ds \in Seq(DeclSet(n)) : ds = Declarations(sets)
  BY <1>1, <1>2, DeclarationsAre
<1>6. Ordered(InOrder(n), ds)
  BY <1>1, <1>2, <1>5, DeclarationsAre
<1>7. PICK G : G = Given(n, nodes, nodes[Start + 1])
  OBVIOUS
<1>8. Maps(G, DeclSet(n), Links) /\ tr = FlatMap(G, ds)
  <2>1. tr = CompiledTransitions(sets, nodes, nodes[Start + 1])
    BY <1>1, <1>3, <1>4
  <2>. QED BY <1>1, <1>2, <1>5, <1>7, <2>1, GivenMaps, CompiledIs
<1>9. \A t : t \in ToSet(tr) <=> \E d \in ToSet(ds) : t \in ToSet(G[d])
  BY <1>8, FlatMapElements
<1>10. \A t \in ToSet(tr) : t.next # Start /\ t \in Links
  BY <1>1, <1>3, <1>4, ElementsIn DEF NoReturn
<1>11. ToSet(ds) \subseteq DeclSet(n)
  BY ElementsIn
<1>12. ASSUME NEW d \in ToSet(ds), NEW t \in ToSet(G[d])
       PROVE  t \in Links /\ t.next \in 0 .. c - 1 /\ nodes[t.next + 1][1] = d.set /\ d.set \in 1 .. n
  <2>1. t \in ToSet(tr)
    BY <1>9, <1>12
  <2>2. t.next # Start /\ t \in Links
    BY <1>10, <2>1
  <2>3. G[d] = IF Owned(d, nodes[Start + 1]) THEN Gives(nodes, d) ELSE <<>>
    BY <1>7, <1>11 DEF Given
  <2>4. ToSet(<<>>) = {}
    BY DEF ToSet
  <2>5. t \in ToSet(Gives(nodes, d))
    BY <1>12, <2>3, <2>4
  <2>6. PICK ts : ts = d.state.transitions
    OBVIOUS
  <2>7. PICK j \in DOMAIN ts :
          t = [pattern |-> ts[j].pattern, next |-> IndexOf(nodes, d.set, ts[j].next)]
    BY <2>5, <2>6 DEF Gives, ToSet
  <2>8. PICK a \in ToSet(ts) : t.next = IndexOf(nodes, d.set, a.next)
    BY <2>7 DEF ToSet
  <2>9. t.next \in 0 .. c - 1 /\ nodes[t.next + 1][1] = d.set
    BY <1>5, <2>2, <2>6, <2>8, StaysInSet
  <2>10. d \in DeclSet(n)
    BY <1>11
  <2>11. d.set \in 1 .. n
    BY <1>1, <2>10, DeclFields
  <2>. QED BY <2>2, <2>9, <2>11
<1>13. PICK Q : Q = {p \in Links \X Links : <<p[1].next, p[2].next>> \in ByPlace(nodes, c)}
  OBVIOUS
<1>14. ASSUME NEW d \in ToSet(ds), NEW e \in ToSet(ds), d.set <= e.set,
              NEW t \in ToSet(G[d]), NEW u \in ToSet(G[e])
       PROVE  <<t, u>> \in Q
  <2>1. /\ t \in Links /\ t.next \in 0 .. c - 1 /\ nodes[t.next + 1][1] = d.set
        /\ u \in Links /\ u.next \in 0 .. c - 1 /\ nodes[u.next + 1][1] = e.set
    BY <1>12
  <2>2. <<t.next, u.next>> \in ByPlace(nodes, c)
    BY <1>14, <2>1 DEF ByPlace
  <2>. QED BY <1>13, <2>1, <2>2
<1>15. \A d \in ToSet(ds) : Ordered(Q, G[d])
  <2>1. ASSUME NEW d \in ToSet(ds), NEW i \in 1 .. Len(G[d]), NEW j \in 1 .. Len(G[d])
        PROVE  <<G[d][i], G[d][j]>> \in Q
    <3>1. PICK gs \in Seq(Links) : gs = G[d]
      BY <1>8, <1>11 DEF Maps
    <3>2. gs[i] \in ToSet(gs) /\ gs[j] \in ToSet(gs)
      BY <2>1, <3>1, LenProperties DEF ToSet
    <3>3. d \in DeclSet(n)
      BY <1>11
    <3>4. d.set \in 1 .. n
      BY <1>1, <3>3, DeclFields
    <3>5. d.set <= d.set
      BY <3>4
    <3>. QED BY <1>14, <3>1, <3>2, <3>5
  <2>. QED BY <2>1 DEF Ordered
<1>16. \A d, e \in ToSet(ds) : <<d, e>> \in InOrder(n) =>
         \A t \in ToSet(G[d]), u \in ToSet(G[e]) : <<t, u>> \in Q
  BY <1>14 DEF InOrder
<1>17. Ordered(Q, tr)
  BY <1>6, <1>8, <1>15, <1>16, FlatMapOrdered
<1>18. PICK H : H = Hops(l)
  OBVIOUS
<1>19. Maps(H, Links, Int) /\ Targets(tr, l) = FlatMap(H, tr)
  BY <1>18, TargetsAre
<1>20. \A t \in ToSet(tr) : H[t] = <<t.next>> \/ H[t] = <<>>
  BY <1>10, <1>18 DEF Hops, Target
<1>21. \A t \in ToSet(tr) : Ordered(ByPlace(nodes, c), H[t])
  <2>1. \A x : Ordered(ByPlace(nodes, c), <<x>>)
    BY DEF Ordered
  <2>2. Ordered(ByPlace(nodes, c), <<>>)
    BY DEF Ordered
  <2>. QED BY <1>20, <2>1, <2>2
<1>22. ASSUME NEW t \in ToSet(tr), NEW u \in ToSet(tr), <<t, u>> \in Q,
              NEW x \in ToSet(H[t]), NEW y \in ToSet(H[u])
       PROVE  <<x, y>> \in ByPlace(nodes, c)
  <2>1. ToSet(<<>>) = {} /\ ToSet(<<t.next>>) = {t.next} /\ ToSet(<<u.next>>) = {u.next}
    BY ShortSets
  <2>2. x = t.next /\ y = u.next
    BY <1>20, <2>1
  <2>3. <<t.next, u.next>> \in ByPlace(nodes, c)
    BY <1>13, <1>22
  <2>. QED BY <2>2, <2>3
<1>23. Ordered(ByPlace(nodes, c), FlatMap(H, tr))
  BY <1>17, <1>19, <1>21, <1>22, FlatMapOrdered
<1>. QED BY <1>4, <1>19, <1>23

\* So do the successors of states that come in it, and the start state is none of them.
LEMMA SuccessorsOrdered ==
  ASSUME NEW m, NEW sets, NEW n, NEW nodes, NEW c, Built(m, sets, n, nodes, c), NoReturn(m), NEW l,
         NEW states \in Seq(0 .. c - 1), Ordered(ByPlace(nodes, c), states),
         states = <<Start>> \/ Start \notin ToSet(states)
  PROVE  /\ Ordered(ByPlace(nodes, c), Successors(m, l, states))
         /\ Start \notin ToSet(Successors(m, l, states))
<1>1. /\ n \in Nat /\ c \in Nat /\ c >= 1 /\ nodes \in Seq(Places(n)) /\ nodes[1] = <<0, StartName>>
      /\ \A h, j \in 1 .. c : nodes[h] = nodes[j] => h = j
      /\ DOMAIN m.transitions = 0 .. c - 1
      /\ \A i \in 0 .. c - 1 :
           /\ m.transitions[i] = CompiledTransitions(sets, nodes, nodes[i + 1])
           /\ m.transitions[i] \in Seq(Links)
  BY BuiltTables
<1>2. sets \in Seq(StateSets) /\ n = Len(sets)
  BY DEF Built
<1>3. PICK M : M = Moves(m, l)
  OBVIOUS
<1>4. Maps(M, 0 .. c - 1, 0 .. c - 1) /\ Successors(m, l, states) = FlatMap(M, states)
  BY <1>3, SuccessorsAre
<1>5. \A y : y \in ToSet(FlatMap(M, states)) <=> \E i \in ToSet(states) : y \in ToSet(M[i])
  BY <1>4, FlatMapElements
<1>6. ToSet(states) \subseteq 0 .. c - 1
  BY ElementsIn
<1>7. ASSUME NEW i \in 0 .. c - 1, NEW y \in ToSet(M[i])
      PROVE  /\ y # Start
             /\ i # Start => y \in 0 .. c - 1 /\ nodes[y + 1][1] = nodes[i + 1][1]
  <2>1. PICK ts \in Seq(Links) : ts = m.transitions[i] /\ M[i] = Targets(ts, l)
    BY <1>1, <1>3 DEF Moves
  <2>2. PICK t \in ToSet(ts) : y = t.next
    BY <1>7, <2>1, TargetsAre
  <2>3. y # Start
    BY <1>1, <2>1, <2>2 DEF NoReturn
  <2>4. \E d \in ToSet(Declarations(sets)) : Owned(d, nodes[i + 1]) /\
          \E a \in ToSet(d.state.transitions) :
            t = [pattern |-> a.pattern, next |-> IndexOf(nodes, d.set, a.next)]
    BY <1>1, <1>2, <2>1, CompiledLinks
  <2>5. PICK d, a : /\ d \in ToSet(Declarations(sets)) /\ Owned(d, nodes[i + 1])
                    /\ a \in ToSet(d.state.transitions) /\ y = IndexOf(nodes, d.set, a.next)
    BY <2>2, <2>4
  <2>6. y \in 0 .. c - 1 /\ nodes[y + 1][1] = d.set
    BY <2>3, <2>5, StaysInSet
  <2>7. ASSUME i # Start PROVE nodes[i + 1][1] = d.set
    <3>1. i + 1 \in 1 .. c /\ 1 \in 1 .. c /\ i + 1 # 1
      BY <1>1, <2>7 DEF Start
    <3>2. nodes[i + 1] # <<0, StartName>>
      BY <1>1, <3>1
    <3>3. nodes[i + 1] = NodeOf(d.set, d.state.name)
      BY <2>5 DEF Owned, Scoped
    <3>. QED BY <3>2, <3>3 DEF NodeOf
  <2>. QED BY <2>3, <2>6, <2>7
<1>8. Start \notin ToSet(Successors(m, l, states))
  BY <1>4, <1>5, <1>6, <1>7
<1>9. CASE states = <<Start>>
  <2>1. m.transitions[Start] \in Seq(Links)
    BY <1>1 DEF Start
  <2>2. Successors(m, l, states) = Targets(m.transitions[Start], l)
    BY <1>9, <2>1, FromStart
  <2>. QED BY <1>8, <2>2, StartOrdered
<1>10. CASE Start \notin ToSet(states)
  <2>1. PICK R : R = ByPlace(nodes, c)
    OBVIOUS
  <2>2. \A i \in 0 .. c - 1 : nodes[i + 1][1] \in Int
    <3>1. c = Len(nodes)
      BY DEF Built
    <3>2. \A j \in 1 .. c : nodes[j] \in Places(n)
      BY <1>1, <3>1, ElementOfSeq
    <3>3. \A p \in Places(n) : p[1] \in Int
      BY <1>1 DEF Places
    <3>4. \A i \in 0 .. c - 1 : i + 1 \in 1 .. c
      BY <1>1
    <3>. QED BY <3>2, <3>3, <3>4
  <2>3. ASSUME NEW i \in ToSet(states), NEW j \in ToSet(states), nodes[i + 1][1] <= nodes[j + 1][1],
               NEW u \in ToSet(M[i]), NEW v \in ToSet(M[j])
        PROVE  <<u, v>> \in R
    <3>1. i \in 0 .. c - 1 /\ j \in 0 .. c - 1 /\ i # Start /\ j # Start
      BY <1>6, <1>10
    <3>2. /\ u \in 0 .. c - 1 /\ nodes[u + 1][1] = nodes[i + 1][1]
          /\ v \in 0 .. c - 1 /\ nodes[v + 1][1] = nodes[j + 1][1]
      BY <1>7, <3>1
    <3>. QED BY <2>1, <2>3, <3>2 DEF ByPlace
  <2>4. \A i \in ToSet(states) : Ordered(R, M[i])
    <3>1. ASSUME NEW i \in ToSet(states), NEW h \in 1 .. Len(M[i]), NEW j \in 1 .. Len(M[i])
          PROVE  <<M[i][h], M[i][j]>> \in R
      <4>1. PICK s \in Seq(0 .. c - 1) : s = M[i]
        BY <1>4, <1>6 DEF Maps
      <4>2. s[h] \in ToSet(s) /\ s[j] \in ToSet(s)
        BY <3>1, <4>1, LenProperties DEF ToSet
      <4>3. nodes[i + 1][1] <= nodes[i + 1][1]
        BY <1>6, <2>2
      <4>. QED BY <2>3, <4>1, <4>2, <4>3
    <3>. QED BY <3>1 DEF Ordered
  <2>5. \A i, j \in ToSet(states) : <<i, j>> \in R =>
          \A u \in ToSet(M[i]), v \in ToSet(M[j]) : <<u, v>> \in R
    BY <2>1, <2>3 DEF ByPlace
  <2>6. Ordered(R, states)
    BY <2>1
  <2>7. Ordered(R, FlatMap(M, states))
    BY <1>4, <2>4, <2>5, <2>6, FlatMapOrdered
  <2>. QED BY <1>4, <1>8, <2>1, <2>7
<1>. QED BY <1>9, <1>10
-----------------------------------------------------------------------------
(* The outcome of a line.                                                   *)

\* The names a sequence of indices stands for.
NamesOf(nodes, s) == {nodes[i + 1] : i \in ToSet(s)}

\* A set of active states: indices, none twice, no more than may be kept.
ActiveOK(c, s) == s \in Seq(0 .. c - 1) /\ IsInjective(s) /\ Len(s) <= MaxActiveStates

\* What is reported is a state the line landed in that a group may complete in, with the
\* format of its set, or there is none.
ReportOK(m, sets, nodes, c, to, x) ==
  /\ x \in (0 .. c - 1) \union {NoState}
  /\ x = NoState <=> \A p \in to : ~Terminal(sets, p)
  /\ x # NoState => /\ nodes[x + 1] \in to /\ Terminal(sets, nodes[x + 1])
                    /\ m.format[x] = sets[nodes[x + 1][1]].name

\* The states come in the order of their sets, and the start state only alone.
PlacedOK(nodes, c, s) ==
  Ordered(ByPlace(nodes, c), s) /\ (s = <<Start>> \/ Start \notin ToSet(s))

\* No set before that of the reported state has a state the group may complete in.
FirstOK(sets, nodes, to, x) ==
  x # NoState => \A p \in to : Terminal(sets, p) => nodes[x + 1][1] <= p[1]

\* The reported state.
LEMMA Reported ==
  ASSUME NEW m, NEW sets, NEW n, NEW nodes, NEW c, Built(m, sets, n, nodes, c),
         NEW q \in Seq(0 .. c - 1), NEW x, x = FirstAccepted(m, q)
  PROVE  /\ ReportOK(m, sets, nodes, c, NamesOf(nodes, q), x)
         /\ Ordered(ByPlace(nodes, c), q) => FirstOK(sets, nodes, NamesOf(nodes, q), x)
<1>1. n \in Nat /\ c \in Nat /\ c >= 1 /\ nodes \in Seq(Places(n))
  BY BuiltTables
<1>2. PICK k \in Nat : k = Len(q) /\ DOMAIN q = 1 .. k /\ \A i \in 1 .. k : q[i] \in 0 .. c - 1
  BY LenProperties, ElementOfSeq
<1>3. \A p : p \in NamesOf(nodes, q) <=> \E i \in 1 .. k : p = nodes[q[i] + 1]
  BY <1>2 DEF NamesOf, ToSet
<1>4. ASSUME NEW i \in 1 .. k
      PROVE  /\ ~m.nonTerminal[q[i]] <=> Terminal(sets, nodes[q[i] + 1])
             /\ nodes[q[i] + 1] \in NamesOf(nodes, q)
             /\ ~m.nonTerminal[q[i]] => m.format[q[i]] = sets[nodes[q[i] + 1][1]].name
  <2>1. PICK y \in 0 .. c - 1 : y = q[i]
    BY <1>2
  <2>2. /\ m.nonTerminal[y] \in BOOLEAN /\ (~m.nonTerminal[y] <=> Terminal(sets, nodes[y + 1]))
        /\ m.format[y] = IF y = Start THEN NoName ELSE sets[nodes[y + 1][1]].name
    BY AcceptsTerminal
  <2>3. Terminal(sets, nodes[y + 1]) => y # Start
    <3>1. ~Terminal(sets, <<0, StartName>>)
      BY DEF Terminal, NodeOf
    <3>2. nodes[0 + 1] = <<0, StartName>>
      BY BuiltTables
    <3>. QED BY <3>1, <3>2 DEF Start
  <2>. QED BY <1>3, <2>1, <2>2, <2>3
<1>5. \/ x = NoState /\ \A i \in 1 .. k : m.nonTerminal[q[i]]
      \/ \E j \in 1 .. k : /\ x = q[j] /\ ~m.nonTerminal[q[j]]
                           /\ \A i \in 1 .. j - 1 : m.nonTerminal[q[i]]
  <2>1. FirstOf(m, q, k, x)
    BY <1>2, FirstAcceptedIs
  <2>. QED BY <2>1 DEF FirstOf
<1>6. NoState \notin 0 .. c - 1
  BY DEF NoState
<1>7. CASE x = NoState /\ \A i \in 1 .. k : m.nonTerminal[q[i]]
  <2>1. \A p \in NamesOf(nodes, q) : ~Terminal(sets, p)
    BY <1>3, <1>4, <1>7
  <2>. QED BY <1>7, <2>1 DEF ReportOK, FirstOK
<1>8. CASE \E j \in 1 .. k : /\ x = q[j] /\ ~m.nonTerminal[q[j]]
                             /\ \A i \in 1 .. j - 1 : m.nonTerminal[q[i]]
  <2>1. PICK j \in 1 .. k : /\ x = q[j] /\ ~m.nonTerminal[q[j]]
                            /\ \A i \in 1 .. j - 1 : m.nonTerminal[q[i]]
    BY <1>8
  <2>2. /\ x \in 0 .. c - 1 /\ x # NoState /\ nodes[x + 1] \in NamesOf(nodes, q)
        /\ Terminal(sets, nodes[x + 1]) /\ m.format[x] = sets[nodes[x + 1][1]].name
    BY <1>2, <1>4, <1>6, <2>1
  <2>3. ReportOK(m, sets, nodes, c, NamesOf(nodes, q), x)
    BY <2>2 DEF ReportOK
  <2>4. ASSUME Ordered(ByPlace(nodes, c), q), NEW p \in NamesOf(nodes, q), Terminal(sets, p)
        PROVE  nodes[x + 1][1] <= p[1]
    <3>1. PICK i \in 1 .. k : p = nodes[q[i] + 1]
      BY <1>3
    <3>2. ~m.nonTerminal[q[i]]
      BY <1>4, <2>4, <3>1
    <3>3. ~(i \in 1 .. j - 1)
      BY <2>1, <3>2
    <3>4. CASE i = j
      <4>1. x + 1 \in 1 .. c /\ c = Len(nodes)
        BY <1>1, <2>2 DEF Built
      <4>2. nodes[x + 1] \in Places(n)
        BY <1>1, <4>1, ElementOfSeq
      <4>3. nodes[x + 1][1] \in 0 .. n
        BY <4>2 DEF Places
      <4>4. nodes[x + 1][1] <= nodes[x + 1][1]
        BY <1>1, <4>3
      <4>. QED BY <2>1, <3>1, <3>4, <4>4
    <3>5. CASE j < i
      <4>1. <<q[j], q[i]>> \in ByPlace(nodes, c)
        BY <1>2, <2>4, <3>5 DEF Ordered
      <4>. QED BY <2>1, <3>1, <4>1 DEF ByPlace
    <3>. QED BY <3>3, <3>4, <3>5
  <2>. QED BY <2>3, <2>4 DEF FirstOK
<1>. QED BY <1>5, <1>7, <1>8

\* What a line does to the active states: the indices that are kept stand for states the
\* declarations lead to, all of them when there are no more than may be kept.
Landing(m, sets, nodes, c, l, states, next, x, to) ==
  /\ to = DeclaredNext(sets, NamesOf(nodes, states), l)
  /\ ActiveOK(c, next) /\ NamesOf(nodes, next) \subseteq to
  /\ Cardinality(ToSet(Successors(m, l, states))) <= MaxActiveStates => NamesOf(nodes, next) = to
  /\ ReportOK(m, sets, nodes, c, to, x)
  /\ NoReturn(m) /\ PlacedOK(nodes, c, states) => PlacedOK(nodes, c, next) /\ FirstOK(sets, nodes, to, x)

\* A step of the machine is such a landing.
LEMMA StepLands ==
  ASSUME NEW m, NEW sets, NEW n, NEW nodes, NEW c, Built(m, sets, n, nodes, c), NEW l \in Lines,
         NEW states \in Seq(0 .. c - 1), NEW to, to = DeclaredNext(sets, NamesOf(nodes, states), l),
         NEW step, step = Step(m, l, states)
  PROVE  Landing(m, sets, nodes, c, l, states, step.next, step.accepted, to)
<1>1. PICK q : q = Successors(m, l, states)
  OBVIOUS
<1>2. q \in Seq(0 .. c - 1) /\ NamesOf(nodes, q) = to
  BY <1>1, SuccessorsAre DEF NamesOf
<1>3. PICK next, x : next = FoldLeft(Collects, <<>>, q) /\ x = FirstAccepted(m, q)
  OBVIOUS
<1>4. step.next = next /\ step.accepted = x
  <2>1. step = Outcome(m, q)
    BY <1>1, StepIs
  <2>. QED BY <1>3, <2>1 DEF Outcome
<1>5. ReportOK(m, sets, nodes, c, to, x) /\ (Ordered(ByPlace(nodes, c), q) => FirstOK(sets, nodes, to, x))
  BY <1>2, <1>3, Reported
<1>6. PICK R : Ordered(R, q)
  <2> SUFFICES Ordered((0 .. c - 1) \X (0 .. c - 1), q)
    OBVIOUS
  <2>1. \A i \in 1 .. Len(q) : q[i] \in 0 .. c - 1
    BY <1>2, ElementOfSeq
  <2>. QED BY <2>1 DEF Ordered
<1>7. /\ next \in Seq(0 .. c - 1) /\ IsInjective(next) /\ Len(next) <= MaxActiveStates
      /\ ToSet(next) \subseteq ToSet(q) /\ Ordered(R, next)
      /\ Cardinality(ToSet(q)) <= MaxActiveStates => ToSet(next) = ToSet(q)
  BY <1>2, <1>3, <1>6, CollectedAll
<1>8. ActiveOK(c, next) /\ NamesOf(nodes, next) \subseteq to
  BY <1>2, <1>7 DEF ActiveOK, NamesOf
<1>9. Cardinality(ToSet(q)) <= MaxActiveStates => NamesOf(nodes, next) = to
  BY <1>2, <1>7 DEF NamesOf
<1>10. ASSUME NoReturn(m), PlacedOK(nodes, c, states)
       PROVE  PlacedOK(nodes, c, next) /\ FirstOK(sets, nodes, to, x)
  <2>1. Ordered(ByPlace(nodes, c), q) /\ Start \notin ToSet(q)
    BY <1>1, <1>10, SuccessorsOrdered DEF PlacedOK
  <2>2. Ordered(ByPlace(nodes, c), next)
    BY <1>2, <1>3, <2>1, CollectedAll
  <2>. QED BY <1>5, <1>7, <2>1, <2>2 DEF PlacedOK
<1>. QED BY <1>1, <1>4, <1>5, <1>8, <1>9, <1>10 DEF Landing
-----------------------------------------------------------------------------
(* The inductive invariant.                                                 *)

\* The machine is what the declared sets are compiled to.
CompiledInv == declared \in Menu /\ ~Rejects(declared) /\ machine = Compiled(declared)

\* A group with the active states s: they stand for states a reading of the sets has
\* reached, `now`, for all of them unless `over`; x is what the last line reported of the
\* states it landed in, `to`.
GroupOK(m, sets, nodes, c, s, now, over, to, x) ==
  /\ ActiveOK(c, s)
  /\ NamesOf(nodes, s) \subseteq now /\ (~over => NamesOf(nodes, s) = now)
  /\ ReportOK(m, sets, nodes, c, to, x)
  /\ NoReturn(m) => PlacedOK(nodes, c, s) /\ FirstOK(sets, nodes, to, x)

\* What is known of the group that is being matched.
GroupInv ==
  GroupOK(machine, declared, Nodes(declared), Len(Nodes(declared)),
          active, reached, excess, landed, accepted)

\* Before a machine is compiled nothing is active and nothing is reported; then the
\* active states and what is reported are as above.
MachineInv ==
  /\ outcome = "none" => accepted = NoState /\ landed = {}
  /\ outcome # "ok" => active = NoStates
  /\ outcome = "ok" => CompiledInv /\ GroupInv
\* The compiled machine is built from the sets of the menu.
LEMMA CompiledBuilt ==
  ASSUME NEW sets \in Menu, ~Rejects(sets), NEW m, m = Compiled(sets)
  PROVE  Built(m, sets, Len(sets), Nodes(sets), Len(Nodes(sets)))
BY MachineAssumption DEF Built

\* A group starts in the start state, and nothing is reported of it yet.
LEMMA FreshGroup ==
  ASSUME NEW m, NEW sets, NEW n, NEW nodes, NEW c, Built(m, sets, n, nodes, c), NEW over
  PROVE  GroupOK(m, sets, nodes, c, <<Start>>, {NodeOf(0, StartName)}, over, {}, NoState)
<1>1. c \in Nat /\ c >= 1 /\ nodes[1] = <<0, StartName>>
  BY BuiltTables
<1>2. PICK s : s = <<Start>>
  OBVIOUS
<1>3. Start \in 0 .. c - 1 /\ Start + 1 = 1
  BY <1>1 DEF Start
<1>4. s \in Seq(0 .. c - 1) /\ Len(s) = 1 /\ ToSet(s) = {Start}
  BY <1>2, <1>3, ShortSets
<1>5. IsInjective(s)
  BY <1>2 DEF IsInjective
<1>6. ActiveOK(c, s)
  BY <1>4, <1>5, MachineAssumption DEF ActiveOK
<1>7. NamesOf(nodes, s) = {NodeOf(0, StartName)}
  BY <1>1, <1>3, <1>4 DEF NamesOf, NodeOf
<1>8. ReportOK(m, sets, nodes, c, {}, NoState) /\ FirstOK(sets, nodes, {}, NoState)
  BY DEF ReportOK, FirstOK
<1>9. PlacedOK(nodes, c, s)
  BY <1>2, <1>4 DEF PlacedOK, Ordered
<1>. QED BY <1>2, <1>6, <1>7, <1>8, <1>9 DEF GroupOK

\* A group goes on.
LEMMA NextGroup ==
  ASSUME NEW m, NEW sets, NEW n, NEW nodes, NEW c, Built(m, sets, n, nodes, c), NEW l \in Lines,
         NEW s, NEW now, NEW over, NEW was, NEW x, GroupOK(m, sets, nodes, c, s, now, over, was, x),
         NEW step, step = Step(m, l, s), NEW to, to = DeclaredNext(sets, NamesOf(nodes, s), l),
         NEW more, more = (over \/ Cardinality(ToSet(Successors(m, l, s))) > MaxActiveStates)
  PROVE  GroupOK(m, sets, nodes, c, step.next, DeclaredNext(sets, now, l), more, to, step.accepted)
<1>1. /\ s \in Seq(0 .. c - 1) /\ NamesOf(nodes, s) \subseteq now /\ (~over => NamesOf(nodes, s) = now)
      /\ NoReturn(m) => PlacedOK(nodes, c, s)
  BY DEF GroupOK, ActiveOK
<1>2. PICK next, y : next = step.next /\ y = step.accepted
  OBVIOUS
<1>3. Landing(m, sets, nodes, c, l, s, next, y, to)
  BY <1>1, <1>2, StepLands
<1>4. PICK k : k = Cardinality(ToSet(Successors(m, l, s)))
  OBVIOUS
<1>5. /\ ActiveOK(c, next) /\ NamesOf(nodes, next) \subseteq to
      /\ k <= MaxActiveStates => NamesOf(nodes, next) = to
      /\ ReportOK(m, sets, nodes, c, to, y)
      /\ NoReturn(m) => PlacedOK(nodes, c, next) /\ FirstOK(sets, nodes, to, y)
  BY <1>1, <1>3, <1>4 DEF Landing
<1>6. k \in Nat /\ MaxActiveStates \in Nat
  <2>1. PICK q \in Seq(0 .. c - 1) : q = Successors(m, l, s)
    BY <1>1, SuccessorsAre
  <2>2. ToSet(q) \subseteq 0 .. c - 1 /\ c \in Nat
    BY ElementsIn, BuiltTables
  <2>3. IsFiniteSet(0 .. c - 1)
    <3>1. 0 \in Int /\ c - 1 \in Int
      BY <2>2
    <3>. QED BY <3>1, FS_Interval
  <2>4. IsFiniteSet(ToSet(q))
    BY <2>2, <2>3, FS_Subset
  <2>. QED BY <1>4, <2>1, <2>4, FS_CardinalityType, MachineAssumption
<1>7. to \subseteq DeclaredNext(sets, now, l)
  BY <1>1 DEF DeclaredNext
<1>8. ASSUME ~more PROVE NamesOf(nodes, next) = DeclaredNext(sets, now, l)
  <2>1. ~over /\ ~(k > MaxActiveStates)
    BY <1>4, <1>8
  <2>2. k <= MaxActiveStates
    BY <1>6, <2>1
  <2>. QED BY <1>1, <1>5, <2>1, <2>2
<1>9. NamesOf(nodes, next) \subseteq DeclaredNext(sets, now, l)
  BY <1>5, <1>7
<1>. QED BY <1>2, <1>5, <1>8, <1>9 DEF GroupOK

\* The names of the active indices.
LEMMA NamedIs == Named(active) = NamesOf(Nodes(declared), active)
BY DEF Named, NamesOf, ToSet

\* Nothing is active and nothing is reported at first.
LEMMA MachineInit == Init => MachineInv
BY DEF Init, MachineInv

\* Compiling starts a group, or is an error that leaves nothing active.
LEMMA CompileKeeps ==
  ASSUME MachineInv, NEW sets \in Menu, CompileSets(sets)
  PROVE  MachineInv'
<1>1. outcome = "none" /\ active = NoStates /\ accepted = NoState /\ landed = {}
  BY DEF MachineInv, CompileSets
<1>2. CASE Rejects(sets)
  BY <1>1, <1>2 DEF CompileSets, MachineInv
<1>3. CASE ~Rejects(sets)
  <2>1. /\ outcome' = "ok" /\ declared' = sets /\ machine' = Compiled(sets) /\ active' = <<Start>>
        /\ reached' = {NodeOf(0, StartName)} /\ accepted' = NoState /\ landed' = {}
    BY <1>1, <1>3 DEF CompileSets
  <2>2. Built(machine', sets, Len(sets), Nodes(sets), Len(Nodes(sets)))
    BY <1>3, <2>1, CompiledBuilt
  <2>3. GroupOK(machine', sets, Nodes(sets), Len(Nodes(sets)), <<Start>>, {NodeOf(0, StartName)},
                excess', {}, NoState)
    BY <2>2, FreshGroup
  <2>4. CompiledInv' /\ GroupInv'
    BY <1>3, <2>1, <2>3 DEF CompiledInv, GroupInv
  <2>. QED BY <2>1, <2>4 DEF MachineInv
<1>. QED BY <1>2, <1>3

\* A line takes the group on.
LEMMA FeedKeeps ==
  ASSUME MachineInv, NEW l \in Lines, Feed(l)
  PROVE  MachineInv'
<1>1. outcome = "ok" /\ CompiledInv /\ GroupInv
  BY DEF MachineInv, Feed
<1>2. PICK nodes, c : nodes = Nodes(declared) /\ c = Len(Nodes(declared))
  OBVIOUS
<1>3. Built(machine, declared, Len(declared), nodes, c)
  BY <1>1, <1>2, CompiledBuilt DEF CompiledInv
<1>4. GroupOK(machine, declared, nodes, c, active, reached, excess, landed, accepted)
  BY <1>1, <1>2 DEF GroupInv
<1>5. PICK step : step = Step(machine, l, active)
  OBVIOUS
<1>6. /\ declared' = declared /\ machine' = machine /\ outcome' = outcome
      /\ active' = step.next /\ accepted' = step.accepted
      /\ excess' = (excess \/ Cardinality(ToSet(Successors(machine, l, active))) > MaxActiveStates)
      /\ landed' = DeclaredNext(declared, NamesOf(nodes, active), l)
      /\ reached' = DeclaredNext(declared, reached, l)
  BY <1>2, <1>5, NamedIs DEF Feed
<1>7. GroupOK(machine, declared, nodes, c, step.next, reached', excess', landed', step.accepted)
  BY <1>3, <1>4, <1>5, <1>6, NextGroup
<1>8. CompiledInv' /\ GroupInv'
  BY <1>1, <1>2, <1>6, <1>7 DEF CompiledInv, GroupInv
<1>. QED BY <1>1, <1>6, <1>8 DEF MachineInv

\* The next group starts.
LEMMA RestartKeeps ==
  ASSUME MachineInv, Restart
  PROVE  MachineInv'
<1>1. outcome = "ok" /\ CompiledInv
  BY DEF MachineInv, Restart
<1>2. /\ outcome' = "ok" /\ declared' = declared /\ machine' = machine /\ active' = <<Start>>
      /\ reached' = {NodeOf(0, StartName)} /\ accepted' = NoState /\ landed' = {}
  BY <1>1 DEF Restart
<1>3. Built(machine, declared, Len(declared), Nodes(declared), Len(Nodes(declared)))
  BY <1>1, CompiledBuilt DEF CompiledInv
<1>4. GroupOK(machine, declared, Nodes(declared), Len(Nodes(declared)), <<Start>>,
              {NodeOf(0, StartName)}, excess', {}, NoState)
  BY <1>3, FreshGroup
<1>5. CompiledInv' /\ GroupInv'
  BY <1>1, <1>2, <1>4 DEF CompiledInv, GroupInv
<1>. QED BY <1>2, <1>5 DEF MachineInv

\* Every step keeps the invariant.
LEMMA MachineNext ==
  ASSUME MachineInv, [Next]_vars
  PROVE  MachineInv'
<1>1. ASSUME NEW sets \in Menu, CompileSets(sets) PROVE MachineInv'
  BY <1>1, CompileKeeps
<1>2. ASSUME NEW l \in Lines, Feed(l) PROVE MachineInv'
  BY <1>2, FeedKeeps
<1>3. CASE Restart
  BY <1>3, RestartKeeps
<1>4. CASE UNCHANGED vars
  BY <1>4 DEF vars, MachineInv, CompiledInv, GroupInv
<1>. QED BY <1>1, <1>2, <1>3, <1>4 DEF Next

\* The invariant of the matcher: once Compile has succeeded the machine is what the sets
\* are compiled to, the active indices stand for what a reading of the sets has reached,
\* and what Step reports is one of the states the line landed in.
THEOREM MachineCorrect == Spec => []MachineInv
<1>1. Init => MachineInv
  BY MachineInit
<1>2. MachineInv /\ [Next]_vars => MachineInv'
  BY MachineNext
<1>. QED BY <1>1, <1>2, PTL DEF Spec
-----------------------------------------------------------------------------
(* The properties of the matcher.                                           *)

\* After Compile the tables are those of the declared sets, over the numbered states.
LEMMA Compiles ==
  ASSUME MachineInv, outcome = "ok", NEW nodes, nodes = Nodes(declared), NEW c, c = Len(nodes)
  PROVE  /\ Built(machine, declared, Len(declared), nodes, c) /\ c \in Nat /\ Index = 0 .. c - 1
         /\ GroupOK(machine, declared, nodes, c, active, reached, excess, landed, accepted)
<1>1. CompiledInv /\ GroupInv
  BY DEF MachineInv
<1>2. Built(machine, declared, Len(declared), nodes, c)
  BY <1>1, CompiledBuilt DEF CompiledInv
<1>3. c \in Nat /\ DOMAIN machine.transitions = 0 .. c - 1
  BY <1>2, BuiltTables
<1>. QED BY <1>1, <1>2, <1>3 DEF GroupInv, Index

\* The machine of the last successful Compile is well formed, and what a group is in and
\* what the last line reported are indices of it (Compile, Step).
THEOREM MachineTypes == Spec => []MachineTypeOK
<1>1. ASSUME MachineInv, outcome = "ok"
      PROVE  /\ machine.format \in [Index -> {s.name : s \in ToSet(declared)} \union {NoName}]
             /\ machine.nonTerminal \in [Index -> BOOLEAN]
             /\ \A i \in Index : \A t \in ToSet(machine.transitions[i]) : t.next \in Index
             /\ active \in Seq(Index) /\ IsInjective(active) /\ Len(active) <= MaxActiveStates
             /\ accepted \in Index \union {NoState}
  <2>1. PICK nodes, c : nodes = Nodes(declared) /\ c = Len(nodes)
    OBVIOUS
  <2>2. /\ Built(machine, declared, Len(declared), nodes, c) /\ c \in Nat /\ Index = 0 .. c - 1
        /\ GroupOK(machine, declared, nodes, c, active, reached, excess, landed, accepted)
    BY <1>1, <2>1, Compiles
  <2>3. declared \in Seq(StateSets) /\ machine = Compiled(declared)
    BY <2>2 DEF Built
  <2>4. PICK n \in Nat : n = Len(declared) /\ DOMAIN declared = 1 .. n
    BY <2>3, LenProperties
  <2>5. ASSUME NEW i \in Index
        PROVE  /\ machine.nonTerminal[i] \in BOOLEAN
               /\ machine.format[i] \in {s.name : s \in ToSet(declared)} \union {NoName}
    <3>1. /\ machine.nonTerminal[i] \in BOOLEAN
          /\ machine.format[i] = IF i = Start THEN NoName ELSE declared[nodes[i + 1][1]].name
          /\ i # Start => nodes[i + 1][1] \in 1 .. n
      BY <2>2, <2>4, AcceptsTerminal
    <3>2. \A j \in 1 .. n : declared[j] \in ToSet(declared)
      BY <2>4 DEF ToSet
    <3>. QED BY <3>1, <3>2
  <2>6. machine.nonTerminal \in [Index -> BOOLEAN]
    <3>1. PICK g : machine.nonTerminal = [i \in 0 .. c - 1 |-> g[i]]
      <4>1. machine.nonTerminal = [i \in 0 .. c - 1 |->
              i = Start \/ Merged(declared, nodes[i + 1])[1].state.nonTerminal]
        BY <2>1, <2>3 DEF Compiled
      <4>2. machine.nonTerminal = [i \in 0 .. c - 1 |-> machine.nonTerminal[i]]
        BY <4>1
      <4>. QED BY <4>2
    <3>. QED BY <2>2, <2>5, <3>1
  <2>7. machine.format \in [Index -> {s.name : s \in ToSet(declared)} \union {NoName}]
    <3>1. machine.format = [i \in 0 .. c - 1 |->
            IF i = Start THEN NoName ELSE declared[nodes[i + 1][1]].name]
      BY <2>1, <2>3 DEF Compiled
    <3>2. machine.format = [i \in 0 .. c - 1 |-> machine.format[i]]
      BY <3>1
    <3>. QED BY <2>2, <2>5, <3>2
  <2>8. ASSUME NEW i \in Index, NEW t \in ToSet(machine.transitions[i]) PROVE t.next \in Index
    <3>1. machine.transitions[i] = CompiledTransitions(declared, nodes, nodes[i + 1])
          /\ nodes \in Seq(Places(n))
      BY <2>2, <2>4, BuiltTables
    <3>2. t \in ToSet(CompiledTransitions(declared, nodes, nodes[i + 1]))
      BY <2>8, <3>1
    <3>3. \E d \in ToSet(Declarations(declared)) : Owned(d, nodes[i + 1]) /\
            \E a \in ToSet(d.state.transitions) :
              t = [pattern |-> a.pattern, next |-> IndexOf(nodes, d.set, a.next)]
      BY <2>3, <2>4, <3>1, <3>2, CompiledLinks
    <3>4. PICK d, a : /\ d \in ToSet(Declarations(declared)) /\ a \in ToSet(d.state.transitions)
                      /\ t.next = IndexOf(nodes, d.set, a.next)
      BY <3>3
    <3>5. IndexOf(nodes, d.set, a.next) \in 0 .. c - 1
      BY <2>2, <3>4, LeadsToNode
    <3>. QED BY <2>2, <3>4, <3>5
  <2>9. active \in Seq(Index) /\ IsInjective(active) /\ Len(active) <= MaxActiveStates
    BY <2>2 DEF GroupOK, ActiveOK
  <2>10. accepted \in Index \union {NoState}
    BY <2>2 DEF GroupOK, ReportOK
  <2>. QED BY <2>6, <2>7, <2>8, <2>9, <2>10
<1>2. MachineInv => MachineTypeOK
  BY <1>1 DEF MachineTypeOK
<1>. QED BY <1>2, MachineCorrect, PTL

\* For every line and every compiled machine the prefilter gives what trying every start
\* transition gives (stepStart against the loop of Step).
THEOREM FilterUnseen == Spec => []FilterIsInvisible
<1>1. ASSUME MachineInv, outcome = "ok", NEW l \in Lines
      PROVE  Step(machine, l, active) = Outcome(machine, Successors(machine, l, active))
  <2>1. PICK nodes, c : nodes = Nodes(declared) /\ c = Len(nodes)
    OBVIOUS
  <2>2. Built(machine, declared, Len(declared), nodes, c)
    BY <1>1, <2>1, Compiles
  <2>. QED BY <2>2, StepIs
<1>2. MachineInv => FilterIsInvisible
  BY <1>1 DEF FilterIsInvisible
<1>. QED BY <1>2, MachineCorrect, PTL

\* A scan, by the loop or by the automaton, finds for every line exactly the candidates
\* of the probes that occur in it (prefilter.scan, buildAhoCorasick).
THEOREM ScansExactly == Spec => []ScanIsExact
<1>1. ASSUME MachineInv, outcome = "ok", NEW text \in Texts, NEW pf, pf = machine.pf
      PROVE  Scan(pf, text) = pf.always \union
               Implied(pf, {i \in DOMAIN pf.kept : Occurs(pf.kept[i].lit, text)})
  <2>1. PICK nodes, c : nodes = Nodes(declared) /\ c = Len(nodes)
    OBVIOUS
  <2>2. Built(machine, declared, Len(declared), nodes, c)
    BY <1>1, <2>1, Compiles
  <2>3. PICK k \in Nat, r \in Nat, h \in Nat : \E ts : StartsFrom(machine, ts, k, r, h)
    BY <2>2, StartOf
  <2>4. PICK ts : StartsFrom(machine, ts, k, r, h)
    BY <2>3
  <2>5. FilterOK(pf, ts, k, r, h)
    BY <1>1, <2>4 DEF StartsFrom
  <2>6. text \in Seq(Bytes)
    BY LiteralAssumption DEF Texts
  <2>. QED BY <2>5, <2>6, ScanFinds
<1>2. MachineInv => ScanIsExact
  BY <1>1 DEF ScanIsExact
<1>. QED BY <1>2, MachineCorrect, PTL

\* The active indices stand for the states a reading of the declarations reaches: for all
\* of them unless a line had more than the bound (Compile, Step).
THEOREM ActiveReached == Spec => []ActiveIsReached
<1>1. ASSUME MachineInv, outcome = "ok"
      PROVE  Named(active) \subseteq reached /\ (~excess => Named(active) = reached)
  <2>1. PICK nodes, c : nodes = Nodes(declared) /\ c = Len(nodes)
    OBVIOUS
  <2>2. GroupOK(machine, declared, nodes, c, active, reached, excess, landed, accepted)
    BY <1>1, <2>1, Compiles
  <2>. QED BY <2>1, <2>2, NamedIs DEF GroupOK
<1>2. MachineInv => ActiveIsReached
  BY <1>1 DEF ActiveIsReached
<1>. QED BY <1>2, MachineCorrect, PTL

\* A line is reported as accepted exactly when it landed in a state a group may complete
\* in, kept or dropped, and with the format of the set of such a state (Step, Format).
THEOREM AcceptedLanded == Spec => []AcceptedIsLanded
<1>1. ASSUME MachineInv, outcome = "ok"
      PROVE  /\ accepted = NoState <=> \A n \in landed : ~Terminal(declared, n)
             /\ accepted # NoState =>
                  /\ NameOf(accepted) \in landed /\ Terminal(declared, NameOf(accepted))
                  /\ Format(machine, accepted) = declared[NameOf(accepted)[1]].name
  <2>1. PICK nodes, c : nodes = Nodes(declared) /\ c = Len(nodes)
    OBVIOUS
  <2>2. GroupOK(machine, declared, nodes, c, active, reached, excess, landed, accepted)
    BY <1>1, <2>1, Compiles
  <2>3. NameOf(accepted) = nodes[accepted + 1]
    BY <2>1 DEF NameOf
  <2>. QED BY <2>2, <2>3 DEF GroupOK, ReportOK, Format
<1>2. MachineInv => AcceptedIsLanded
  BY <1>1 DEF AcceptedIsLanded
<1>. QED BY <1>2, MachineCorrect, PTL

\* Of the formats a line completes a group in, that of the set declared first is reported,
\* when no set leads back to the start state (all.go, Step).
THEOREM TiesOrdered == Spec => []TiesGoByOrder
<1>1. ASSUME MachineInv, outcome = "ok", accepted # NoState,
             \A i \in Index : \A t \in ToSet(machine.transitions[i]) : t.next # Start,
             NEW n \in landed, Terminal(declared, n)
      PROVE  NameOf(accepted)[1] <= n[1]
  <2>1. PICK nodes, c : nodes = Nodes(declared) /\ c = Len(nodes)
    OBVIOUS
  <2>2. GroupOK(machine, declared, nodes, c, active, reached, excess, landed, accepted)
    BY <1>1, <2>1, Compiles
  <2>3. NameOf(accepted) = nodes[accepted + 1]
    BY <2>1 DEF NameOf
  <2>4. NoReturn(machine)
    BY <1>1 DEF NoReturn, Index
  <2>5. FirstOK(declared, nodes, landed, accepted)
    BY <2>2, <2>4 DEF GroupOK
  <2>. QED BY <1>1, <2>3, <2>5 DEF FirstOK
<1>2. MachineInv => TiesGoByOrder
  BY <1>1 DEF TiesGoByOrder
<1>. QED BY <1>2, MachineCorrect, PTL

\* A group all of whose active states are final has no declared continuation: no line can
\* take it on (Final, on which the aggregator hands the group over at once).
THEOREM FinalEnds == Spec => []FinalIsDeadEnd
<1>1. ASSUME MachineInv, outcome = "ok", \A k \in DOMAIN active : Final(machine, active[k]),
             NEW l \in Lines
      PROVE  DeclaredNext(declared, Named(active), l) = {}
  <2>1. PICK nodes, c : nodes = Nodes(declared) /\ c = Len(nodes)
    OBVIOUS
  <2>2. /\ Built(machine, declared, Len(declared), nodes, c) /\ c \in Nat /\ Index = 0 .. c - 1
        /\ GroupOK(machine, declared, nodes, c, active, reached, excess, landed, accepted)
    BY <1>1, <2>1, Compiles
  <2>3. active \in Seq(0 .. c - 1)
    BY <2>2 DEF GroupOK, ActiveOK
  <2>4. PICK s \in Seq(0 .. c - 1) : s = active
    BY <2>3
  <2>5. /\ Maps(Moves(machine, l), 0 .. c - 1, 0 .. c - 1)
        /\ Successors(machine, l, s) = FlatMap(Moves(machine, l), s)
        /\ Successors(machine, l, s) \in Seq(0 .. c - 1)
        /\ {nodes[y + 1] : y \in ToSet(Successors(machine, l, s))}
             = DeclaredNext(declared, {nodes[i + 1] : i \in ToSet(s)}, l)
    BY <2>2, SuccessorsAre
  <2>6. PICK M, q : /\ M = Moves(machine, l) /\ Maps(M, 0 .. c - 1, 0 .. c - 1) /\ q = FlatMap(M, active)
                    /\ {nodes[y + 1] : y \in ToSet(q)}
                         = DeclaredNext(declared, {nodes[i + 1] : i \in ToSet(active)}, l)
    BY <2>4, <2>5
  <2>7. \A y : y \in ToSet(q) <=> \E i \in ToSet(active) : y \in ToSet(M[i])
    BY <2>3, <2>6, FlatMapElements
  <2>8. ASSUME NEW i \in ToSet(active), NEW y \in ToSet(M[i]) PROVE FALSE
    <3>1. i \in 0 .. c - 1 /\ machine.transitions[i] = <<>>
      <4>1. PICK k \in DOMAIN active : i = active[k]
        BY DEF ToSet
      <4>2. Final(machine, i)
        BY <1>1, <4>1
      <4>3. i \in 0 .. c - 1
        BY <2>3, ElementsIn
      <4>. QED BY <4>2, <4>3 DEF Final
    <3>2. M[i] = Targets(<<>>, l)
      BY <2>2, <2>6, <3>1 DEF Moves, Index
    <3>3. PICK ts \in Seq(Links) : ts = <<>>
      <4>1. machine.transitions[i] \in Seq(Links)
        BY <2>2, <3>1, BuiltTables
      <4>. QED BY <3>1, <4>1
    <3>4. PICK t : t \in ToSet(ts)
      BY <2>8, <3>2, <3>3, TargetsAre
    <3>. QED BY <3>3, <3>4 DEF ToSet
  <2>9. {nodes[y + 1] : y \in ToSet(q)} = {}
    BY <2>7, <2>8
  <2>10. Named(active) = {nodes[i + 1] : i \in ToSet(active)}
    BY <2>1, NamedIs DEF NamesOf
  <2>. QED BY <2>6, <2>9, <2>10
<1>2. MachineInv => FinalIsDeadEnd
  BY <1>1 DEF FinalIsDeadEnd
<1>. QED BY <1>2, MachineCorrect, PTL
=============================================================================
