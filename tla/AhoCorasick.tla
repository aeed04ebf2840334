---------------------------- MODULE AhoCorasick ----------------------------
(***************************************************************************)
(* The automaton of patterns/ahocorasick.go, which replaces the loop over  *)
(* the probe literals when there are many: one pass over a line collects   *)
(* the masks of every literal the line contains.                           *)
(*                                                                         *)
(* Strings are sequences of bytes and bytes are numbers.  The rows of the  *)
(* goto table are functions; row 0 is the root, and since no edge of the   *)
(* trie leads to the root, 0 also stands for an edge that is not set.      *)
(***************************************************************************)
EXTENDS Integers, Sequences, SequencesExt, FiniteSetsExt

CONSTANT Bytes       \* 0 .. 255 in the source

ASSUME BytesAssumption == Bytes \subseteq Nat /\ IsFiniteSet(Bytes)

\* strings.Contains(text, lit)
Occurs(lit, text) ==
  \E i \in 0 .. Len(text) - Len(lit) : SubSeq(text, i + 1, i + Len(lit)) = lit

\* The elements of a finite set in the order in which ever more others are below them.
Ranked(S, below) ==
  [k \in 1 .. Cardinality(S) |-> CHOOSE x \in S : Cardinality(below[x]) = k - 1]

Root  == 0
Unset == [c \in Bytes |-> Root]

-----------------------------------------------------------------------------
(* The trie.                                                                *)

\* Follow the edge of byte c from the node the walk is at, adding it if it is not set.
Descend(walk, c) ==
  LET new == Cardinality(DOMAIN walk.next)
  IN  IF walk.next[walk.at][c] # Root
      THEN [walk EXCEPT !.at = walk.next[walk.at][c]]
      ELSE [next |-> [u \in 0 .. new |->
                       IF u = new THEN Unset
                       ELSE IF u = walk.at THEN [walk.next[u] EXCEPT ![c] = new]
                       ELSE walk.next[u]],
            mask |-> [u \in 0 .. new |-> IF u = new THEN {} ELSE walk.mask[u]],
            at   |-> new]

Insert(trie, probe) ==
  LET walk == FoldLeft(Descend, [trie EXCEPT !.at = Root], probe.lit)
  IN  [walk EXCEPT !.mask[walk.at] = @ \union probe.mask]

Trie(probes) ==
  FoldLeft(Insert,
           [next |-> [u \in {Root} |-> Unset], mask |-> [u \in {Root} |-> {}], at |-> Root],
           probes)

-----------------------------------------------------------------------------
(* The goto automaton.                                                      *)

\* The nodes the set edges of a row lead to, by ascending byte.
Children(row) ==
  LET set   == {c \in Bytes : row[c] # Root}
      bytes == Ranked(set, [c \in set |-> {d \in set : d < c}])
  IN  [k \in DOMAIN bytes |-> row[bytes[k]]]

\* Mutant: a node keeps the mask of the literals that end exactly there.
AbsorbedOwn(bfs, u) == bfs.mask[u]

\* The mask of a node once the literals along its failure chain are counted in.
Absorbed(bfs, u) == bfs.mask[u] \union bfs.mask[bfs.fail[u]]

\* The i-th node of the queue: its mask absorbs that of its failure node, its
\* children fail to where the failure node goes, and so do its missing edges.
Visit(bfs, i) ==
  LET u   == bfs.queue[i]
      row == bfs.next[u]
      via == bfs.next[bfs.fail[u]]
      set == {c \in Bytes : row[c] # Root}
  IN  [next  |-> [bfs.next EXCEPT ![u] = [c \in Bytes |-> IF c \in set THEN row[c] ELSE via[c]]],
       mask  |-> [bfs.mask EXCEPT ![u] = Absorbed(bfs, u)],
       fail  |-> [v \in DOMAIN bfs.fail |->
                   IF \E c \in set : row[c] = v
                   THEN via[CHOOSE c \in set : row[c] = v] ELSE bfs.fail[v]],
       queue |-> bfs.queue \o Children(row)]

\* buildAhoCorasick: every node but the root is queued once, parents first.
BuildAhoCorasick(probes) ==
  LET trie  == Trie(probes)
      nodes == DOMAIN trie.next
      bfs   == FoldLeft(Visit,
                 [next |-> trie.next, mask |-> trie.mask,
                  fail |-> [v \in nodes |-> Root],
                  queue |-> Children(trie.next[Root])],
                 [i \in 1 .. Cardinality(nodes) - 1 |-> i])
  IN  [next |-> bfs.next, mask |-> bfs.mask]

\* Read one more byte, and collect what ends with it.
Follow(ac, walk, c) ==
  LET s == ac.next[walk.at][c]
  IN  [at |-> s, mask |-> walk.mask \union ac.mask[s]]

\* ahoCorasick.scan
ScanAhoCorasick(ac, text) ==
  FoldLeft(LAMBDA walk, c : Follow(ac, walk, c), [at |-> Root, mask |-> {}], text).mask
=============================================================================
