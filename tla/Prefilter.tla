----------------------------- MODULE Prefilter -----------------------------
(***************************************************************************)
(* The literal prefilter of patterns/prefilter.go.  Testing every log line *)
(* against every start pattern is what costs in the steady state, so       *)
(* Compile derives from the start patterns substrings a line must contain  *)
(* to match at all, and the transitions each of them makes candidates.     *)
(*                                                                         *)
(* Everything here is a function: startPrefilter builds the filter from    *)
(* the declared sets, scan gives the candidates of a line.  What a regular *)
(* expression requires (requiredLiterals, module Literals) is a constant:  *)
(* only that a line matching a pattern contains one of its literals is     *)
(* assumed.                                                                *)
(* A 64-bit mask is the set of its bits; positions count from 1.           *)
(***************************************************************************)
EXTENDS AhoCorasick

CONSTANTS
  Patterns,         \* the regular expressions, valid or not
  Lines,
  Text(_),          \* the bytes of a line
  Matches(_, _),    \* the line matches the pattern
  Required(_),      \* requiredLiterals: the literals of a pattern, {} when none is proven
  WordBits,         \* 64: bits of a mask
  AcMinLiterals     \* 24: probes from which an automaton replaces the loop

StartName == "start_state"

ASSUME LiteralAssumption ==
  /\ WordBits \in Nat \ {0} /\ AcMinLiterals \in Nat
  /\ \A p \in Patterns : /\ Required(p) \subseteq Seq(Bytes) \ {<<>>}
                          /\ IsFiniteSet(Required(p))
  /\ \A l \in Lines : Text(l) \in Seq(Bytes)

\* What makes the filter sound, and module Literals is about.
ASSUME ContentAssumption ==
  \A l \in Lines, p \in Patterns :
    Matches(l, p) /\ Required(p) # {} => \E a \in Required(p) : Occurs(a, Text(l))

-----------------------------------------------------------------------------
(* startPrefilter.                                                          *)

\* The start transitions of all sets, in the order Compile merges them.
StartTransitions(sets) ==
  FlattenSeq([i \in DOMAIN sets |-> FlattenSeq([j \in DOMAIN sets[i].states |->
    IF sets[i].states[j].name = StartName THEN sets[i].states[j].transitions ELSE <<>>])])

\* The i-th start transition is one the masks can speak of.
Addressed(ts, i) == Required(ts[i].pattern) # {} /\ i <= WordBits

\* Shorter literals first, those of one length in the order of their bytes.
Before(a, b) ==
  \/ Len(a) < Len(b)
  \/ /\ Len(a) = Len(b)
     /\ \E i \in DOMAIN a : a[i] < b[i] /\ \A j \in 1 .. i - 1 : a[j] = b[j]

\* The literals in that order.
Sorted(lits) == Ranked(lits, [a \in lits |-> {b \in lits : Before(b, a)}])

\* A literal and the transitions it implies, shortest first.
Probes(ts) ==
  LET filtered == {i \in DOMAIN ts : Addressed(ts, i)}
      lits     == UNION {Required(ts[i].pattern) : i \in filtered}
      sorted   == Sorted(lits)
  IN  [k \in DOMAIN sorted |->
        [lit |-> sorted[k],
         mask |-> {i \in filtered : sorted[k] \in Required(ts[i].pattern)}]]

\* A probe is redundant next to a kept literal that implies all it does.
Folds(probe, kept) == Occurs(kept.lit, probe.lit) /\ probe.mask \subseteq kept.mask

\* The first kept literal a probe contains, of those with a bit in the hits bitmap.
ParentOf(probe, kept) ==
  LET stems == {i \in DOMAIN kept : i <= WordBits /\ Occurs(kept[i].lit, probe.lit)}
  IN  IF stems = {} THEN 0 ELSE Min(stems)

Keep(kept, probe) ==
  IF \E i \in DOMAIN kept : Folds(probe, kept[i]) THEN kept
  ELSE Append(kept, [lit |-> probe.lit, mask |-> probe.mask,
                     parent |-> ParentOf(probe, kept)])

Fold(probes) == FoldLeft(Keep, <<>>, probes)

\* The elements of s that are in S, in the order they have in s.
Selected(s, S) == FlattenSeq([i \in DOMAIN s |-> IF s[i] \in S THEN <<s[i]>> ELSE <<>>])

Roots(kept) == {k \in ToSet(kept) : k.parent = 0}

\* Mutant: the parents keep the numbers they had before the reordering.
PartitionedStale(kept) ==
  Selected(kept, Roots(kept)) \o Selected(kept, ToSet(kept) \ Roots(kept))

\* prefilter.partition: the roots come first, and the parents are renumbered.
Partitioned(kept) ==
  LET roots    == Selected(kept, Roots(kept))
      children == Selected(kept, ToSet(kept) \ Roots(kept))
      NewIndex(old) == Cardinality({i \in 1 .. old : kept[i].parent = 0})
  IN  roots \o [i \in DOMAIN children |->
                 [children[i] EXCEPT !.parent = NewIndex(@)]]

\* The transitions no literal speaks for, which are candidates of every line.
Always(ts) == {i \in DOMAIN ts : Required(ts[i].pattern) = {} /\ i <= WordBits}

NoAutomaton == [next |-> <<>>]

StartPrefilter(sets) ==
  LET ts    == StartTransitions(sets)
      kept  == Partitioned(Fold(Probes(ts)))
      roots == Cardinality({i \in DOMAIN kept : kept[i].parent = 0})
  IN  [kept |-> kept,
       roots |-> roots,
       always |-> Always(ts),
       wide |-> Len(ts) > WordBits,
       unfiltered |-> {ts[i].pattern : i \in {j \in DOMAIN ts : ~Addressed(ts, j)}},
       ac |-> IF roots >= AcMinLiterals \/ Len(kept) >= 2 * AcMinLiterals
              THEN BuildAhoCorasick(kept) ELSE NoAutomaton]

\* Without a single literal there is no filter.
Filtering(pf) == pf.kept # <<>>

-----------------------------------------------------------------------------
(* scan.                                                                    *)

Implied(pf, hits) == UNION {pf.kept[i].mask : i \in hits}

\* The loop over the roots, then over the children of the roots that hit.
LinearScan(pf, text) ==
  LET Hit(i) == Occurs(pf.kept[i].lit, text)
      roots  == {i \in 1 .. pf.roots : Hit(i)}
      stems  == {i \in roots : i <= WordBits}
      childs == {i \in pf.roots + 1 .. Len(pf.kept) :
                   pf.kept[i].parent \in stems /\ Hit(i)}
  IN  Implied(pf, roots \union childs)

\* prefilter.scan: the candidate transitions of a line.
Scan(pf, text) ==
  pf.always \union
    (IF pf.ac = NoAutomaton THEN LinearScan(pf, text) ELSE ScanAhoCorasick(pf.ac, text))
=============================================================================
