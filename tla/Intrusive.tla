----------------------------- MODULE Intrusive -----------------------------
(***************************************************************************)
(* The pointers behind the last-touched list and the free list.  In        *)
(* Multiline both are sequences; in the source the list is threaded        *)
(* through prev and next of its groups, first and last being fields of the *)
(* aggregator, and the free list reuses next for a chain of its own.       *)
(*                                                                         *)
(* The module runs the pointer operations next to the actions of Multiline *)
(* that call them: a group is linked when it is claimed, moved when it is  *)
(* touched, detached before every flush, and parked when its flush is      *)
(* done.  Where the code picks a group by pointer (evict and the loops of  *)
(* FlushBefore and Stop take a.first, newGroup takes a.free), so does the  *)
(* step here.                                                              *)
(***************************************************************************)
EXTENDS MultilineInv

VARIABLE
  list              \* the fields first, last, free, freeLen, and prev and next by group

ivars == <<vars, list>>

-----------------------------------------------------------------------------
(* The pointer operations.  The later of two writes to one field wins.      *)

\* Aggregator.link
Link(l, g) ==
  [l EXCEPT !.first = IF @ = Nil THEN g ELSE @,
            !.last  = g,
            !.prev  = [r \in Refs |-> IF r = g THEN l.last ELSE l.prev[r]],
            !.next  = [r \in Refs |-> IF r = l.last THEN g
                                      ELSE IF r = g THEN Nil ELSE l.next[r]]]

\* Mutant: the last group is detached as if another one followed it.
DetachKeepingLast(l, g) ==
  [l EXCEPT !.first = IF @ = g THEN l.next[g] ELSE @,
            !.prev  = [r \in Refs |-> IF r = g THEN Nil
                                      ELSE IF r = l.next[g] THEN l.prev[g] ELSE l.prev[r]],
            !.next  = [r \in Refs |-> IF r = g THEN Nil
                                      ELSE IF r = l.prev[g] THEN l.next[g] ELSE l.next[r]]]

\* Aggregator.detach
Detach(l, g) ==
  [l EXCEPT !.first = IF @ = g THEN l.next[g] ELSE @,
            !.last  = IF @ = g THEN l.prev[g] ELSE @,
            !.prev  = [r \in Refs |-> IF r = g THEN Nil
                                      ELSE IF r = l.next[g] THEN l.prev[g] ELSE l.prev[r]],
            !.next  = [r \in Refs |-> IF r = g THEN Nil
                                      ELSE IF r = l.prev[g] THEN l.next[g] ELSE l.next[r]]]

\* Aggregator.moveLast
MoveLast(l, g) == IF g = l.last THEN l ELSE Link(Detach(l, g), g)

\* Aggregator.newGroup: the head of the free list or a fresh group, all fields reset.
Acquire(l, g) ==
  LET fresh == l.free = Nil
  IN  [l EXCEPT !.free = IF fresh THEN Nil ELSE l.next[g],
                !.freeLen = IF fresh THEN @ ELSE @ - 1,
                !.prev[g] = Nil, !.next[g] = Nil]

\* Aggregator.release
Release(l, g) ==
  IF l.freeLen >= MaxFreeGroups THEN l
  ELSE [l EXCEPT !.free = g, !.freeLen = @ + 1, !.prev[g] = Nil, !.next[g] = l.free]

-----------------------------------------------------------------------------
(* The calls of these operations.                                           *)

IInit ==
  /\ Init
  /\ list = [first |-> Nil, last |-> Nil, free |-> Nil, freeLen |-> 0,
             prev |-> [g \in Refs |-> Nil], next |-> [g \in Refs |-> Nil]]

\* A step that pushes a flush on the stack.
FlushesNow == Len(stack') > Len(stack) /\ Last(stack').op = "flush"

\* A group that a line continues moves to the end, and leaves it if it is complete.
IContinue ==
  /\ Continue
  /\ LET g     == groups[Top.key]
         moved == MoveLast(list, g)
     IN  list' = IF FlushesNow THEN Detach(moved, g) ELSE moved

\* The group found under the key of a call is detached.
IDetachByKey ==
  \/ Break /\ list' = Detach(list, groups[Top.key])
  \/ Drain /\ list' = Detach(list, groups[Top.key])
  \/ \E k \in Keys : CallFlush(k) /\ list' = Detach(list, groups[k])

\* A group is linked although its first line may complete it: it is detached again.
IClaim ==
  /\ Claim
  /\ LET g      == IF FlushesNow THEN Last(stack').ref ELSE Last(order')
         linked == Link(Acquire(list, g), g)
     IN  /\ list.free # Nil => g = list.free
         /\ list' = IF FlushesNow THEN Detach(linked, g) ELSE linked

\* The loops detach the group that `first` points to.
IDetachFirst ==
  \/ list.first # list.last /\ Evict /\ list' = Detach(list, list.first)
  \/ list.first # Nil /\ FlushFirst /\ list' = Detach(list, list.first)

IRelease == FlushDone /\ list' = Release(list, Top.ref)

\* Everything else leaves the pointers alone.
IElse ==
  /\ \/ Tick
     \/ \E k \in Keys, l \in Lines, timed \in TimeModes : CallAdd(k, l, timed)
     \/ \E l \in Lines, timed \in TimeModes : CallAddBypass(l, timed)
     \/ \E t \in 1 .. MaxTime + 1 : CallFlushBefore(t)
     \/ CallStop
     \/ Emitter
     \/ Miss \/ PassThrough \/ Starts \/ AddReturns \/ LoopReturns
     \/ FlushPrefix \/ FlushLine \/ FlushAborts
  /\ UNCHANGED list

INext ==
  IContinue \/ IDetachByKey \/ IClaim \/ IDetachFirst \/ IRelease \/ IElse

ISpec == IInit /\ [][INext]_ivars

-----------------------------------------------------------------------------
(* Properties.                                                              *)

Address == Refs \union {Nil}

Pointers ==
  [first : Address, last : Address, free : Address, freeLen : Nat,
   prev : [Refs -> Address], next : [Refs -> Address]]

\* What first, last, prev and next are when they stand for the sequence s.
Threads(l, s) ==
  /\ l.first = IF s = <<>> THEN Nil ELSE s[1]
  /\ l.last  = IF s = <<>> THEN Nil ELSE s[Len(s)]
  /\ \A i \in 1 .. Len(s) :
       /\ l.prev[s[i]] = IF i = 1 THEN Nil ELSE s[i - 1]
       /\ l.next[s[i]] = IF i = Len(s) THEN Nil ELSE s[i + 1]

\* What free and next are when they stand for the stack s of parked groups.
Parks(l, s) ==
  /\ l.free = IF s = <<>> THEN Nil ELSE s[1]
  /\ l.freeLen = Len(s)
  /\ \A i \in 1 .. Len(s) : l.next[s[i]] = IF i = Len(s) THEN Nil ELSE s[i + 1]

\* The pointers stand for the last-touched list and the free list, in both directions
\* and whichever group was first, last or alone when an emitter's calls detached,
\* moved, linked or parked it: no group is skipped, kept past its flush, or reached
\* in one list through a pointer of the other (detach, link, moveLast, newGroup,
\* release, which share the field next).
PointersMatch == list \in Pointers /\ Threads(list, order) /\ Parks(list, free)
=============================================================================
