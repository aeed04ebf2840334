----------------------------- MODULE MultilineInv -----------------------------
(***************************************************************************)
(* The inductive invariant behind the theorems of MultilineProofs, stated  *)
(* apart from them so that TLC can check it on small instances.  Its parts *)
(* need each other: a flush in progress accounts for its lines only if no  *)
(* other call touches its group (Owned), which holds only if the list and  *)
(* the map agree (Mapped), and an entry is well formed only if the group   *)
(* it is made from satisfies the accounting of append (GroupOK).           *)
(***************************************************************************)
EXTENDS Multiline

-----------------------------------------------------------------------------
(* The accounting of one group.                                             *)

\* A line kept whole.
Whole(text) == text.size = Size(text.line)

\* What append and the acceptance of a line maintain.  Only the last retained line
\* can be cut, and once a line was dropped no other is retained, so lines dropped
\* before an acceptance are followed by none retained after it.
GroupOK(g) ==
  /\ g.lines = <<>> => g.total = 0 /\ g.bytes = 0 /\ ~g.capped
  /\ g.acceptedLines <= Len(g.lines)
  /\ g.acceptedLines <= g.acceptedTotal
  /\ g.acceptedLines = 0 => g.acceptedTotal = 0
  /\ g.acceptedLines > 0 => g.acceptedTotal >= 2
  /\ Len(g.lines) - g.acceptedLines <= g.total - g.acceptedTotal
  /\ g.acceptedLines < Len(g.lines) => g.acceptedTotal = g.acceptedLines
  /\ ~g.capped => Len(g.lines) = g.total
  /\ MaxBytes > 0 => g.bytes <= MaxBytes
  /\ MaxLines > 0 => Len(g.lines) <= MaxLines

\* Where text was cut.
TextsOK(g) ==
  /\ \A i \in 1 .. Len(g.lines) : g.lines[i].size <= Size(g.lines[i].line)
  /\ \A i \in 1 .. Len(g.lines) - 1 : Whole(g.lines[i])
  /\ Len(g.lines) > 0 =>
       (g.capped <=> g.total > Len(g.lines) \/ ~Whole(g.lines[Len(g.lines)]))

-----------------------------------------------------------------------------
(* The groups, their owners, and the flushes in progress.                   *)

\* Every group, pending, in flight or parked, is well formed.
Formed == \A r \in Refs : GroupOK(heap[r]) /\ TextsOK(heap[r])

\* The list and the free list share nothing and repeat nothing.
Owned ==
  /\ IsInjective(order)
  /\ IsInjective(free)
  /\ Linked \intersect ToSet(free) = {}

\* The key map and the list hold the same groups, none of them empty.
Mapped ==
  /\ \A g \in Linked : /\ heap[g].key \in Keys /\ groups[heap[g].key] = g
                       /\ heap[g].lines # <<>>
  /\ \A k \in Keys : groups[k] # Nil => groups[k] \in Linked /\ heap[groups[k]].key = k

\* What a flush that has handed over the first f.at lines of g has sent for them.
Account(f, g) ==
  /\ f.at <= Len(g.lines)
  /\ f.at = 0 => f.sent = 0
  /\ f.at > 0 =>
       /\ g.acceptedLines <= f.at
       /\ f.sent = g.acceptedTotal + (f.at - g.acceptedLines)
                   + (IF f.at = Len(g.lines) THEN Dropped(g) ELSE 0)

\* A flush in progress owns its group.
FlushOK(f) ==
  /\ f.ref \notin Linked /\ f.ref \notin ToSet(free)
  /\ heap[f.ref].lines # <<>>
  /\ Account(f, heap[f.ref])

Flushing ==
  /\ \A i \in 1 .. Len(stack) : stack[i].op = "flush" => FlushOK(stack[i])
  /\ \A i, j \in 1 .. Len(stack) :
       stack[i].op = "flush" /\ stack[j].op = "flush" /\ stack[i].ref = stack[j].ref
         => i = j

\* The texts lent to the emitter are where they were when it was entered.  A scratch
\* slot stays lent until the activation that took it returns, and slots are taken in
\* the order of the depth; the lines of a group are lent by its flush, one frame down.
Lent ==
  /\ \A i \in 1 .. Len(stack) : stack[i].op = "emit" =>
       /\ stack[i].slot <= Len(scratch)
       /\ View(i) = stack[i].entry.texts
  /\ \A i, j \in 1 .. Len(stack) :
       i < j /\ stack[i].op = "emit" /\ stack[j].op = "emit" /\ stack[j].slot > 0
         => stack[i].slot < stack[j].slot

\* The inductive invariant: groups are well formed, have one owner, are reachable
\* under their key exactly while they are pending, a flush has sent exactly what the
\* lines it is past stand for, and what the emitter borrowed is still there (append,
\* link, unlink, moveLast, flush and emitLine).
Inv == TypeOK /\ Formed /\ Owned /\ Mapped /\ Flushing /\ Lent
=============================================================================
