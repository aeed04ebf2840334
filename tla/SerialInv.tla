------------------------------ MODULE SerialInv ------------------------------
(***************************************************************************)
(* What holds besides Inv when the emitter does not call back              *)
(* (MaxDepth = 0): one call is in progress, at most one flush is under way *)
(* for it, and each line can be followed by its number from the call that  *)
(* fed it to the entry that delivers it.  These are the parts of the       *)
(* inductive invariant behind SerialProofs, stated apart from the proofs   *)
(* so that TLC can check them on small instances.                          *)
(***************************************************************************)
EXTENDS MultilineInv, MultilineLog

-----------------------------------------------------------------------------
(* The call in progress.                                                    *)

\* The blocks of AddAt in which its line is not yet in a group or an entry.
Unplaced == {"lookup", "start", "drain"}

\* A call from outside is at the bottom, then its flush, then the emitter.  Nothing
\* is handed over by a flush that holds an error, nor flushed by a loop that does.
InPlace(i) ==
  /\ stack[i].op \in {"AddAt", "FlushBefore", "Stop", "FlushKeys"} => i = 1
  /\ stack[i].op = "flush" /\ i > 1 =>
       /\ i = 2
       /\ stack[1].op \in {"AddAt", "FlushBefore", "Stop", "FlushKeys"}
       /\ stack[1].op = "AddAt" => stack[1].pc # "lookup"
       /\ stack[1].op # "AddAt" => stack[1].held = NoError
  /\ stack[i].op = "emit" => i = Len(stack)
  /\ stack[i].op = "emit" /\ i > 1 =>
       \/ stack[i - 1].op = "flush" /\ stack[i - 1].held = NoError
       \/ i = 2 /\ stack[1].op = "AddAt" /\ stack[1].pc = "return"

OneCall == Len(stack) <= 3 /\ \A i \in 1 .. Len(stack) : InPlace(i)

\* The error the i-th activation holds.
HeldAt(i) ==
  IF i \in 1 .. Len(stack) /\ stack[i].op # "emit" THEN stack[i].held ELSE NoError

\* No error is forgotten: the first one is in the call, or else in its flush.
ErrorsHeld ==
  /\ stack # <<>> => raised = FirstErr(HeldAt(1), HeldAt(2))
  /\ stack = <<>> => result = raised

-----------------------------------------------------------------------------
(* The lines.                                                               *)

Settled(k) == delivered[k] + lost[k]

PendingLines(k) == IF groups[k] = Nil THEN 0 ELSE heap[groups[k]].total

\* The lines of k an activation answers for: the line AddAt has not placed, or those
\* of its group a flush has not handed over.
Owed(f, k) ==
  CASE f.op = "AddAt" -> IF f.key = k /\ f.pc \in Unplaced THEN 1 ELSE 0
    [] f.op = "flush" -> IF heap[f.ref].key = k THEN heap[f.ref].total - f.sent ELSE 0
    [] OTHER -> 0

OwedAt(i, k) == IF i \in 1 .. Len(stack) THEN Owed(stack[i], k) ELSE 0

\* Every line fed is settled, pending, or owed by the call in progress.
Accounted ==
  /\ \A k \in Keys : fed[k] = Settled(k) + PendingLines(k) + OwedAt(1, k) + OwedAt(2, k)
  /\ fed[NoKey] = Settled(NoKey)

\* The lines of g are the ones that follow the first n of its key.
Follows(g, n) == \A i \in 1 .. Len(g.lines) : g.lines[i].data = n + i

\* The numbers of the lines an activation handles, as its kind has them.
FrameNumbered(f) ==
  /\ f.op = "flush" =>
       LET g == heap[f.ref]
       IN  g.key \in Keys /\ groups[g.key] = Nil /\ Follows(g, Settled(g.key) - f.sent)
  /\ f.op = "AddAt" /\ f.pc \in Unplaced => f.data = fed[f.key]
  /\ f.op = "AddAt" /\ f.pc \in {"start", "drain"} => groups[f.key] = Nil
  /\ f.op = "emit" => f.entry.lines > 0 /\ f.entry.data + f.entry.lines = Settled(f.entry.key) + 1

\* Lines are numbered as they were fed, wherever they are.
Numbered ==
  /\ \A k \in Keys : groups[k] # Nil => Follows(heap[groups[k]], Settled(k))
  /\ \A i \in 1 .. Len(stack) : FrameNumbered(stack[i])

-----------------------------------------------------------------------------
(* The times.                                                               *)

\* A line that is not placed yet will not be older than any pending group.
FrameTimely(f) ==
  f.op = "AddAt" /\ f.pc \in Unplaced /\ f.when # ZeroTime =>
    f.when <= clock /\ \A g \in Linked : heap[g].when <= f.when

Timely ==
  /\ SortedByTime
  /\ \A g \in Linked : heap[g].when <= clock
  /\ \A i \in 1 .. Len(stack) : FrameTimely(stack[i])

\* What an emitter that does not call back adds to Inv: the error a call will return,
\* the number of every line in flight and the time order of the list follow from one
\* call being in progress (AddAt, evict, FlushBefore, flush).
Serial == OneCall /\ ErrorsHeld /\ Accounted /\ Numbered /\ Timely

-----------------------------------------------------------------------------
(* What the refinement of LineLog needs besides.                            *)

\* An entry a flush hands over has the key of its group, and Stop has no bound in time.
Handing(i) ==
  /\ stack[i].op = "Stop" => stack[i].before = Forever
  /\ stack[i].op = "emit" /\ i > 1 /\ stack[i - 1].op = "flush" =>
       stack[i].entry.key = heap[stack[i - 1].ref].key

\* Every activation knows whom it works for (Stop, FlushBefore, flush).
Named == \A i \in 1 .. Len(stack) : Handing(i)
=============================================================================
