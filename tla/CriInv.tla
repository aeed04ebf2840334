-------------------------------- MODULE CriInv --------------------------------
(***************************************************************************)
(* What the CRI stage adds to the invariants of its inner aggregator: the  *)
(* runs of fragments its groups hold, and the streams a Flush is done      *)
(* with.  Stated apart from CriProofs so that TLC can check it.            *)
(***************************************************************************)
EXTENDS Cri, SerialInv

\* Every line a group retains is of the stream of its key.
OneStream(g) ==
  /\ g.key[2] \in Streams
  /\ \A i \in 1 .. Len(g.lines) : g.lines[i].line.stream = g.key[2]

\* A run still open: nothing but fragments, none of them accepted.
Open(g) ==
  /\ OneStream(g)
  /\ g.active = {"partial"} /\ g.acceptedLines = 0
  /\ \A i \in 1 .. Len(g.lines) : g.lines[i].line.partial

\* A run, open or closed.  The line that closed it is the last, unless the caps
\* dropped it.
Run(g) ==
  /\ OneStream(g)
  /\ \A i \in 1 .. Len(g.lines) - 1 : g.lines[i].line.partial
  /\ g.acceptedLines > 0 =>
       /\ g.acceptedLines = Len(g.lines)
       /\ g.capped \/ ~g.lines[Len(g.lines)].line.partial

\* The line AddAt has is of the stream of its key.  It is a fragment unless it
\* closes a run, which it does in the first block.
FrameRuns(f) ==
  /\ f.op = "AddAt" =>
       /\ f.key[2] \in Streams /\ f.line.stream = f.key[2]
       /\ f.pc \in {"start", "drain"} => f.line.partial
  /\ f.op = "flush" => Run(heap[f.ref])

\* An AddAt that has just begun.
Looking(f) == f.op = "AddAt" /\ f.pc = "lookup"

\* Pending groups are open runs, groups being flushed are runs, and an AddAt that has
\* just begun is on top: if its line is a full one, it has a run to close.
Runs ==
  /\ \A g \in Linked : Open(heap[g])
  /\ \A i \in 1 .. Len(stack) : FrameRuns(stack[i])
  /\ \A i \in 1 .. Len(stack) : Looking(stack[i]) =>
       /\ i = Len(stack)
       /\ stack[i].line.partial \/ groups[stack[i].key] # Nil

\* A Flush has no group left under the keys it is done with.
Covered ==
  \A i \in 1 .. Len(stack) : stack[i].op = "FlushKeys" =>
    \A k \in stack[i].keys : k \in ToSet(stack[i].left) \/ groups[k] = Nil
=============================================================================
