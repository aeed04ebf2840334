---------------------------- MODULE MultilineLog ----------------------------
(***************************************************************************)
(* The aggregator as a line log: where the abstract state of LineLog is in *)
(* the state of Multiline.  Meant for an emitter that does not call back   *)
(* (MaxDepth = 0): one that feeds the key it is handling gets the lines of *)
(* two groups of that key interleaved.                                     *)
(***************************************************************************)
EXTENDS Multiline

NoCall  == [op |-> "none"]
NoEntry == [key |-> NoKey, first |-> 0, lines |-> 0]

\* The activation the caller started, its operation by name.
CallNow ==
  IF stack = <<>> THEN NoCall
  ELSE LET f == stack[1]
       IN  CASE f.op = "AddAt" -> [op |-> "Add", key |-> f.key]
             [] f.op = "flush" -> [op |-> "Flush", key |-> heap[f.ref].key]
             [] f.op = "emit"  -> [op |-> "Add", key |-> f.entry.key]
             [] OTHER          -> [op |-> f.op]

OutNow ==
  IF Running("emit")
  THEN [key |-> Top.entry.key, first |-> Top.entry.data, lines |-> Top.entry.lines]
  ELSE NoEntry

\* The key of a flush whose emitter has failed.
BrokenNow ==
  IF Running("flush") /\ Top.held # NoError THEN heap[Top.ref].key ELSE NoKey

Log == INSTANCE LineLog WITH
  accepted <- fed,
  settled  <- [k \in StreamKeys |-> delivered[k] + lost[k]],
  call     <- CallNow,
  out      <- OutNow,
  broken   <- BrokenNow,
  failed   <- raised # NoError,
  answer   <- result # NoError

\* With an emitter that does not call back, every behaviour of the aggregator is one
\* of a line log: entries follow each other without gap or overlap under each key, an
\* emitter's failure costs lines of its own group and of no other key, a call reports
\* failure exactly when its emitter failed, FlushBefore, Flush and Stop hand nothing
\* over after a failure, and Stop without one leaves no line behind.
ImplementsLineLog == Log!Spec
=============================================================================
