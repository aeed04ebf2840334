-------------------------- MODULE MultilineProofs ---------------------------
(***************************************************************************)
(* Theorems about the aggregator, for every matcher, every set of keys and *)
(* lines, every value of the caps, any number of emitter failures and any  *)
(* depth of emitter re-entrancy.                                           *)
(*                                                                         *)
(* The lemmas about its pieces come first: what append, an accepted line   *)
(* and a new group do to the accounting of one group, and what entering,   *)
(* changing and leaving an activation does to the call stack. Then the     *)
(* inductive invariant of MultilineInv: one lemma per action shows that    *)
(* the action keeps it, and the properties follow from it.                 *)
(*                                                                         *)
(* Last the caps over all groups, which hold again whenever no call is in  *)
(* progress, and the gauge, which is at all times the size of the text     *)
(* that is pending. Three facts carry those proofs: the gauge is the sum   *)
(* of the bytes of the listed groups, the bytes of a group are the size of *)
(* its lines joined, and as long as a cap is exceeded some call, perhaps a *)
(* suspended one, has yet to evict.                                        *)
(***************************************************************************)
EXTENDS MultilineInv, SeqLemmas, FiniteSetTheorems, FunctionTheorems
-----------------------------------------------------------------------------
(* Groups.                                                                  *)

\* The cut is never longer than the room there is.
LEMMA CutAtBound ==
  ASSUME NEW l \in Lines, NEW n \in Int
  PROVE  /\ CutAt(l, n) \in Nat
         /\ n > 0 => CutAt(l, n) <= n
         /\ n <= 0 => CutAt(l, n) = 0
<1>1. CASE n <= 0
  BY <1>1 DEF CutAt
<1>2. CASE n > 0
  <2> DEFINE C == {0} \union {b \in Runes(l) : b <= n}
  <2>1. C \in SUBSET Nat /\ C # {} /\ n \in Nat /\ \A x \in C : x <= n
    BY <1>2, LineAssumption
  <2>2. Max(C) \in C
    <3> HIDE DEF C
    <3>. QED BY <2>1, MaxProperties
  <2>3. CutAt(l, n) = Max(C)
    BY <1>2 DEF CutAt
  <2>. QED BY <2>1, <2>2, <2>3, <1>2
<1>. QED BY <1>1, <1>2

\* append: the group stays well formed, within the caps, and not empty.
LEMMA AppendLineOK ==
  ASSUME NEW g \in Group, GroupOK(g), TextsOK(g),
         NEW l \in Lines, NEW when \in Time, NEW data \in Nat
  PROVE  LET h == AppendLine(g, l, when, data)
         IN  /\ h \in Group
             /\ GroupOK(h)
             /\ TextsOK(h)
             /\ Len(h.lines) > 0
             /\ h.total = g.total + 1
             /\ h.key = g.key /\ h.active = g.active
             /\ h.match = g.match
             /\ h.acceptedLines = g.acceptedLines
             /\ h.acceptedTotal = g.acceptedTotal
<1> DEFINE n    == Len(g.lines)
           over == MaxBytes > 0 /\ Size(l) > Room(g)
           full == g.capped \/ (MaxLines > 0 /\ n >= MaxLines)
           kept == IF over THEN CutAt(l, Room(g)) ELSE Size(l)
           gone == full \/ (over /\ kept = 0 /\ g.lines # <<>>)
           text == [line |-> l, size |-> kept, when |-> when, data |-> data]
           h    == AppendLine(g, l, when, data)
<1>1. /\ g.lines \in Seq(RetainedLine) /\ n \in Nat
      /\ g.total \in Nat /\ g.bytes \in Nat /\ g.capped \in BOOLEAN
      /\ g.acceptedLines \in Nat /\ g.acceptedTotal \in Nat
  BY DEF Group
<1>2. n = 0 <=> g.lines = <<>>
  BY <1>1, EmptySeq
<1>3. /\ Size(l) \in Nat /\ MaxBytes \in Nat /\ MaxLines \in Nat
      /\ Separator(g) \in {0, 1} /\ (Separator(g) = 0 <=> g.lines = <<>>)
      /\ Room(g) = MaxBytes - g.bytes - Separator(g) /\ Room(g) \in Int
  BY <1>1, LineAssumption, BoundsAssumption DEF Separator, Room
<1>4. /\ kept \in Nat
      /\ kept <= Size(l)
      /\ over /\ ~gone => kept < Size(l)
      /\ over /\ Room(g) > 0 => kept <= Room(g)
      /\ over /\ Room(g) <= 0 => kept = 0
  <2>1. CASE over
    <3>1. /\ CutAt(l, Room(g)) \in Nat
          /\ Room(g) > 0 => CutAt(l, Room(g)) <= Room(g)
          /\ Room(g) <= 0 => CutAt(l, Room(g)) = 0
      BY <1>3, CutAtBound
    <3>2. g.lines = <<>> => Room(g) > 0
      BY <1>1, <1>3, <2>1 DEF GroupOK
    <3>. QED BY <3>1, <3>2, <2>1, <1>3
  <2>2. CASE ~over
    BY <2>2, <1>3
  <2>. QED BY <2>1, <2>2
<1>5. text \in RetainedLine
  BY <1>4 DEF RetainedLine
<1>6. h = [g EXCEPT !.total = @ + 1, !.capped = full \/ over,
                   !.lines = IF gone THEN @ ELSE Append(@, text),
                   !.bytes = IF gone THEN @ ELSE @ + Separator(g) + kept]
  BY DEF AppendLine
<1> HIDE DEF h, text
<1>7. /\ h.total = g.total + 1
      /\ h.capped = (full \/ over)
      /\ h.lines = IF gone THEN g.lines ELSE Append(g.lines, text)
      /\ h.bytes = IF gone THEN g.bytes ELSE g.bytes + Separator(g) + kept
      /\ h.key = g.key /\ h.when = g.when /\ h.active = g.active /\ h.match = g.match
      /\ h.acceptedLines = g.acceptedLines /\ h.acceptedTotal = g.acceptedTotal
  BY <1>6 DEF Group
<1>8. h.capped <=> full \/ over
  BY <1>7
<1>9. h \in Group
  <2>1. h.lines \in Seq(RetainedLine) /\ h.bytes \in Nat /\ h.capped \in BOOLEAN
    BY <1>1, <1>3, <1>4, <1>5, <1>7, AppendProperties
  <2>2. [key |-> g.key, when |-> g.when, lines |-> h.lines, bytes |-> h.bytes,
         total |-> g.total + 1, capped |-> h.capped, active |-> g.active,
         match |-> g.match, acceptedLines |-> g.acceptedLines,
         acceptedTotal |-> g.acceptedTotal] \in Group
    BY <2>1, <1>1 DEF Group
  <2>3. h = [key |-> g.key, when |-> g.when, lines |-> h.lines, bytes |-> h.bytes,
         total |-> g.total + 1, capped |-> h.capped, active |-> g.active,
         match |-> g.match, acceptedLines |-> g.acceptedLines,
         acceptedTotal |-> g.acceptedTotal]
    BY <1>6, <1>7 DEF Group
  <2>. QED BY <2>2, <2>3
<1> HIDE DEF kept
<1>10. CASE gone
  <2>1. /\ h.lines = g.lines /\ h.bytes = g.bytes
        /\ full => n > 0
    BY <1>1, <1>2, <1>3, <1>7, <1>10 DEF GroupOK
  <2>2. h.capped /\ n > 0
    BY <2>1, <1>1, <1>2, <1>8, <1>10
  <2>3. GroupOK(h)
    <3>1. h.lines # <<>>
      BY <2>1, <2>2, <1>2
    <3>2. /\ g.acceptedLines <= n /\ g.acceptedLines <= g.acceptedTotal
          /\ g.acceptedLines = 0 => g.acceptedTotal = 0
          /\ g.acceptedLines > 0 => g.acceptedTotal >= 2
          /\ n - g.acceptedLines <= g.total - g.acceptedTotal
          /\ g.acceptedLines < n => g.acceptedTotal = g.acceptedLines
          /\ MaxBytes > 0 => g.bytes <= MaxBytes
          /\ MaxLines > 0 => n <= MaxLines
      BY DEF GroupOK
    <3>3. n - g.acceptedLines <= (g.total + 1) - g.acceptedTotal
      BY <3>2, <1>1
    <3>. QED BY <3>1, <3>2, <3>3, <2>1, <2>2, <1>7 DEF GroupOK
  <2>4. TextsOK(h)
    BY <2>1, <2>2, <1>1, <1>7 DEF TextsOK, GroupOK
  <2>. QED BY <2>1, <2>2, <2>3, <2>4, <1>7, <1>9 DEF h
<1>11. CASE ~gone
  <2>1. /\ h.lines = Append(g.lines, text)
        /\ h.bytes = g.bytes + Separator(g) + kept
    BY <1>7, <1>11
  <2>2. /\ Len(h.lines) = n + 1
        /\ \A i \in 1 .. n : h.lines[i] = g.lines[i]
        /\ h.lines[n + 1] = text
        /\ h.lines # <<>>
    BY <2>1, <1>1, <1>5, AppendProperties
  <2>3. ~g.capped /\ (h.capped <=> over)
    BY <1>8, <1>11
  <2>4. h.bytes <= MaxBytes \/ MaxBytes = 0
    <3>1. g.lines = <<>> => g.bytes = 0
      BY DEF GroupOK
    <3>2. MaxBytes > 0 => g.bytes <= MaxBytes
      BY DEF GroupOK
    <3>3. CASE over /\ Room(g) > 0
      BY <3>3, <2>1, <1>1, <1>3, <1>4
    <3>4. CASE over /\ Room(g) <= 0
      <4>1. kept = 0 /\ g.lines = <<>>
        BY <3>4, <1>4, <1>11
      <4>. QED BY <4>1, <3>1, <3>2, <2>1, <1>1, <1>3
    <3>5. CASE ~over
      <4>1. kept = Size(l)
        BY <3>5 DEF kept
      <4>. QED BY <4>1, <3>5, <2>1, <1>1, <1>3
    <3>. QED BY <3>3, <3>4, <3>5, <1>3
  <2>5. n = g.total /\ g.acceptedTotal = g.acceptedLines
    BY <2>3, <1>1 DEF GroupOK
  <2>6. GroupOK(h)
    <3>1. MaxLines > 0 => n + 1 <= MaxLines
      BY <1>1, <1>3, <1>11
    <3>2. g.acceptedLines > 0 => g.acceptedTotal >= 2
      BY DEF GroupOK
    <3>3. g.acceptedLines <= n
      BY DEF GroupOK
    <3>. QED BY <3>1, <3>2, <3>3, <2>2, <2>4, <2>5, <1>1, <1>3, <1>7 DEF GroupOK
  <2>7. text.size = kept /\ text.line = l
    BY DEF text
  <2>8. over <=> ~Whole(h.lines[n + 1])
    BY <2>2, <2>7, <1>3, <1>4, <1>11 DEF Whole, kept
  <2>9. TextsOK(h)
    <3>1. \A i \in 1 .. n : h.lines[i].size <= Size(h.lines[i].line)
      BY <2>2, <1>1 DEF TextsOK
    <3>2. \A i \in 1 .. n : Whole(h.lines[i])
      <4>1. n > 0 => Whole(g.lines[n])
        BY <2>3, <1>1 DEF TextsOK
      <4>2. \A i \in 1 .. n - 1 : Whole(g.lines[i])
        BY DEF TextsOK
      <4>. QED BY <4>1, <4>2, <2>2, <1>1
    <3>3. \A i \in 1 .. n + 1 : h.lines[i].size <= Size(h.lines[i].line)
      BY <3>1, <2>2, <2>7, <1>1, <1>4
    <3>4. h.total = Len(h.lines)
      BY <2>2, <2>5, <1>7
    <3>. QED BY <3>2, <3>3, <3>4, <2>2, <2>3, <2>8, <1>1 DEF TextsOK
  <2>. QED BY <2>2, <2>6, <2>9, <1>1, <1>7, <1>9 DEF h
<1>. QED BY <1>10, <1>11

\* A line that continues a group: an acceptance covers everything consumed so far.
LEMMA GrownOK ==
  ASSUME NEW g \in Group, GroupOK(g), TextsOK(g), g.lines # <<>>, clock \in 1 .. MaxTime,
         NEW l \in Lines, NEW when \in Time, NEW data \in Nat
  PROVE  LET h == Grown(g, l, when, data)
         IN  h \in Group /\ GroupOK(h) /\ TextsOK(h) /\ h.lines # <<>> /\ h.key = g.key
<1> DEFINE more == AppendLine(g, l, when, data)
           step == Step(l, g.active)
           hit  == step.accepted # NoState
           h    == Grown(g, l, when, data)
<1>1. /\ more \in Group /\ GroupOK(more) /\ TextsOK(more) /\ Len(more.lines) > 0
      /\ more.total = g.total + 1 /\ more.key = g.key
  BY AppendLineOK
<1>2. /\ g.lines \in Seq(RetainedLine) /\ g.total \in Nat /\ Len(g.lines) \in Nat
      /\ Len(g.lines) # 0 /\ g.active \in SUBSET States
  BY EmptySeq DEF Group
<1>3. g.total >= 1
  <2>1. Len(g.lines) - g.acceptedLines <= g.total - g.acceptedTotal
        /\ g.acceptedLines <= g.acceptedTotal
    BY DEF GroupOK
  <2>2. g.acceptedLines \in Nat /\ g.acceptedTotal \in Nat
    BY DEF Group
  <2>. QED BY <2>1, <2>2, <1>2
<1>4. /\ more.lines \in Seq(RetainedLine) /\ Len(more.lines) \in Nat /\ more.lines # <<>>
      /\ more.total \in Nat /\ more.total >= 2
      /\ more.acceptedLines \in Nat /\ more.acceptedTotal \in Nat
      /\ more.bytes \in Nat /\ more.key \in StreamKeys /\ more.capped \in BOOLEAN
      /\ more.match \in Formats \union {NoFormat}
  BY <1>1, <1>2, <1>3 DEF Group
<1>5. step.next \in SUBSET States /\ step.accepted \in States \union {NoState}
  BY <1>2, MatcherAssumption
<1>6. Stamp(when) \in Time
  BY BoundsAssumption DEF Stamp, Time
<1>7. hit => Format(step.accepted) \in Formats
  BY <1>5 DEF Formats
<1> HIDE DEF more, step
<1>8. h = [more EXCEPT !.active = step.next,
                       !.when = Stamp(when),
                       !.match = IF hit THEN Format(step.accepted) ELSE @,
                       !.acceptedLines = IF hit THEN Len(more.lines) ELSE @,
                       !.acceptedTotal = IF hit THEN more.total ELSE @]
  BY DEF Grown, more, step
<1> HIDE DEF h
<1>9. /\ h.lines = more.lines /\ h.total = more.total /\ h.bytes = more.bytes
      /\ h.capped = more.capped /\ h.key = more.key
      /\ h.acceptedLines = IF hit THEN Len(more.lines) ELSE more.acceptedLines
      /\ h.acceptedTotal = IF hit THEN more.total ELSE more.acceptedTotal
  BY <1>1, <1>8 DEF Group
<1>10. h \in Group
  BY <1>1, <1>4, <1>5, <1>6, <1>7, <1>8 DEF Group
<1>11. TextsOK(h)
  BY <1>1, <1>9 DEF TextsOK
<1>12. GroupOK(h)
  <2>1. CASE hit
    <3>1. /\ h.acceptedLines = Len(more.lines) /\ h.acceptedTotal = more.total
      BY <2>1, <1>9
    <3>2. /\ Len(more.lines) <= more.total
          /\ ~more.capped => Len(more.lines) = more.total
          /\ MaxBytes > 0 => more.bytes <= MaxBytes
          /\ MaxLines > 0 => Len(more.lines) <= MaxLines
      BY <1>1, <1>4 DEF GroupOK
    <3>. QED BY <3>1, <3>2, <1>1, <1>4, <1>9 DEF GroupOK
  <2>2. CASE ~hit
    BY <2>2, <1>1, <1>9 DEF GroupOK
  <2>. QED BY <2>1, <2>2
<1>. QED BY <1>1, <1>4, <1>9, <1>10, <1>11, <1>12 DEF h

\* The first line of a group.
LEMMA NewGroupOK ==
  ASSUME NEW key \in Keys, NEW l \in Lines, NEW when \in Time, NEW data \in Nat,
         clock \in 1 .. MaxTime
  PROVE  LET h == NewGroup(key, l, when, data)
         IN  h \in Group /\ GroupOK(h) /\ TextsOK(h) /\ h.lines # <<>> /\ h.key = key
<1> DEFINE b == Opened(key, when, Step(l, {StartState}).next)
<1>1. Stamp(when) \in Time /\ Step(l, {StartState}).next \in SUBSET States
  BY BoundsAssumption, MatcherAssumption DEF Stamp, Time
<1>2. b \in Group /\ b.key = key
  <2>2. <<>> \in Seq(RetainedLine) /\ 0 \in Nat /\ FALSE \in BOOLEAN
    OBVIOUS
  <2>. QED BY <2>2, <1>1 DEF Opened, Group, StreamKeys
<1>3. /\ b.lines = <<>> /\ b.bytes = 0 /\ b.total = 0 /\ b.capped = FALSE
      /\ b.acceptedLines = 0 /\ b.acceptedTotal = 0
  BY DEF Opened
<1> HIDE DEF b
<1>4. GroupOK(b) /\ TextsOK(b)
  BY <1>3, BoundsAssumption DEF GroupOK, TextsOK
<1>5. AppendLine(b, l, when, data) = NewGroup(key, l, when, data)
  BY DEF NewGroup, b
<1> DEFINE h == AppendLine(b, l, when, data)
<1>6. h \in Group /\ GroupOK(h) /\ TextsOK(h) /\ Len(h.lines) > 0 /\ h.key = b.key
  BY <1>2, <1>4, AppendLineOK
<1> HIDE DEF h
<1>7. h.lines # <<>>
  BY <1>6
<1>. QED BY <1>2, <1>5, <1>6, <1>7 DEF h
-----------------------------------------------------------------------------
(* Frames and the call stack.                                               *)

\* Two activations that are the same as far as a flush in progress goes, and what it
\* has lent to the emitter.
Same(f, h) ==
  /\ f.op = h.op
  /\ f.op = "flush" => f.ref = h.ref /\ f.at = h.at /\ f.sent = h.sent
  /\ f.op = "emit" => f = h

LEMMA FrameKinds ==
  ASSUME NEW f \in Frame
  PROVE  /\ f.op = "flush" => f \in FlushFrame
         /\ f.op = "emit" => f \in EmitFrame
         /\ f.op = "AddAt" => f \in AddFrame
         /\ f.op \in {"FlushBefore", "Stop"} => f \in LoopFrame
         /\ f.op = "FlushKeys" => f \in StageFrame
         /\ f.op \in {"flush", "emit", "AddAt", "FlushBefore", "Stop", "FlushKeys"}
BY DEF Frame, FlushFrame, EmitFrame, AddFrame, LoopFrame, StageFrame

\* Every activation but the emitter's holds an error, and can be given another.
LEMMA HeldFrame ==
  ASSUME NEW f \in Frame, f.op # "emit", NEW err \in Nat
  PROVE  /\ f.held \in Nat
         /\ [f EXCEPT !.held = FirstErr(@, err)] \in Frame
         /\ Same([f EXCEPT !.held = FirstErr(@, err)], f)
<1>1. CASE f \in FlushFrame
  BY <1>1 DEF Frame, FlushFrame, FirstErr, Same
<1>2. CASE f \in AddFrame
  BY <1>2 DEF Frame, AddFrame, FirstErr, Same
<1>3. CASE f \in LoopFrame
  BY <1>3 DEF Frame, LoopFrame, FirstErr, Same
<1>4. CASE f \in StageFrame
  BY <1>4 DEF Frame, StageFrame, FirstErr, Same
<1>. QED BY <1>1, <1>2, <1>3, <1>4, FrameKinds

\* Returning pops one activation and leaves the others as they are, but for the
\* error the caller now holds.
LEMMA PopProperties ==
  ASSUME stack \in Seq(Frame), stack # <<>>, NEW err \in Nat
  PROVE  /\ Pop(err) \in Seq(Frame)
         /\ Len(Pop(err)) = Len(stack) - 1
         /\ \A i \in 1 .. Len(stack) - 1 : Same(Pop(err)[i], stack[i])
<1> DEFINE rest == Front(stack)
<1>1. /\ rest \in Seq(Frame) /\ Len(rest) = Len(stack) - 1 /\ Len(stack) \in Nat
      /\ \A i \in 1 .. Len(stack) - 1 : rest[i] = stack[i]
  BY FrontProperties, LenProperties
<1> HIDE DEF rest
<1>2. CASE rest = <<>> \/ Last(rest).op = "emit"
  <2>1. Pop(err) = rest
    BY <1>2 DEF Pop, rest
  <2>. QED BY <2>1, <1>1 DEF Same
<1>3. CASE ~(rest = <<>> \/ Last(rest).op = "emit")
  <2> DEFINE n == Len(rest)
             f == [rest[n] EXCEPT !.held = FirstErr(@, err)]
  <2>1. n \in 1 .. Len(rest) /\ rest[n] \in Frame /\ rest[n].op # "emit"
    BY <1>1, <1>3, LastProperties
  <2>2. f \in Frame /\ Same(f, rest[n])
    BY <2>1, HeldFrame
  <2>3. Pop(err) = [rest EXCEPT ![n] = f]
    BY <1>3 DEF Pop, rest
  <2> HIDE DEF f
  <2>4. /\ [rest EXCEPT ![n] = f] \in Seq(Frame)
        /\ Len([rest EXCEPT ![n] = f]) = n
        /\ \A i \in 1 .. n : [rest EXCEPT ![n] = f][i] = IF i = n THEN f ELSE rest[i]
    BY <2>1, <2>2, <1>1, ExceptSeq
  <2>. QED BY <2>1, <2>2, <2>3, <2>4, <1>1 DEF Same
<1>. QED BY <1>2, <1>3

\* Replacing the top activation.
LEMMA SetTopProperties ==
  ASSUME stack \in Seq(Frame), stack # <<>>, NEW f \in Frame
  PROVE  /\ SetTop(f) \in Seq(Frame)
         /\ Len(SetTop(f)) = Len(stack)
         /\ SetTop(f)[Len(stack)] = f
         /\ \A i \in 1 .. Len(stack) - 1 : SetTop(f)[i] = stack[i]
BY LastProperties, ExceptSeq, LenProperties DEF SetTop

\* Entering a call.
LEMMA PushProperties ==
  ASSUME NEW st \in Seq(Frame), NEW f \in Frame
  PROVE  /\ Push(st, f) \in Seq(Frame)
         /\ Len(Push(st, f)) = Len(st) + 1
         /\ Push(st, f)[Len(st) + 1] = f
         /\ \A i \in 1 .. Len(st) : Push(st, f)[i] = st[i]
BY AppendProperties DEF Push

\* The activation whose turn it is.
LEMMA TopFrame ==
  ASSUME stack \in Seq(Frame), stack # <<>>
  PROVE  /\ Len(stack) \in Nat /\ Len(stack) \in 1 .. Len(stack)
         /\ Top \in Frame /\ Top = stack[Len(stack)]
BY LastProperties, LenProperties DEF Top

\* AddAt moves to another block.
LEMMA AddFramePc ==
  ASSUME NEW f \in Frame, f.op = "AddAt",
         NEW pc \in {"lookup", "start", "drain", "evict", "return"}
  PROVE  /\ [f EXCEPT !.pc = pc] \in Frame
         /\ [f EXCEPT !.pc = pc].op = "AddAt"
         /\ Same([f EXCEPT !.pc = pc], f)
         /\ f.key \in Keys /\ f.line \in Lines /\ f.when \in Time /\ f.data \in Nat
<1>1. f \in AddFrame
  BY FrameKinds
<1>. QED BY <1>1 DEF Frame, AddFrame, Same

\* An activation that is not a flush is no flush for its neighbours either.
LEMMA SameIsReflexive ==
  ASSUME NEW f, NEW h, f = h
  PROVE  Same(f, h)
BY DEF Same

\* What AddAt and the empty key make of a line that belongs to no group.
LEMMA EmitLineProperties ==
  ASSUME NEW st \in Seq(Frame), scratch \in Seq(RetainedLine),
         delivered \in [StreamKeys -> Int],
         NEW key \in StreamKeys, NEW l \in Lines, NEW when \in Time, NEW data \in Nat,
         EmitLine(st, key, l, when, data)
  PROVE  /\ stack' \in Seq(Frame)
         /\ Len(stack') = Len(st) + 1
         /\ stack'[Len(st) + 1].op = "emit"
         /\ \A i \in 1 .. Len(st) : stack'[i] = st[i]
         /\ scratch' \in Seq(RetainedLine)
         /\ delivered' \in [StreamKeys -> Int]
         /\ ~Lossy(stack'[Len(st) + 1].entry)
         /\ stack'[Len(st) + 1].entry.truncated = FALSE
         /\ stack'[Len(st) + 1].entry.match = NoFormat
         /\ stack'[Len(st) + 1].slot = Len(scratch) + 1
         /\ Len(scratch') = Len(scratch) + 1
         /\ \A i \in 1 .. Len(scratch) : scratch'[i] = scratch[i]
         /\ stack'[Len(st) + 1].entry.texts = <<scratch'[Len(scratch) + 1]>>
<1> DEFINE text == [line |-> l, size |-> Size(l), when |-> when, data |-> data]
           e    == [key |-> key, match |-> NoFormat, when |-> when, data |-> data,
                    lines |-> 1, truncated |-> FALSE, texts |-> <<text>>]
           f    == EmitOf(e, Slot)
<1>1. text \in RetainedLine
  BY LineAssumption DEF RetainedLine
<1>2. /\ scratch' = SubSeq(scratch, 1, Slot - 1) \o <<text>>
      /\ stack' = Push(st, f)
      /\ delivered' = [delivered EXCEPT ![key] = @ + 1]
  BY DEF EmitLine, Deliver
<1>3. ~Lossy(e)
  BY LineAssumption DEF Lossy
<1> HIDE DEF text
<1>4. <<text>> \in Seq(RetainedLine)
  BY <1>1
<1>5. e \in Entry
  BY <1>4 DEF Entry
<1>6. Slot \in Nat /\ Slot = Len(scratch) + 1 /\ Len(scratch) \in Nat
  BY LenProperties DEF Slot
<1>7. f \in Frame
  BY <1>5, <1>6 DEF EmitOf, EmitFrame, Frame
<1>8. f.op = "emit" /\ f.entry = e /\ f.slot = Slot
  BY DEF EmitOf
<1>9. /\ scratch' \in Seq(RetainedLine)
      /\ Len(scratch') = Len(scratch) + 1
      /\ \A i \in 1 .. Len(scratch) : scratch'[i] = scratch[i]
      /\ scratch'[Len(scratch) + 1] = text
  <2>1. SubSeq(scratch, 1, Slot - 1) = scratch
    BY <1>6
  <2>2. scratch' = scratch \o <<text>>
    BY <1>2, <2>1
  <2>. QED BY <1>1, <2>2
<1>10. delivered' \in [StreamKeys -> Int]
  BY <1>2
<1>11. e.truncated = FALSE /\ e.match = NoFormat /\ e.texts = <<text>>
  OBVIOUS
<1> HIDE DEF f, e
<1>12. /\ stack' \in Seq(Frame)
       /\ Len(stack') = Len(st) + 1
       /\ stack'[Len(st) + 1] = f
       /\ \A i \in 1 .. Len(st) : stack'[i] = st[i]
  BY <1>2, <1>7, PushProperties
<1>. QED BY <1>3, <1>6, <1>8, <1>9, <1>10, <1>11, <1>12
-----------------------------------------------------------------------------
(* What an activation keeps when one of its fields changes.                 *)

LEMMA FirstErrs ==
  ASSUME NEW a \in Nat, NEW b \in Nat
  PROVE  /\ FirstErr(a, b) \in Nat
         /\ FirstErr(a, NoError) = a /\ FirstErr(NoError, b) = b
         /\ a # NoError => FirstErr(a, b) = a
BY DEF FirstErr, NoError

\* The fields of an AddAt.
LEMMA AddFields ==
  ASSUME NEW f \in Frame, f.op = "AddAt"
  PROVE  /\ f.key \in Keys /\ f.line \in Lines /\ f.when \in Time /\ f.when \in Int
         /\ f.data \in Nat /\ f.held \in Nat
         /\ f.pc \in {"lookup", "start", "drain", "evict", "return"}
<1>1. f \in AddFrame
  BY FrameKinds
<1>2. f.when \in Time
  BY <1>1 DEF AddFrame
<1>. QED BY <1>1, <1>2, BoundsAssumption DEF AddFrame, Time

\* AddAt goes on to the block pc: the rest of its activation stays as it is.
LEMMA PcFields ==
  ASSUME NEW f \in Frame, f.op = "AddAt",
         NEW pc \in {"lookup", "start", "drain", "evict", "return"}
  PROVE  LET h == [f EXCEPT !.pc = pc]
         IN  /\ h \in Frame /\ h.op = "AddAt" /\ h.pc = pc
             /\ h.key = f.key /\ h.line = f.line /\ h.when = f.when
             /\ h.data = f.data /\ h.held = f.held
<1>1. f \in AddFrame
  BY FrameKinds
<1>. QED BY <1>1 DEF AddFrame, Frame

\* Giving an activation an error changes nothing else of it.
LEMMA HeldFields ==
  ASSUME NEW f \in Frame, f.op # "emit", NEW err \in Nat
  PROVE  LET h == [f EXCEPT !.held = FirstErr(@, err)]
         IN  /\ h \in Frame /\ h.op = f.op /\ h.held = FirstErr(f.held, err)
             /\ f.op = "flush" => h.ref = f.ref /\ h.at = f.at /\ h.sent = f.sent
             /\ f.op = "AddAt" => /\ h.key = f.key /\ h.when = f.when /\ h.data = f.data
                                  /\ h.line = f.line /\ h.pc = f.pc
             /\ f.op = "FlushKeys" => h.keys = f.keys /\ h.left = f.left
<1> DEFINE h == [f EXCEPT !.held = FirstErr(@, err)]
<1>1. h \in Frame /\ h.op = f.op
  BY HeldFrame DEF Same
<1>2. CASE f \in FlushFrame
  BY <1>1, <1>2 DEF FlushFrame
<1>3. CASE f \in AddFrame
  BY <1>1, <1>3 DEF AddFrame
<1>4. CASE f \in LoopFrame
  BY <1>1, <1>4 DEF LoopFrame
<1>5. CASE f \in StageFrame
  BY <1>1, <1>5 DEF StageFrame
<1>. QED BY <1>2, <1>3, <1>4, <1>5, FrameKinds

\* Exactly what is left when an activation returns err.
LEMMA PopExact ==
  ASSUME stack \in Seq(Frame), stack # <<>>, NEW err \in Nat
  PROVE  LET n == Len(stack) - 1
         IN  /\ Pop(err) \in Seq(Frame)
             /\ Len(Pop(err)) = n
             /\ \A i \in 1 .. n : Pop(err)[i] =
                  IF i = n /\ stack[n].op # "emit"
                  THEN [stack[n] EXCEPT !.held = FirstErr(@, err)] ELSE stack[i]
<1> DEFINE rest == Front(stack)
           n == Len(stack) - 1
<1>1. /\ rest \in Seq(Frame) /\ Len(rest) = n /\ n \in Nat
      /\ \A i \in 1 .. n : rest[i] = stack[i]
  BY FrontProperties, LenProperties
<1>2. Pop(err) \in Seq(Frame) /\ Len(Pop(err)) = n
  BY PopProperties
<1> HIDE DEF rest, n
<1>3. CASE rest = <<>>
  BY <1>1, <1>2, <1>3 DEF n
<1>4. CASE rest # <<>>
  <2>1. n \in 1 .. n /\ Last(rest) = stack[n]
    BY <1>1, <1>4, LastProperties
  <2>2. Pop(err) = IF stack[n].op = "emit" THEN rest
                   ELSE [rest EXCEPT ![n].held = FirstErr(@, err)]
    BY <1>1, <1>4, <2>1 DEF Pop, rest
  <2>3. DOMAIN rest = 1 .. n
    BY <1>1, LenProperties
  <2>. QED BY <1>1, <1>2, <2>1, <2>2, <2>3 DEF n
<1>. QED BY <1>3, <1>4
-----------------------------------------------------------------------------
(* What most steps have in common.                                          *)

\* The i-th activation goes on as it was, and so do the lines it lends, being a flush.
Keeps(i) ==
  /\ Same(stack'[i], stack[i])
  /\ stack[i].op = "flush" => heap'[stack[i].ref].lines = heap[stack[i].ref].lines

\* What is lent stays lent: an emitter that goes on keeps its scratch slot, or the
\* group of the flush below it, and one that is entered borrows something new.
LEMMA LentStep ==
  ASSUME Inv, stack' \in Seq(Frame),
         \A i \in 1 .. Len(stack') : stack'[i].op = "emit" =>
           \/ /\ i \in 1 .. Len(stack) /\ stack'[i] = stack[i]
              /\ stack[i].slot <= Len(scratch')
              /\ stack[i].slot > 0 => scratch'[stack[i].slot] = scratch[stack[i].slot]
              /\ stack[i].slot = 0 /\ i > 1 => Keeps(i - 1)
           \/ /\ i = Len(stack) + 1
              /\ stack'[i].slot <= Len(scratch')
              /\ stack'[i].slot > 0 => stack'[i].slot > Len(scratch)
              /\ View(i)' = stack'[i].entry.texts
  PROVE  Lent'
<1>1. ASSUME NEW i \in 1 .. Len(stack'), stack'[i].op = "emit"
      PROVE  /\ stack'[i].slot <= Len(scratch')
             /\ View(i)' = stack'[i].entry.texts
  <2>1. CASE /\ i \in 1 .. Len(stack) /\ stack'[i] = stack[i]
             /\ stack[i].slot <= Len(scratch')
             /\ stack[i].slot > 0 => scratch'[stack[i].slot] = scratch[stack[i].slot]
             /\ stack[i].slot = 0 /\ i > 1 => Keeps(i - 1)
    <3>1. View(i) = stack[i].entry.texts
      BY <1>1, <2>1 DEF Inv, Lent
    <3>2. stack[i].slot \in Nat
      BY <1>1, <2>1, ElementOfSeq, FrameKinds DEF Inv, TypeOK, EmitFrame
    <3>3. CASE stack[i].slot > 0
      BY <2>1, <3>1, <3>3 DEF View
    <3>4. CASE stack[i].slot = 0 /\ i > 1
      <4>1. Keeps(i - 1)
        BY <2>1, <3>4
      <4>2. CASE stack[i - 1].op = "flush"
        <5>1. /\ stack'[i - 1].op = "flush" /\ stack'[i - 1].ref = stack[i - 1].ref
              /\ stack'[i - 1].at = stack[i - 1].at
              /\ heap'[stack[i - 1].ref].lines = heap[stack[i - 1].ref].lines
          BY <4>1, <4>2 DEF Same, Keeps
        <5>2. View(i)' = View(i)
          BY <2>1, <3>4, <4>2, <5>1 DEF View
        <5>. QED BY <2>1, <3>1, <5>2
      <4>3. CASE stack[i - 1].op # "flush"
        <5>1. stack'[i - 1].op # "flush"
          BY <4>1, <4>3 DEF Same, Keeps
        <5>. QED BY <2>1, <3>4, <5>1 DEF View
      <4>. QED BY <4>2, <4>3
    <3>5. CASE stack[i].slot = 0 /\ ~(i > 1)
      BY <2>1, <3>5 DEF View
    <3>. QED BY <2>1, <3>2, <3>3, <3>4, <3>5
  <2>. QED BY <1>1, <2>1
<1>2. ASSUME NEW i \in 1 .. Len(stack'), NEW j \in 1 .. Len(stack'), i < j,
             stack'[i].op = "emit", stack'[j].op = "emit", stack'[j].slot > 0
      PROVE  stack'[i].slot < stack'[j].slot
  <2>1. Len(stack) \in Nat
    BY LenProperties DEF Inv, TypeOK
  <2>2. i \in 1 .. Len(stack) /\ stack'[i] = stack[i] /\ stack[i].op = "emit"
    <3>1. i # Len(stack) + 1
      BY <1>2, <2>1
    <3>. QED BY <3>1, <1>2
  <2>3. stack[i].slot <= Len(scratch) /\ stack[i].slot \in Nat /\ Len(scratch) \in Nat
    BY <2>2, ElementOfSeq, FrameKinds, LenProperties DEF Inv, Lent, TypeOK, EmitFrame
  <2>4. CASE j \in 1 .. Len(stack) /\ stack'[j] = stack[j]
    BY <1>2, <2>2, <2>4 DEF Inv, Lent
  <2>5. CASE j = Len(stack) + 1 /\ stack'[j].slot > Len(scratch)
    <3>1. stack'[j].slot \in Nat
      BY <1>2, ElementOfSeq, FrameKinds DEF EmitFrame
    <3>. QED BY <2>2, <2>3, <2>5, <3>1
  <2>. QED BY <1>2, <2>4, <2>5
<1>. QED BY <1>1, <1>2 DEF Lent

\* The same, for a step that enters no emitter and leaves the scratch alone.
LEMMA KeepsLent ==
  ASSUME Inv, stack' \in Seq(Frame), scratch' = scratch,
         \A i \in 1 .. Len(stack') :
           \/ i \in 1 .. Len(stack) /\ Keeps(i)
           \/ i = Len(stack) + 1 /\ stack'[i].op # "emit"
  PROVE  Lent'
<1>1. ASSUME NEW i \in 1 .. Len(stack'), stack'[i].op = "emit"
      PROVE  /\ i \in 1 .. Len(stack) /\ stack'[i] = stack[i]
             /\ stack[i].slot <= Len(scratch')
             /\ stack[i].slot > 0 => scratch'[stack[i].slot] = scratch[stack[i].slot]
             /\ stack[i].slot = 0 /\ i > 1 => Keeps(i - 1)
  <2>1. i \in 1 .. Len(stack) /\ stack'[i] = stack[i] /\ stack[i].op = "emit"
    BY <1>1 DEF Same, Keeps
  <2>2. stack[i].slot <= Len(scratch)
    BY <2>1 DEF Inv, Lent
  <2>3. Len(stack) \in Nat /\ Len(stack') \in Nat
    BY LenProperties DEF Inv, TypeOK
  <2>4. ASSUME i > 1
        PROVE  Keeps(i - 1)
    <3>1. i - 1 \in 1 .. Len(stack') /\ i - 1 # Len(stack) + 1
      BY <2>1, <2>3, <2>4
    <3>. QED BY <3>1
  <2>. QED BY <2>1, <2>2, <2>4
<1>. QED BY <1>1, LentStep

\* A step that leaves the aggregator alone and starts no flush.
LEMMA QuietStep ==
  ASSUME Inv, UNCHANGED aggregator, stack' \in Seq(Frame),
         \A i \in 1 .. Len(stack') :
           \/ i \in 1 .. Len(stack) /\ Same(stack'[i], stack[i])
           \/ i = Len(stack) + 1 /\ stack'[i].op # "flush"
  PROVE  /\ (Formed /\ Owned /\ Mapped /\ Flushing)'
         /\ UNCHANGED scratch /\ (\A i \in 1 .. Len(stack') :
              i = Len(stack) + 1 => stack'[i].op # "emit") => Lent'
<1>1. UNCHANGED <<heap, groups, order, bytes, free>>
  BY DEF aggregator
<1>2. (Formed /\ Owned /\ Mapped)'
  <2>1. Formed'
    BY <1>1 DEF Inv, Formed, Linked, GroupOK, TextsOK, Whole
  <2>2. Owned' /\ Mapped'
    BY <1>1 DEF Inv, Owned, Mapped, Linked
  <2>. QED BY <2>1, <2>2
<1>3. ASSUME NEW i \in 1 .. Len(stack'), stack'[i].op = "flush"
      PROVE  FlushOK(stack[i])'
  <2>1. /\ i \in 1 .. Len(stack) /\ stack[i].op = "flush"
        /\ stack'[i].ref = stack[i].ref
        /\ stack'[i].at = stack[i].at
        /\ stack'[i].sent = stack[i].sent
    BY <1>3 DEF Same
  <2>2. FlushOK(stack[i])
    BY <2>1 DEF Inv, Flushing
  <2>. QED BY <1>1, <2>1, <2>2 DEF FlushOK, Account, Dropped, Linked
<1>4. \A i, j \in 1 .. Len(stack') :
        stack'[i].op = "flush" /\ stack'[j].op = "flush" /\ stack'[i].ref = stack'[j].ref
          => i = j
  BY DEF Inv, Flushing, Same
<1>5. ASSUME UNCHANGED scratch,
             \A i \in 1 .. Len(stack') : i = Len(stack) + 1 => stack'[i].op # "emit"
      PROVE  Lent'
  BY <1>1, <1>5, KeepsLent DEF Keeps
<1>. QED BY <1>2, <1>3, <1>4, <1>5 DEF Flushing

\* A group just unlinked satisfies what its flush needs.
LEMMA FlushOfFrame ==
  ASSUME NEW g \in Refs
  PROVE  /\ FlushOf(g) \in FlushFrame /\ FlushOf(g) \in Frame
         /\ FlushOf(g).op = "flush" /\ FlushOf(g).ref = g
         /\ FlushOf(g).at = 0 /\ FlushOf(g).sent = 0
BY DEF FlushOf, FlushFrame, Frame, NoError

\* Taking a pending group out of the list and the map.
LEMMA UnlinkProperties ==
  ASSUME Inv, NEW g \in Linked, Unlink(g)
  PROVE  /\ g \in Refs
         /\ order' \in Seq(Refs) /\ IsInjective(order') /\ ToSet(order') = Linked \ {g}
         /\ groups' \in [Keys -> Refs \union {Nil}]
         /\ heap[g].key \in Keys
         /\ \A k \in Keys : groups'[k] = IF k = heap[g].key THEN Nil ELSE groups[k]
         /\ bytes' \in Int
<1>1. order \in Seq(Refs) /\ IsInjective(order) /\ g \in ToSet(order)
  BY DEF Inv, TypeOK, Owned, Linked
<1>2. g \in Refs
  BY <1>1, ElementOfSeq, LenProperties DEF ToSet
<1>3. order' \in Seq(Refs) /\ IsInjective(order') /\ ToSet(order') = Linked \ {g}
  BY <1>1, RemoveFirstSet DEF Unlink, Detached, Linked
<1>4. heap[g].key \in Keys /\ groups[heap[g].key] = g /\ heap[g].bytes \in Int
  BY <1>2 DEF Inv, Mapped, TypeOK, Group
<1>5. /\ groups' \in [Keys -> Refs \union {Nil}]
      /\ \A k \in Keys : groups'[k] = IF k = heap[g].key THEN Nil ELSE groups[k]
  BY <1>4 DEF Inv, TypeOK, Unlink, Unmapped
<1>6. bytes' \in Int
  BY <1>4 DEF Inv, TypeOK, Unlink
<1>. QED BY <1>2, <1>3, <1>4, <1>5, <1>6

\* A step that takes a pending group out of the list and the map and starts its flush.
LEMMA UnlinkStep ==
  ASSUME Inv, NEW g \in Linked, Unlink(g), UNCHANGED <<heap, free, scratch>>,
         stack' \in Seq(Frame), Len(stack') = Len(stack) + 1,
         stack'[Len(stack) + 1] = FlushOf(g),
         \A i \in 1 .. Len(stack) : Same(stack'[i], stack[i])
  PROVE  (Formed /\ Owned /\ Mapped /\ Flushing /\ Lent)'
<1>1. /\ g \in Refs
      /\ order' \in Seq(Refs) /\ IsInjective(order') /\ ToSet(order') = Linked \ {g}
      /\ groups' \in [Keys -> Refs \union {Nil}]
      /\ heap[g].key \in Keys
      /\ \A k \in Keys : groups'[k] = IF k = heap[g].key THEN Nil ELSE groups[k]
  BY UnlinkProperties
<1>2. Linked' = Linked \ {g}
  BY <1>1 DEF Linked
<1>3. heap' = heap /\ free' = free
  OBVIOUS
<1>4. Formed' /\ Owned'
  <2>1. Formed'
    BY <1>3 DEF Inv, Formed, GroupOK, TextsOK, Whole
  <2>2. IsInjective(order)' /\ IsInjective(free)'
    BY <1>1, <1>3 DEF Inv, Owned
  <2>3. Linked' \intersect ToSet(free)' = {}
    BY <1>2, <1>3 DEF Inv, Owned
  <2>. QED BY <2>1, <2>2, <2>3 DEF Owned
<1>5. Mapped'
  <2>1. ASSUME NEW x \in Linked'
        PROVE  /\ heap[x].key \in Keys /\ groups'[heap[x].key] = x
               /\ heap[x].lines # <<>>
    BY <1>1, <1>2 DEF Inv, Mapped
  <2>2. ASSUME NEW k \in Keys, groups'[k] # Nil
        PROVE  groups'[k] \in Linked' /\ heap[groups'[k]].key = k
    BY <1>1, <1>2, <2>2 DEF Inv, Mapped
  <2>. QED BY <2>1, <2>2, <1>3 DEF Mapped
<1>6. Len(stack) \in Nat /\ Len(stack') = Len(stack) + 1
  BY LenProperties DEF Inv, TypeOK
<1>7. /\ FlushOf(g).op = "flush" /\ FlushOf(g).ref = g
      /\ FlushOf(g).at = 0 /\ FlushOf(g).sent = 0
  BY <1>1, FlushOfFrame
<1>8. ASSUME NEW i \in 1 .. Len(stack), stack'[i].op = "flush"
      PROVE  /\ stack[i].op = "flush" /\ stack'[i].ref = stack[i].ref
             /\ stack'[i].ref # g
             /\ FlushOK(stack[i])'
  <2>1. /\ stack[i].op = "flush"
        /\ stack'[i].ref = stack[i].ref
        /\ stack'[i].at = stack[i].at
        /\ stack'[i].sent = stack[i].sent
    BY <1>8 DEF Same
  <2>2. FlushOK(stack[i])
    BY <2>1 DEF Inv, Flushing
  <2>. QED BY <1>2, <1>3, <2>1, <2>2 DEF FlushOK, Account, Dropped
<1>9. FlushOK(FlushOf(g))'
  <2>1. heap[g].lines # <<>> /\ g \notin ToSet(free) /\ heap[g] \in Group
    BY <1>1 DEF Inv, Mapped, Owned, TypeOK
  <2>2. Len(heap[g].lines) >= 0
    BY <2>1 DEF Group
  <2>. QED BY <1>2, <1>3, <1>7, <2>1, <2>2 DEF FlushOK, Account, Dropped
<1>10. \A i \in 1 .. Len(stack') : stack'[i].op = "flush" => FlushOK(stack[i])'
  BY <1>6, <1>8, <1>9
<1>11. \A i, j \in 1 .. Len(stack') :
        stack'[i].op = "flush" /\ stack'[j].op = "flush" /\ stack'[i].ref = stack'[j].ref
          => i = j
  <2>1. \A i, j \in 1 .. Len(stack) :
          stack'[i].op = "flush" /\ stack'[j].op = "flush" /\ stack'[i].ref = stack'[j].ref
            => i = j
    BY <1>8 DEF Inv, Flushing
  <2>. QED BY <2>1, <1>6, <1>7, <1>8
<1>12. Lent'
  <2>1. \A i \in 1 .. Len(stack') : i \in 1 .. Len(stack) \/ i = Len(stack) + 1
    BY <1>6
  <2>. QED BY <2>1, <1>3, <1>7, KeepsLent DEF Keeps
<1>. QED BY <1>4, <1>5, <1>10, <1>11, <1>12 DEF Flushing
-----------------------------------------------------------------------------
(* The outside world.                                                       *)

LEMMA TickStep ==
  ASSUME Inv, Tick
  PROVE  Inv'
<1>1. UNCHANGED aggregator /\ UNCHANGED stack /\ UNCHANGED scratch
  BY DEF Tick
<1>2. TypeOK'
  BY BoundsAssumption DEF Inv, TypeOK, Tick, aggregator, history
<1>3. /\ stack' \in Seq(Frame) /\ Len(stack) \in Nat
      /\ \A i \in 1 .. Len(stack') : i \in 1 .. Len(stack) /\ Same(stack'[i], stack[i])
  BY <1>1, SameIsReflexive, LenProperties DEF Inv, TypeOK
<1>4. (Formed /\ Owned /\ Mapped /\ Flushing /\ Lent)'
  BY <1>1, <1>3, QuietStep
<1>. QED BY <1>2, <1>4 DEF Inv

LEMMA StutterStep ==
  ASSUME Inv, UNCHANGED vars
  PROVE  Inv'
<1>1. UNCHANGED aggregator /\ UNCHANGED stack /\ UNCHANGED scratch
  BY DEF vars
<1>2. TypeOK'
  BY DEF Inv, TypeOK, vars, aggregator, history
<1>3. /\ stack' \in Seq(Frame) /\ Len(stack) \in Nat
      /\ \A i \in 1 .. Len(stack') : i \in 1 .. Len(stack) /\ Same(stack'[i], stack[i])
  BY <1>1, SameIsReflexive, LenProperties DEF Inv, TypeOK
<1>4. (Formed /\ Owned /\ Mapped /\ Flushing /\ Lent)'
  BY <1>1, <1>3, QuietStep
<1>. QED BY <1>2, <1>4 DEF Inv

\* A call that only enters an activation other than a flush.
LEMMA EnterStep ==
  ASSUME Inv, UNCHANGED aggregator, UNCHANGED scratch,
         NEW f \in Frame, f.op # "flush", f.op # "emit",
         stack' = Push(stack, f)
  PROVE  /\ stack' \in Seq(Frame)
         /\ (Formed /\ Owned /\ Mapped /\ Flushing /\ Lent)'
<1>1. /\ stack' \in Seq(Frame)
      /\ Len(stack') = Len(stack) + 1 /\ Len(stack) \in Nat
      /\ stack'[Len(stack) + 1] = f
      /\ \A i \in 1 .. Len(stack) : stack'[i] = stack[i]
  BY PushProperties, LenProperties DEF Inv, TypeOK
<1>2. \A i \in 1 .. Len(stack') :
        \/ i \in 1 .. Len(stack) /\ Same(stack'[i], stack[i])
        \/ i = Len(stack) + 1 /\ stack'[i] = f
  BY <1>1, SameIsReflexive
<1>. QED BY <1>1, <1>2, QuietStep

LEMMA CallAddStep ==
  ASSUME Inv, NEW k \in Keys, NEW l \in Lines, NEW timed \in TimeModes, CallAdd(k, l, timed)
  PROVE  Inv'
<1> DEFINE f == [op |-> "AddAt", pc |-> "lookup", key |-> k, line |-> l,
                 when |-> IF timed THEN clock ELSE ZeroTime, data |-> fed[k] + 1,
                 held |-> NoError]
<1>1. /\ UNCHANGED aggregator
      /\ stack' = Push(stack, f)
      /\ fed' = [fed EXCEPT ![k] = @ + 1]
      /\ BeginCall
      /\ UNCHANGED <<scratch, clock, errors, result, delivered, lost>>
  BY DEF CallAdd, CallAddAt, When
<1>2. fed[k] \in Nat /\ fed' \in [StreamKeys -> Nat]
  BY <1>1 DEF Inv, TypeOK, StreamKeys
<1>3. (IF timed THEN clock ELSE ZeroTime) \in Time
  BY BoundsAssumption DEF Inv, TypeOK, Time, ZeroTime
<1>4. f \in Frame /\ f.op # "flush" /\ f.op # "emit"
  BY <1>2, <1>3 DEF Frame, AddFrame, NoError
<1> HIDE DEF f
<1>5. stack' \in Seq(Frame) /\ (Formed /\ Owned /\ Mapped /\ Flushing /\ Lent)'
  BY <1>1, <1>4, EnterStep
<1>6. TypeOK'
  BY <1>1, <1>2, <1>5 DEF Inv, TypeOK, aggregator, BeginCall, NoError
<1>. QED BY <1>5, <1>6 DEF Inv

LEMMA CallLoopStep ==
  ASSUME Inv, CallStop \/ \E t \in 1 .. MaxTime + 1 : CallFlushBefore(t)
  PROVE  Inv'
<1> DEFINE Enters(f) == /\ f.op # "flush" /\ f.op # "emit"
                        /\ UNCHANGED aggregator
                        /\ stack' = Push(stack, f)
                        /\ BeginCall
                        /\ UNCHANGED <<scratch, clock, errors, result, history>>
<1>1. PICK f \in Frame : Enters(f)
  <2>1. CASE CallStop
    <3> DEFINE f == [op |-> "Stop", before |-> Forever, held |-> NoError]
    <3>1. f \in Frame /\ f.op # "flush" /\ f.op # "emit"
      BY BoundsAssumption DEF Frame, LoopFrame, NoError, Forever
    <3>. QED BY <2>1, <3>1 DEF CallStop
  <2>2. ASSUME NEW t \in 1 .. MaxTime + 1, CallFlushBefore(t)
        PROVE  \E f \in Frame : Enters(f)
    <3> DEFINE f == [op |-> "FlushBefore", before |-> t, held |-> NoError]
    <3>1. f \in Frame /\ f.op # "flush" /\ f.op # "emit"
      BY BoundsAssumption DEF Frame, LoopFrame, NoError
    <3>. QED BY <2>2, <3>1 DEF CallFlushBefore
  <2>. QED BY <2>1, <2>2
<1>2. stack' \in Seq(Frame) /\ (Formed /\ Owned /\ Mapped /\ Flushing /\ Lent)'
  BY <1>1, EnterStep
<1>3. TypeOK'
  BY <1>1, <1>2 DEF Inv, TypeOK, aggregator, history, BeginCall, NoError
<1>. QED BY <1>2, <1>3 DEF Inv

\* The emitter is entered with a line, on top of the activations st.
LEMMA EmitLineStep ==
  ASSUME Inv, UNCHANGED aggregator, NEW st \in Seq(Frame),
         Len(st) = Len(stack), \A i \in 1 .. Len(stack) : Same(st[i], stack[i]),
         NEW key \in StreamKeys, NEW l \in Lines, NEW when \in Time, NEW data \in Nat,
         EmitLine(st, key, l, when, data)
  PROVE  /\ stack' \in Seq(Frame)
         /\ scratch' \in Seq(RetainedLine)
         /\ delivered' \in [StreamKeys -> Int]
         /\ (Formed /\ Owned /\ Mapped /\ Flushing /\ Lent)'
<1> DEFINE n == Len(stack)
           m == Len(scratch)
<1>1. /\ stack' \in Seq(Frame)
      /\ Len(stack') = n + 1
      /\ stack'[n + 1].op = "emit"
      /\ \A i \in 1 .. n : stack'[i] = st[i]
      /\ scratch' \in Seq(RetainedLine)
      /\ delivered' \in [StreamKeys -> Int]
      /\ stack'[n + 1].slot = m + 1
      /\ Len(scratch') = m + 1
      /\ \A i \in 1 .. m : scratch'[i] = scratch[i]
      /\ stack'[n + 1].entry.texts = <<scratch'[m + 1]>>
  BY EmitLineProperties DEF Inv, TypeOK
<1>2. n \in Nat /\ m \in Nat
  BY LenProperties DEF Inv, TypeOK
<1>3. UNCHANGED heap
  BY DEF aggregator
<1> HIDE DEF n, m
<1>4. \A i \in 1 .. Len(stack') :
        \/ i \in 1 .. n /\ Same(stack'[i], stack[i])
        \/ i = n + 1 /\ stack'[i].op = "emit"
  BY <1>1, <1>2 DEF n
<1>5. (Formed /\ Owned /\ Mapped /\ Flushing)'
  BY <1>1, <1>4, QuietStep DEF n
<1>6. ASSUME NEW i \in 1 .. n, stack'[i].op = "emit"
      PROVE  /\ stack'[i] = stack[i]
             /\ stack[i].slot <= Len(scratch')
             /\ stack[i].slot > 0 => scratch'[stack[i].slot] = scratch[stack[i].slot]
             /\ i > 1 => Keeps(i - 1)
  <2>1. stack'[i] = stack[i] /\ stack[i].op = "emit"
    BY <1>1, <1>2, <1>4, <1>6 DEF Same
  <2>2. stack[i].slot <= m
    BY <2>1 DEF Inv, Lent, n, m
  <2>3. stack[i].slot \in Nat
    BY <2>1, ElementOfSeq, FrameKinds DEF Inv, TypeOK, EmitFrame, n
  <2>4. i > 1 => i - 1 \in 1 .. n /\ i - 1 # n + 1
    BY <1>2
  <2>5. i > 1 => Keeps(i - 1)
    BY <2>4, <1>1, <1>2, <1>3, <1>4 DEF Keeps
  <2>. QED BY <2>1, <2>2, <2>3, <2>5, <1>1, <1>2
<1>7. ASSUME NEW i \in Nat, i = n + 1
      PROVE  View(i)' = stack'[i].entry.texts
  <2>1. stack'[i].slot = m + 1 /\ stack'[i].slot > 0
    BY <1>1, <1>2, <1>7
  <2>2. View(i)' = <<scratch'[stack'[i].slot]>>
    BY <2>1 DEF View
  <2>. QED BY <2>1, <2>2, <1>1, <1>7
<1>8. Lent'
  <2>1. stack'[n + 1].slot <= Len(scratch') /\ stack'[n + 1].slot > m /\ stack'[n + 1].slot # 0
    BY <1>1, <1>2
  <2>2. \A i \in 1 .. Len(stack') : stack'[i].op = "emit" =>
          \/ /\ i \in 1 .. n /\ stack'[i] = stack[i]
             /\ stack[i].slot <= Len(scratch')
             /\ stack[i].slot > 0 => scratch'[stack[i].slot] = scratch[stack[i].slot]
             /\ stack[i].slot = 0 /\ i > 1 => Keeps(i - 1)
          \/ /\ i = n + 1
             /\ stack'[i].slot <= Len(scratch')
             /\ stack'[i].slot > 0 => stack'[i].slot > m
             /\ View(i)' = stack'[i].entry.texts
    <3>1. \A i \in 1 .. Len(stack') : i \in 1 .. n \/ i = n + 1
      BY <1>1, <1>2
    <3>. TAKE i \in 1 .. Len(stack')
    <3>2. CASE i \in 1 .. n
      BY <3>2, <1>6
    <3>3. CASE i = n + 1
      BY <3>3, <2>1, <1>7
    <3>. QED BY <3>1, <3>2, <3>3
  <2>. QED BY <2>2, <1>1, LentStep DEF n, m
<1>. QED BY <1>1, <1>5, <1>8

LEMMA CallAddBypassStep ==
  ASSUME Inv, NEW l \in Lines, NEW timed \in TimeModes, CallAddBypass(l, timed)
  PROVE  Inv'
<1>1. /\ UNCHANGED aggregator
      /\ EmitLine(stack, NoKey, l, IF timed THEN clock ELSE ZeroTime, fed[NoKey] + 1)
      /\ fed' = [fed EXCEPT ![NoKey] = @ + 1]
      /\ BeginCall
      /\ UNCHANGED <<clock, errors, result, lost>>
  BY DEF CallAddBypass, CallAddAtBypass, When
<1>2. fed[NoKey] + 1 \in Nat /\ fed' \in [StreamKeys -> Nat] /\ NoKey \in StreamKeys
  BY <1>1 DEF Inv, TypeOK, StreamKeys
<1>3. (IF timed THEN clock ELSE ZeroTime) \in Time
  BY BoundsAssumption DEF Inv, TypeOK, Time, ZeroTime
<1>4. /\ stack \in Seq(Frame)
      /\ \A i \in 1 .. Len(stack) : Same(stack[i], stack[i])
  BY SameIsReflexive DEF Inv, TypeOK
<1>5. /\ stack' \in Seq(Frame)
      /\ scratch' \in Seq(RetainedLine)
      /\ delivered' \in [StreamKeys -> Int]
      /\ (Formed /\ Owned /\ Mapped /\ Flushing /\ Lent)'
  BY <1>1, <1>2, <1>3, <1>4, EmitLineStep
<1>6. TypeOK'
  BY <1>1, <1>2, <1>5 DEF Inv, TypeOK, aggregator, BeginCall, NoError
<1>. QED BY <1>5, <1>6 DEF Inv

\* An activation returns, the aggregator left alone.
LEMMA ReturnStep ==
  ASSUME Inv, stack # <<>>, NEW err \in Nat, Return(err)
  PROVE  /\ stack' \in Seq(Frame) /\ result' \in Nat
         /\ Len(stack') = Len(stack) - 1
         /\ \A i \in 1 .. Len(stack') : i \in 1 .. Len(stack) /\ Same(stack'[i], stack[i])
         /\ UNCHANGED aggregator => (Formed /\ Owned /\ Mapped /\ Flushing)'
         /\ UNCHANGED aggregator /\ UNCHANGED scratch => Lent'
<1>1. /\ stack' \in Seq(Frame)
      /\ Len(stack') = Len(stack) - 1 /\ Len(stack) \in Nat
      /\ \A i \in 1 .. Len(stack) - 1 : Same(stack'[i], stack[i])
  BY PopProperties, LenProperties DEF Inv, TypeOK, Return
<1>2. result' \in Nat
  BY DEF Inv, TypeOK, Return
<1>3. \A i \in 1 .. Len(stack') :
        i \in 1 .. Len(stack) /\ i # Len(stack) + 1 /\ Same(stack'[i], stack[i])
  BY <1>1
<1>. QED BY <1>1, <1>2, <1>3, QuietStep

LEMMA EmitterStep ==
  ASSUME Inv, Emitter
  PROVE  Inv'
<1>1. PICK err \in Nat :
        /\ EmitterReturns(err)
        /\ errors' \in Nat /\ raised' \in Nat
  <2>1. CASE EmitterSucceeds
    BY <2>1 DEF EmitterSucceeds, Inv, TypeOK, NoError
  <2>2. CASE EmitterFails
    BY <2>2 DEF EmitterFails, Inv, TypeOK
  <2>. QED BY <2>1, <2>2 DEF Emitter
<1>2. /\ stack # <<>> /\ Top.op = "emit" /\ Return(err)
      /\ scratch' = IF Top.slot = 0 THEN scratch ELSE SubSeq(scratch, 1, Top.slot - 1)
      /\ UNCHANGED aggregator /\ UNCHANGED <<clock, history>>
  BY <1>1 DEF EmitterReturns, Running
<1>3. /\ stack' \in Seq(Frame) /\ result' \in Nat
      /\ (Formed /\ Owned /\ Mapped /\ Flushing)'
      /\ Len(stack') = Len(stack) - 1
      /\ \A i \in 1 .. Len(stack') : i \in 1 .. Len(stack) /\ Same(stack'[i], stack[i])
  BY <1>2, ReturnStep
<1> DEFINE n == Len(stack)
           m == Len(scratch)
<1>6. /\ n \in Nat /\ n \in 1 .. n /\ Top = stack[n] /\ m \in Nat
      /\ stack[n].slot \in Nat /\ stack[n].slot <= m
  <2>1. n \in Nat /\ n \in 1 .. n /\ Top = stack[n] /\ m \in Nat /\ stack[n] \in EmitFrame
    BY <1>2, TopFrame, FrameKinds, LenProperties DEF Inv, TypeOK
  <2>2. stack[n].slot <= m
    BY <2>1, <1>2 DEF Inv, Lent
  <2>. QED BY <2>1, <2>2 DEF EmitFrame
<1> HIDE DEF n, m
<1>5. scratch' \in Seq(RetainedLine) /\ Lent' => Inv'
  <2>1. scratch' \in Seq(RetainedLine) => TypeOK'
    BY <1>1, <1>2, <1>3 DEF Inv, TypeOK, aggregator, history
  <2>. QED BY <2>1, <1>3 DEF Inv
<1>7. CASE Top.slot > 0
  <2> DEFINE k == stack[n].slot - 1
  <2>1. scratch' = SubSeq(scratch, 1, k) /\ scratch \in Seq(RetainedLine)
    BY <1>2, <1>6, <1>7 DEF Inv, TypeOK
  <2>2. k \in Nat /\ k < m
    BY <1>6, <1>7
  <2> HIDE DEF k
  <2>3. /\ scratch' \in Seq(RetainedLine) /\ Len(scratch') = k
        /\ \A i \in 1 .. k : scratch'[i] = scratch[i]
    BY <2>1, <2>2 DEF m
  <2>4. UNCHANGED heap
    BY <1>2 DEF aggregator
  <2>5. ASSUME NEW i \in 1 .. Len(stack'), stack'[i].op = "emit"
        PROVE  /\ i \in 1 .. Len(stack) /\ stack'[i] = stack[i]
               /\ stack[i].slot <= Len(scratch')
               /\ stack[i].slot > 0 => scratch'[stack[i].slot] = scratch[stack[i].slot]
               /\ i > 1 => Keeps(i - 1)
    <3>1. stack'[i] = stack[i] /\ stack[i].op = "emit" /\ i \in 1 .. n /\ i < n
      <4>1. Len(stack') = n - 1
        BY <1>3 DEF n
      <4>2. i \in 1 .. n /\ i < n
        BY <4>1, <2>5, <1>6
      <4>3. stack'[i].op = stack[i].op /\ stack'[i] = stack[i]
        BY <1>3, <2>5 DEF Same
      <4>. QED BY <4>2, <4>3, <2>5
    <3>2. stack[i].slot < stack[n].slot
      BY <3>1, <1>2, <1>6, <1>7 DEF Inv, Lent, n
    <3>3. stack[i].slot \in Nat
      BY <3>1, ElementOfSeq, FrameKinds DEF Inv, TypeOK, EmitFrame, n
    <3>4. stack[i].slot <= k
      BY <3>2, <3>3, <1>6 DEF k
    <3>5. i > 1 => i - 1 \in 1 .. Len(stack')
      BY <3>1, <1>3, <1>6 DEF n
    <3>6. i > 1 => Keeps(i - 1)
      BY <3>5, <2>4, <1>3 DEF Keeps
    <3>. QED BY <3>1, <3>3, <3>4, <3>6, <2>2, <2>3, <1>3 DEF n
  <2>6. Lent'
    BY <2>5, <1>3, LentStep
  <2>. QED BY <2>3, <2>6, <1>5
<1>8. CASE Top.slot = 0
  <2>1. UNCHANGED scratch
    BY <1>2, <1>8
  <2>2. Lent'
    BY <2>1, <1>2, ReturnStep
  <2>. QED BY <2>1, <2>2, <1>5 DEF Inv, TypeOK
<1>. QED BY <1>6, <1>7, <1>8
-----------------------------------------------------------------------------
(* Steps of AddAt and of the loops that leave the groups alone.             *)

\* AddAt moves on to another block.
LEMMA PcStep ==
  ASSUME Inv, Running("AddAt"),
         NEW pc \in {"lookup", "start", "drain", "evict", "return"}
  PROVE  LET st == SetTop([Top EXCEPT !.pc = pc])
         IN  /\ st \in Seq(Frame)
             /\ Len(st) = Len(stack)
             /\ \A i \in 1 .. Len(stack) : Same(st[i], stack[i])
<1> DEFINE f == [Top EXCEPT !.pc = pc]
<1>1. /\ stack \in Seq(Frame) /\ stack # <<>> /\ Top.op = "AddAt"
      /\ Len(stack) \in Nat /\ Top \in Frame /\ Top = stack[Len(stack)]
  BY TopFrame DEF Inv, TypeOK, Running
<1>2. f \in Frame /\ Same(f, Top)
  BY <1>1, AddFramePc
<1> HIDE DEF f
<1>3. /\ SetTop(f) \in Seq(Frame)
      /\ Len(SetTop(f)) = Len(stack)
      /\ SetTop(f)[Len(stack)] = f
      /\ \A i \in 1 .. Len(stack) - 1 : SetTop(f)[i] = stack[i]
  BY <1>1, <1>2, SetTopProperties
<1>4. \A i \in 1 .. Len(stack) : Same(SetTop(f)[i], stack[i])
  BY <1>1, <1>2, <1>3, SameIsReflexive
<1>. QED BY <1>3, <1>4 DEF f

LEMMA MoveStep ==
  ASSUME Inv, Miss \/ Starts
  PROVE  Inv'
<1>1. PICK pc \in {"start", "drain"} :
        /\ Running("AddAt")
        /\ stack' = SetTop([Top EXCEPT !.pc = pc])
        /\ KeepOutside
        /\ UNCHANGED aggregator /\ UNCHANGED <<result, history>>
  BY DEF Miss, Starts, At
<1>2. /\ stack' \in Seq(Frame)
      /\ Len(stack') = Len(stack)
      /\ \A i \in 1 .. Len(stack) : Same(stack'[i], stack[i])
  BY <1>1, PcStep
<1>3. (Formed /\ Owned /\ Mapped /\ Flushing /\ Lent)'
  <2>1. Len(stack) \in Nat /\ UNCHANGED scratch
    BY <1>1, LenProperties DEF Inv, TypeOK, KeepOutside
  <2>2. \A i \in 1 .. Len(stack') : i \in 1 .. Len(stack) /\ i # Len(stack) + 1
    BY <2>1, <1>2
  <2>. QED BY <2>1, <2>2, <1>1, <1>2, QuietStep
<1>4. TypeOK'
  BY <1>1, <1>2 DEF Inv, TypeOK, KeepOutside, aggregator, history
<1>. QED BY <1>3, <1>4 DEF Inv

LEMMA PassThroughStep ==
  ASSUME Inv, PassThrough
  PROVE  Inv'
<1> DEFINE st == SetTop([Top EXCEPT !.pc = "return"])
<1>1. /\ Running("AddAt")
      /\ EmitLine(st, Top.key, Top.line, Top.when, Top.data)
      /\ UNCHANGED aggregator /\ UNCHANGED <<clock, errors, raised, result, fed, lost>>
  BY DEF PassThrough, At
<1>2. /\ st \in Seq(Frame)
      /\ Len(st) = Len(stack)
      /\ \A i \in 1 .. Len(stack) : Same(st[i], stack[i])
  BY <1>1, PcStep
<1>3. Top.key \in StreamKeys /\ Top.line \in Lines /\ Top.when \in Time /\ Top.data \in Nat
  BY <1>1, TopFrame, AddFramePc DEF Inv, TypeOK, Running, StreamKeys
<1> HIDE DEF st
<1>4. /\ stack' \in Seq(Frame)
      /\ scratch' \in Seq(RetainedLine)
      /\ delivered' \in [StreamKeys -> Int]
      /\ (Formed /\ Owned /\ Mapped /\ Flushing /\ Lent)'
  BY <1>1, <1>2, <1>3, EmitLineStep
<1>5. TypeOK'
  BY <1>1, <1>4 DEF Inv, TypeOK, aggregator
<1>. QED BY <1>4, <1>5 DEF Inv

LEMMA CallReturnsStep ==
  ASSUME Inv, AddReturns \/ LoopReturns
  PROVE  Inv'
<1>1. /\ stack # <<>> /\ Top.op # "emit" /\ Return(Top.held)
      /\ KeepOutside
      /\ UNCHANGED aggregator /\ UNCHANGED history
  BY DEF AddReturns, LoopReturns, At, Looping, Running
<1>2. Top.held \in Nat
  BY <1>1, TopFrame, HeldFrame DEF Inv, TypeOK
<1>3. stack' \in Seq(Frame) /\ result' \in Nat /\ (Formed /\ Owned /\ Mapped /\ Flushing /\ Lent)'
  BY <1>1, <1>2, ReturnStep DEF KeepOutside
<1>4. TypeOK'
  BY <1>1, <1>3 DEF Inv, TypeOK, KeepOutside, aggregator, history
<1>. QED BY <1>3, <1>4 DEF Inv
-----------------------------------------------------------------------------
(* Steps that take a pending group out and start its flush.                 *)

\* The flush is started on top of st, the activations as they were but for the pc
\* of an AddAt.
LEMMA StartFlushStep ==
  ASSUME Inv, NEW g \in Linked, Unlink(g), UNCHANGED <<heap, free>>,
         NEW st \in Seq(Frame), Len(st) = Len(stack),
         \A i \in 1 .. Len(stack) : Same(st[i], stack[i]),
         stack' = Push(st, FlushOf(g)),
         UNCHANGED <<scratch, clock, errors, result, history>>, raised' \in Nat
  PROVE  Inv'
<1>1. /\ g \in Refs /\ order' \in Seq(Refs) /\ bytes' \in Int
      /\ groups' \in [Keys -> Refs \union {Nil}]
  BY UnlinkProperties
<1>2. FlushOf(g) \in Frame
  BY <1>1, FlushOfFrame
<1>3. /\ stack' \in Seq(Frame)
      /\ Len(stack') = Len(stack) + 1
      /\ stack'[Len(stack) + 1] = FlushOf(g)
      /\ \A i \in 1 .. Len(stack) : stack'[i] = st[i]
  <2>1. /\ Push(st, FlushOf(g)) \in Seq(Frame)
        /\ Len(Push(st, FlushOf(g))) = Len(st) + 1
        /\ Push(st, FlushOf(g))[Len(st) + 1] = FlushOf(g)
        /\ \A i \in 1 .. Len(st) : Push(st, FlushOf(g))[i] = st[i]
    BY <1>2, PushProperties
  <2>. QED BY <2>1
<1>4. \A i \in 1 .. Len(stack) : Same(stack'[i], stack[i])
  BY <1>3
<1>5. (Formed /\ Owned /\ Mapped /\ Flushing /\ Lent)'
  BY <1>3, <1>4, UnlinkStep
<1>6. TypeOK'
  BY <1>1, <1>3 DEF Inv, TypeOK, history
<1>. QED BY <1>5, <1>6 DEF Inv

\* The group a key maps to, and the one at the front of the list, are pending.
LEMMA PendingGroups ==
  ASSUME Inv
  PROVE  /\ \A k \in Keys : groups[k] # Nil => groups[k] \in Linked
         /\ order # <<>> => Head(order) \in Linked
BY TailSet DEF Inv, TypeOK, Mapped, Owned, Linked

LEMMA CallFlushStep ==
  ASSUME Inv, NEW k \in Keys, CallFlush(k)
  PROVE  Inv'
<1>1. groups[k] \in Linked
  BY PendingGroups DEF CallFlush
<1>2. /\ stack \in Seq(Frame)
      /\ \A i \in 1 .. Len(stack) : Same(stack[i], stack[i])
  BY SameIsReflexive DEF Inv, TypeOK
<1>3. raised' \in Nat
  BY DEF CallFlush, BeginCall, Inv, TypeOK, NoError
<1>4. /\ Unlink(groups[k])
      /\ stack' = Push(stack, FlushOf(groups[k]))
      /\ UNCHANGED <<heap, free, scratch, clock, errors, result, history>>
  BY DEF CallFlush
<1>. QED BY <1>1, <1>2, <1>3, <1>4, StartFlushStep

LEMMA BreakStep ==
  ASSUME Inv, Break
  PROVE  Inv'
<1> DEFINE g  == groups[Top.key]
           st == SetTop([Top EXCEPT !.pc = "start"])
<1>1. /\ Running("AddAt") /\ g # Nil
      /\ Unlink(g)
      /\ stack' = Push(st, FlushOf(g))
      /\ UNCHANGED <<scratch, clock, errors, raised>>
      /\ UNCHANGED <<heap, free, result, history>>
  BY DEF Break, At, KeepOutside
<1>2. /\ st \in Seq(Frame)
      /\ Len(st) = Len(stack)
      /\ \A i \in 1 .. Len(stack) : Same(st[i], stack[i])
  BY <1>1, PcStep
<1>3. g \in Linked
  BY <1>1, TopFrame, AddFramePc, PendingGroups DEF Inv, TypeOK, Running
<1>4. raised' \in Nat
  BY <1>1 DEF Inv, TypeOK
<1> HIDE DEF g, st
<1>. QED BY <1>1, <1>2, <1>3, <1>4, StartFlushStep

LEMMA DrainEvictFlushFirstStep ==
  ASSUME Inv, Drain \/ Evict \/ FlushFirst
  PROVE  Inv'
<1>1. PICK g \in Linked :
        /\ Unlink(g)
        /\ stack' = Push(stack, FlushOf(g))
        /\ UNCHANGED <<scratch, clock, errors, raised>>
        /\ UNCHANGED <<heap, free, result, history>>
  <2>1. CASE Drain
    <3>1. groups[Top.key] # Nil /\ Top.key \in Keys
      BY <2>1, TopFrame, AddFramePc DEF Drain, KeyIsFree, At, Running, Inv, TypeOK
    <3>. QED BY <2>1, <3>1, PendingGroups DEF Drain, KeepOutside
  <2>2. CASE Evict
    <3>1. order # <<>>
      BY <2>2, EmptySeq DEF Evict, OverCaps
    <3>. QED BY <2>2, <3>1, PendingGroups DEF Evict, KeepOutside
  <2>3. CASE FlushFirst
    BY <2>3, PendingGroups DEF FlushFirst, Stale, KeepOutside
  <2>. QED BY <2>1, <2>2, <2>3
<1>2. /\ stack \in Seq(Frame)
      /\ \A i \in 1 .. Len(stack) : Same(stack[i], stack[i])
  BY SameIsReflexive DEF Inv, TypeOK
<1>3. raised' \in Nat
  BY <1>1 DEF Inv, TypeOK
<1>. QED BY <1>1, <1>2, <1>3, StartFlushStep
-----------------------------------------------------------------------------
(* Steps that change one group.                                             *)

LEMMA BlankOK == Blank \in Group /\ GroupOK(Blank) /\ TextsOK(Blank)
<1>1. <<>> \in Seq(RetainedLine) /\ FALSE \in BOOLEAN /\ 0 \in Nat /\ {} \in SUBSET States
  OBVIOUS
<1>2. NoKey \in StreamKeys /\ ZeroTime \in Time /\ NoFormat \in Formats \union {NoFormat}
  BY BoundsAssumption DEF StreamKeys, ZeroTime, Time
<1>3. Blank \in Group
  BY <1>1, <1>2 DEF Blank, Group
<1>4. /\ Blank.lines = <<>> /\ Blank.bytes = 0 /\ Blank.total = 0 /\ Blank.capped = FALSE
      /\ Blank.acceptedLines = 0 /\ Blank.acceptedTotal = 0
  BY DEF Blank
<1>5. GroupOK(Blank) /\ TextsOK(Blank)
  BY <1>4, BoundsAssumption DEF GroupOK, TextsOK
<1>. QED BY <1>3, <1>5

\* Changing a group that no flush that goes on holds, and perhaps starting its flush.
LEMMA ChangeStep ==
  ASSUME Inv, NEW g \in Refs, NEW h \in Group, GroupOK(h), TextsOK(h),
         heap' = [heap EXCEPT ![g] = h],
         stack' \in Seq(Frame),
         \A r \in Linked' \union ToSet(free') : r \in Linked \union ToSet(free) \/ r = g,
         scratch' = scratch,
         \A i \in 1 .. Len(stack') :
            \/ /\ i \in 1 .. Len(stack) /\ Same(stack'[i], stack[i])
               /\ stack[i].op = "flush" => stack[i].ref # g
            \/ /\ i = Len(stack) + 1 /\ stack'[i] = FlushOf(g)
               /\ h.lines # <<>> /\ g \notin Linked' /\ g \notin ToSet(free')
  PROVE  heap' \in [Refs -> Group] /\ Formed' /\ Flushing' /\ Lent'
<1>1. /\ heap \in [Refs -> Group] /\ heap' \in [Refs -> Group]
      /\ heap'[g] = h
      /\ \A r \in Refs : r # g => heap'[r] = heap[r]
  BY DEF Inv, TypeOK
<1>2. ASSUME NEW r \in Refs PROVE (GroupOK(heap[r]) /\ TextsOK(heap[r]))'
  <2>1. CASE r = g
    BY <2>1, <1>1 DEF GroupOK, TextsOK, Whole
  <2>2. CASE r # g
    <3>1. GroupOK(heap[r]) /\ TextsOK(heap[r]) /\ heap'[r] = heap[r]
      BY <2>2, <1>1 DEF Inv, Formed
    <3>. QED BY <3>1 DEF GroupOK, TextsOK, Whole
  <2>. QED BY <2>1, <2>2
<1>3. Len(stack) \in Nat /\ Len(h.lines) \in Nat
  BY LenProperties DEF Inv, TypeOK, Group
<1>4. /\ FlushOf(g).op = "flush" /\ FlushOf(g).ref = g
      /\ FlushOf(g).at = 0 /\ FlushOf(g).sent = 0
  BY FlushOfFrame
<1>5. ASSUME NEW i \in 1 .. Len(stack'), stack'[i].op = "flush"
      PROVE  FlushOK(stack[i])'
  <2>1. CASE /\ i \in 1 .. Len(stack) /\ Same(stack'[i], stack[i])
             /\ stack[i].op = "flush" => stack[i].ref # g
    <3>1. /\ stack[i].op = "flush" /\ stack[i].ref # g
          /\ stack'[i].ref = stack[i].ref
          /\ stack'[i].at = stack[i].at
          /\ stack'[i].sent = stack[i].sent
      BY <1>5, <2>1 DEF Same
    <3>2. FlushOK(stack[i]) /\ stack[i] \in Frame
      BY <2>1, <3>1, ElementOfSeq DEF Inv, Flushing, TypeOK
    <3>3. stack[i].ref \in Refs
      BY <3>1, <3>2, FrameKinds DEF FlushFrame
    <3>4. heap'[stack[i].ref] = heap[stack[i].ref]
      BY <3>1, <3>3, <1>1
    <3>. QED BY <2>1, <3>1, <3>2, <3>4 DEF FlushOK, Account, Dropped
  <2>2. CASE /\ i = Len(stack) + 1 /\ stack'[i] = FlushOf(g)
             /\ h.lines # <<>> /\ g \notin Linked' /\ g \notin ToSet(free')
    BY <2>2, <1>1, <1>3, <1>4 DEF FlushOK, Account, Dropped
  <2>. QED BY <1>5, <2>1, <2>2
<1>6. ASSUME NEW i \in 1 .. Len(stack'), NEW j \in 1 .. Len(stack'),
             stack'[i].op = "flush", stack'[j].op = "flush", stack'[i].ref = stack'[j].ref
      PROVE  i = j
  <2>1. \A n \in 1 .. Len(stack') : stack'[n].op = "flush" =>
          \/ /\ n \in 1 .. Len(stack) /\ stack[n].op = "flush"
             /\ stack'[n].ref = stack[n].ref /\ stack[n].ref # g
          \/ n = Len(stack) + 1 /\ stack'[n].ref = g
    BY <1>4 DEF Same
  <2>. QED BY <1>6, <2>1 DEF Inv, Flushing
<1>7. Lent'
  <2>1. ASSUME NEW i \in 1 .. Len(stack), stack[i].op = "flush", stack[i].ref # g
        PROVE  heap'[stack[i].ref].lines = heap[stack[i].ref].lines
    <3>1. stack[i].ref \in Refs
      BY <2>1, ElementOfSeq, FrameKinds DEF Inv, TypeOK, FlushFrame
    <3>. QED BY <3>1, <2>1, <1>1
  <2>. QED BY <2>1, <1>4, KeepsLent DEF Keeps
<1>. QED BY <1>1, <1>2, <1>5, <1>6, <1>7 DEF Formed, Flushing

LEMMA ContinueStep ==
  ASSUME Inv, Continue
  PROVE  Inv'
<1> DEFINE me   == Top
           k    == me.key
           g    == groups[k]
           next == Step(me.line, heap[g].active).next
           h    == Grown(heap[g], me.line, me.when, me.data)
<1>1. /\ Running("AddAt") /\ g # Nil /\ next # {}
      /\ heap' = [heap EXCEPT ![g] = h]
      /\ UNCHANGED <<scratch, clock, errors, raised, free, result, history>>
  BY DEF Continue, At, KeepOutside
<1>2. k \in Keys /\ me.line \in Lines /\ me.when \in Time /\ me.data \in Nat
  BY <1>1, TopFrame, AddFramePc DEF Running, Inv, TypeOK
<1>3. g \in Linked /\ heap[g].key = k /\ heap[g].lines # <<>>
  BY <1>1, <1>2 DEF Inv, Mapped
<1>4. /\ order \in Seq(Refs) /\ IsInjective(order) /\ Linked = ToSet(order)
      /\ g \in Refs /\ heap[g] \in Group /\ GroupOK(heap[g]) /\ TextsOK(heap[g])
      /\ clock \in 1 .. MaxTime
      /\ g \notin ToSet(free) /\ Linked \intersect ToSet(free) = {}
      /\ stack \in Seq(Frame) /\ Len(stack) \in Nat
  <2>1. g \in Refs
    BY <1>1, <1>2 DEF Inv, TypeOK
  <2>. QED BY <2>1, <1>3, LenProperties DEF Inv, TypeOK, Owned, Formed, Linked
<1>5. h \in Group /\ GroupOK(h) /\ TextsOK(h) /\ h.lines # <<>> /\ h.key = k
  BY <1>2, <1>3, <1>4, GrownOK
<1>6. /\ heap'[g] = h
      /\ \A r \in Refs : r # g => heap'[r] = heap[r]
      /\ Linked \subseteq Refs
  BY <1>1, <1>4, LenProperties, ElementOfSeq DEF Inv, TypeOK, ToSet
<1>7. \A i \in 1 .. Len(stack) : stack[i].op = "flush" => stack[i].ref # g
  BY <1>3 DEF Inv, Flushing, FlushOK
<1>8. /\ Detached(g) \in Seq(Refs) /\ IsInjective(Detached(g))
      /\ ToSet(Detached(g)) = Linked \ {g}
  BY <1>3, <1>4, RemoveFirstSet DEF Detached
<1>9. IsInjective(free)
  BY DEF Inv, Owned
<1>10. h.bytes \in Nat /\ heap[g].bytes \in Nat /\ bytes \in Int
  BY <1>4, <1>5 DEF Group, Inv, TypeOK
<1>11. groups \in [Keys -> Refs \union {Nil}]
  BY DEF Inv, TypeOK
<1> HIDE DEF h, g
<1>12. CASE AllFinal(next)
  <2>1. /\ order' = Detached(g)
        /\ bytes' = bytes - heap[g].bytes
        /\ groups' = [groups EXCEPT ![k] = Nil]
        /\ stack' = Push(SetTop([me EXCEPT !.pc = "return"]), FlushOf(g))
    BY <1>12 DEF Continue, g
  <2> DEFINE st == SetTop([me EXCEPT !.pc = "return"])
  <2>2. /\ st \in Seq(Frame) /\ Len(st) = Len(stack)
        /\ \A i \in 1 .. Len(stack) : Same(st[i], stack[i])
    BY <1>1, PcStep
  <2> HIDE DEF st
  <2>3. FlushOf(g) \in Frame
    BY <1>4, FlushOfFrame
  <2>4. /\ Push(st, FlushOf(g)) \in Seq(Frame)
        /\ Len(Push(st, FlushOf(g))) = Len(st) + 1
        /\ Push(st, FlushOf(g))[Len(st) + 1] = FlushOf(g)
        /\ \A i \in 1 .. Len(st) : Push(st, FlushOf(g))[i] = st[i]
    BY <2>2, <2>3, PushProperties
  <2>5. /\ stack' \in Seq(Frame)
        /\ Len(stack') = Len(stack) + 1
        /\ stack'[Len(stack) + 1] = FlushOf(g)
        /\ \A i \in 1 .. Len(stack) : Same(stack'[i], stack[i])
    BY <2>1, <2>2, <2>4 DEF st
  <2>6. Linked' = Linked \ {g} /\ IsInjective(order') /\ order' \in Seq(Refs)
    BY <1>8, <2>1 DEF Linked
  <2>7. \A i \in 1 .. Len(stack') :
          \/ /\ i \in 1 .. Len(stack) /\ Same(stack'[i], stack[i])
             /\ stack[i].op = "flush" => stack[i].ref # g
          \/ /\ i = Len(stack) + 1 /\ stack'[i] = FlushOf(g)
             /\ h.lines # <<>> /\ g \notin Linked' /\ g \notin ToSet(free')
    BY <2>5, <2>6, <1>1, <1>4, <1>5, <1>7 DEF Same
  <2>8. heap' \in [Refs -> Group] /\ Formed' /\ Flushing' /\ Lent'
    BY <1>1, <1>4, <1>5, <2>5, <2>6, <2>7, ChangeStep DEF g, h
  <2>9. Owned'
    BY <1>1, <1>4, <1>9, <2>6 DEF Owned
  <2>10. \A x \in Keys : groups'[x] = IF x = k THEN Nil ELSE groups[x]
    BY <2>1, <1>2, <1>11
  <2>11. Mapped'
    <3>1. ASSUME NEW x \in Linked'
          PROVE  /\ heap'[x].key \in Keys /\ groups'[heap'[x].key] = x
                 /\ heap'[x].lines # <<>>
      <4>1. x \in Linked /\ x # g /\ heap'[x] = heap[x]
        BY <2>6, <1>6
      <4>2. heap[x].key \in Keys /\ groups[heap[x].key] = x /\ heap[x].lines # <<>>
        BY <4>1 DEF Inv, Mapped
      <4>3. heap[x].key # k
        BY <4>1, <4>2 DEF g
      <4>. QED BY <4>1, <4>2, <4>3, <2>10
    <3>2. ASSUME NEW y \in Keys, groups'[y] # Nil
          PROVE  groups'[y] \in Linked' /\ heap'[groups'[y]].key = y
      <4>1. y # k /\ groups'[y] = groups[y] /\ groups[y] # Nil
        BY <3>2, <2>10
      <4>2. groups[y] \in Linked /\ heap[groups[y]].key = y
        BY <4>1 DEF Inv, Mapped
      <4>3. groups[y] # g
        BY <4>1, <4>2, <1>3 DEF g
      <4>. QED BY <4>1, <4>2, <4>3, <1>6, <2>6
    <3>. QED BY <3>1, <3>2 DEF Mapped
  <2>12. groups' \in [Keys -> Refs \union {Nil}] /\ bytes' \in Int
    <3>1. groups' \in [Keys -> Refs \union {Nil}]
      BY <2>1, <1>11
    <3>2. bytes' \in Int
      BY <2>1, <1>10
    <3>. QED BY <3>1, <3>2
  <2>13. TypeOK'
    BY <1>1, <2>5, <2>6, <2>8, <2>12 DEF Inv, TypeOK, history
  <2>. QED BY <2>8, <2>9, <2>11, <2>13 DEF Inv
<1>13. CASE ~AllFinal(next)
  <2> DEFINE pc == IF MaxTotalBytes > 0 THEN "evict" ELSE "return"
  <2>1. /\ order' = MovedLast(g)
        /\ bytes' = bytes + h.bytes - heap[g].bytes
        /\ stack' = SetTop([me EXCEPT !.pc = pc])
        /\ groups' = groups
    BY <1>13 DEF Continue, g, h
  <2>2. pc \in {"lookup", "start", "drain", "evict", "return"}
    OBVIOUS
  <2> HIDE DEF pc
  <2>3. /\ stack' \in Seq(Frame) /\ Len(stack') = Len(stack)
        /\ \A i \in 1 .. Len(stack) : Same(stack'[i], stack[i])
    BY <1>1, <2>1, <2>2, PcStep
  <2>4. Linked' = Linked /\ IsInjective(order') /\ order' \in Seq(Refs)
    <3>1. order' = Append(Detached(g), g)
      BY <2>1 DEF MovedLast
    <3>2. /\ Append(Detached(g), g) \in Seq(Refs)
          /\ IsInjective(Append(Detached(g), g))
          /\ ToSet(Append(Detached(g), g)) = (Linked \ {g}) \union {g}
      BY <1>4, <1>8, AppendSet
    <3>3. (Linked \ {g}) \union {g} = Linked
      BY <1>3
    <3>. QED BY <3>1, <3>2, <3>3 DEF Linked
  <2>5. \A i \in 1 .. Len(stack') :
          /\ i \in 1 .. Len(stack) /\ Same(stack'[i], stack[i])
          /\ stack[i].op = "flush" => stack[i].ref # g
    BY <2>3, <1>7 DEF Same
  <2>6. heap' \in [Refs -> Group] /\ Formed' /\ Flushing' /\ Lent'
    <3>1. heap' = [heap EXCEPT ![g] = h] /\ free' = free
      BY <1>1 DEF g, h
    <3>2. \A r \in Linked' \union ToSet(free') : r \in Linked \union ToSet(free) \/ r = g
      BY <3>1, <2>4
    <3>. QED BY <1>1, <1>4, <1>5, <2>3, <2>5, <3>1, <3>2, ChangeStep
  <2>7. Owned'
    BY <1>1, <1>4, <1>9, <2>4 DEF Owned
  <2>8. Mapped'
    <3>1. \A x \in Linked : heap'[x].key = heap[x].key /\ heap'[x].lines # <<>>
      BY <1>3, <1>5, <1>6 DEF Inv, Mapped
    <3>. QED BY <3>1, <2>1, <2>4 DEF Inv, Mapped
  <2>9. bytes' \in Int
    BY <2>1, <1>10
  <2>10. TypeOK'
    BY <1>1, <1>11, <2>1, <2>3, <2>4, <2>6, <2>9 DEF Inv, TypeOK, history
  <2>. QED BY <2>6, <2>7, <2>8, <2>10 DEF Inv
<1>. QED BY <1>12, <1>13

\* The allocator hands out a group nobody holds.
LEMMA AllocatesProperties ==
  ASSUME Inv, NEW g \in Refs, Allocates(g)
  PROVE  /\ g \notin Linked
         /\ \A i \in 1 .. Len(stack) : stack[i].op = "flush" => stack[i].ref # g
         /\ free' \in Seq(Refs) /\ IsInjective(free')
         /\ ToSet(free') \subseteq ToSet(free) /\ g \notin ToSet(free')
<1>1. /\ free \in Seq(Refs) /\ IsInjective(free) /\ Linked \intersect ToSet(free) = {}
      /\ \A i \in 1 .. Len(stack) : stack[i].op = "flush" => stack[i].ref \notin ToSet(free)
  BY DEF Inv, TypeOK, Owned, Flushing, FlushOK
<1>2. CASE free # <<>>
  <2>1. g = Head(free) /\ free' = Tail(free)
    BY <1>2 DEF Allocates
  <2>2. /\ Tail(free) \in Seq(Refs) /\ IsInjective(Tail(free))
        /\ ToSet(Tail(free)) = ToSet(free) \ {Head(free)}
        /\ Head(free) \in ToSet(free)
    BY <1>1, <1>2, TailSet
  <2>. QED BY <1>1, <2>1, <2>2
<1>3. CASE free = <<>>
  <2>1. g \in Unused /\ free' = free
    BY <1>3 DEF Allocates
  <2>2. g \notin Linked /\ g \notin ToSet(free) /\ g \notin InFlight
    BY <2>1 DEF Unused, Linked
  <2>3. DOMAIN stack = 1 .. Len(stack)
    BY LenProperties DEF Inv, TypeOK
  <2>4. \A i \in 1 .. Len(stack) : stack[i].op = "flush" => stack[i].ref # g
    BY <2>2, <2>3 DEF InFlight
  <2>. QED BY <1>1, <2>1, <2>2, <2>4
<1>. QED BY <1>2, <1>3

LEMMA ClaimStep ==
  ASSUME Inv, Claim
  PROVE  Inv'
<1> DEFINE k    == Top.key
           next == Step(Top.line, {StartState}).next
           h    == NewGroup(k, Top.line, Top.when, Top.data)
<1>1. /\ Running("AddAt") /\ groups[k] = Nil
      /\ UNCHANGED <<scratch, clock, errors, raised, result, history>>
  BY DEF Claim, At, KeepOutside, KeyIsFree
<1>2. PICK g \in Refs :
        /\ Allocates(g)
        /\ heap' = [heap EXCEPT ![g] = h]
        /\ \/ /\ stack' = Push(SetTop([Top EXCEPT !.pc = "return"]), FlushOf(g))
              /\ UNCHANGED <<groups, order, bytes>>
           \/ /\ groups' = [groups EXCEPT ![k] = g]
              /\ order' = Append(order, g)
              /\ bytes' = bytes + h.bytes
              /\ stack' = SetTop([Top EXCEPT !.pc = "evict"])
  BY DEF Claim
<1>3. k \in Keys /\ Top.line \in Lines /\ Top.when \in Time /\ Top.data \in Nat
  BY <1>1, TopFrame, AddFramePc DEF Running, Inv, TypeOK
<1>4. h \in Group /\ GroupOK(h) /\ TextsOK(h) /\ h.lines # <<>> /\ h.key = k
  BY <1>3, NewGroupOK DEF Inv, TypeOK
<1> HIDE DEF h, k
<1>5. /\ g \notin Linked
      /\ \A i \in 1 .. Len(stack) : stack[i].op = "flush" => stack[i].ref # g
      /\ free' \in Seq(Refs) /\ IsInjective(free')
      /\ ToSet(free') \subseteq ToSet(free) /\ g \notin ToSet(free')
  BY <1>2, AllocatesProperties
<1>6. /\ order \in Seq(Refs) /\ IsInjective(order) /\ Linked = ToSet(order)
      /\ Linked \intersect ToSet(free) = {}
      /\ stack \in Seq(Frame) /\ Len(stack) \in Nat
      /\ groups \in [Keys -> Refs \union {Nil}] /\ bytes \in Int
  BY LenProperties DEF Inv, TypeOK, Owned, Linked
<1>7. Linked \subseteq Refs
  BY <1>6, LenProperties, ElementOfSeq DEF ToSet
<1>8. heap'[g] = h /\ \A r \in Refs : r # g => heap'[r] = heap[r]
  BY <1>2 DEF Inv, TypeOK
<1>9. CASE /\ stack' = Push(SetTop([Top EXCEPT !.pc = "return"]), FlushOf(g))
           /\ UNCHANGED <<groups, order, bytes>>
  <2> DEFINE st == SetTop([Top EXCEPT !.pc = "return"])
  <2>1. /\ st \in Seq(Frame) /\ Len(st) = Len(stack)
        /\ \A i \in 1 .. Len(stack) : Same(st[i], stack[i])
    BY <1>1, PcStep
  <2>2. stack' = Push(st, FlushOf(g))
    BY <1>9
  <2> HIDE DEF st
  <2>3. FlushOf(g) \in Frame
    BY FlushOfFrame
  <2>4. /\ Push(st, FlushOf(g)) \in Seq(Frame)
        /\ Len(Push(st, FlushOf(g))) = Len(st) + 1
        /\ Push(st, FlushOf(g))[Len(st) + 1] = FlushOf(g)
        /\ \A i \in 1 .. Len(st) : Push(st, FlushOf(g))[i] = st[i]
    BY <2>1, <2>3, PushProperties
  <2>5. /\ stack' \in Seq(Frame)
        /\ Len(stack') = Len(stack) + 1
        /\ stack'[Len(stack) + 1] = FlushOf(g)
        /\ \A i \in 1 .. Len(stack) : Same(stack'[i], stack[i])
    BY <2>1, <2>2, <2>4
  <2>6. Linked' = Linked /\ order' = order
    BY <1>9 DEF Linked
  <2>7. \A i \in 1 .. Len(stack') :
          \/ /\ i \in 1 .. Len(stack) /\ Same(stack'[i], stack[i])
             /\ stack[i].op = "flush" => stack[i].ref # g
          \/ /\ i = Len(stack) + 1 /\ stack'[i] = FlushOf(g)
             /\ h.lines # <<>> /\ g \notin Linked' /\ g \notin ToSet(free')
    BY <2>5, <2>6, <1>4, <1>5, <1>6 DEF Same
  <2>8. \A r \in Linked' \union ToSet(free') : r \in Linked \union ToSet(free) \/ r = g
    BY <2>6, <1>5
  <2>9. heap' \in [Refs -> Group] /\ Formed' /\ Flushing' /\ Lent'
    BY <1>1, <1>2, <1>4, <2>5, <2>7, <2>8, ChangeStep
  <2>10. Owned'
    BY <1>5, <1>6, <2>6 DEF Owned
  <2>11. \A x \in Linked : heap'[x] = heap[x]
    BY <1>5, <1>7, <1>8
  <2>12. Mapped'
    BY <1>9, <2>6, <2>11 DEF Inv, Mapped
  <2>13. TypeOK'
    BY <1>1, <1>5, <1>9, <2>5, <2>9 DEF Inv, TypeOK, history
  <2>. QED BY <2>9, <2>10, <2>12, <2>13 DEF Inv
<1>10. CASE /\ groups' = [groups EXCEPT ![k] = g]
            /\ order' = Append(order, g)
            /\ bytes' = bytes + h.bytes
            /\ stack' = SetTop([Top EXCEPT !.pc = "evict"])
  <2>1. /\ stack' \in Seq(Frame) /\ Len(stack') = Len(stack)
        /\ \A i \in 1 .. Len(stack) : Same(stack'[i], stack[i])
    BY <1>1, <1>10, PcStep
  <2>2. Linked' = Linked \union {g} /\ IsInjective(order') /\ order' \in Seq(Refs)
    BY <1>5, <1>6, <1>10, AppendSet DEF Linked
  <2>3. \A i \in 1 .. Len(stack') :
          /\ i \in 1 .. Len(stack) /\ Same(stack'[i], stack[i])
          /\ stack[i].op = "flush" => stack[i].ref # g
    BY <2>1, <1>5 DEF Same
  <2>4. \A r \in Linked' \union ToSet(free') : r \in Linked \union ToSet(free) \/ r = g
    BY <2>2, <1>5
  <2>5. heap' \in [Refs -> Group] /\ Formed' /\ Flushing' /\ Lent'
    BY <1>1, <1>2, <1>4, <2>1, <2>3, <2>4, ChangeStep
  <2>6. Owned'
    <3>1. Linked' \intersect ToSet(free') = {}
      BY <2>2, <1>5, <1>6
    <3>. QED BY <3>1, <2>2, <1>5 DEF Owned
  <2>7. \A x \in Keys : groups'[x] = IF x = k THEN g ELSE groups[x]
    BY <1>3, <1>6, <1>10 DEF k
  <2>8. \A x \in Linked : heap'[x] = heap[x]
    BY <1>5, <1>7, <1>8
  <2>9. k \in Keys /\ groups[k] = Nil /\ Nil \notin Linked
    BY <1>1, <1>3, <1>7, NamesAssumption DEF k
  <2>10. Mapped'
    <3>1. ASSUME NEW x \in Linked'
          PROVE  /\ heap'[x].key \in Keys /\ groups'[heap'[x].key] = x
                 /\ heap'[x].lines # <<>>
      <4>1. CASE x = g
        BY <4>1, <1>4, <1>8, <2>7, <2>9
      <4>2. CASE x # g
        <5>1. x \in Linked
          BY <4>2, <2>2
        <5>2. heap[x].key \in Keys /\ groups[heap[x].key] = x /\ heap[x].lines # <<>>
          BY <5>1 DEF Inv, Mapped
        <5>3. heap[x].key # k
          BY <5>1, <5>2, <2>9
        <5>. QED BY <5>1, <5>2, <5>3, <2>7, <2>8
      <4>. QED BY <4>1, <4>2
    <3>2. ASSUME NEW y \in Keys, groups'[y] # Nil
          PROVE  groups'[y] \in Linked' /\ heap'[groups'[y]].key = y
      <4>1. CASE y = k
        BY <4>1, <1>4, <1>8, <2>2, <2>7
      <4>2. CASE y # k
        <5>1. groups'[y] = groups[y] /\ groups[y] \in Linked /\ heap[groups[y]].key = y
          BY <3>2, <4>2, <2>7 DEF Inv, Mapped
        <5>. QED BY <5>1, <2>2, <2>8
      <4>. QED BY <4>1, <4>2
    <3>. QED BY <3>1, <3>2 DEF Mapped
  <2>11. groups' \in [Keys -> Refs \union {Nil}]
    BY <1>10, <1>6
  <2>12. bytes' \in Int
    BY <1>10, <1>4, <1>6 DEF Group
  <2>13. TypeOK'
    BY <1>1, <1>5, <2>1, <2>2, <2>5, <2>11, <2>12 DEF Inv, TypeOK, history
  <2>. QED BY <2>5, <2>6, <2>10, <2>13 DEF Inv
<1>. QED BY <1>2, <1>9, <1>10

\* A flush ends, one way or the other: its group is blanked, and parked or not.
LEMMA FlushEndsStep ==
  ASSUME Inv, FlushDone \/ FlushAborts
  PROVE  Inv'
<1> DEFINE g == Top.ref
<1>1. PICK err \in Nat :
        /\ Running("flush") /\ Return(err)
        /\ heap' = [heap EXCEPT ![g] = Blank]
        /\ free' \in {free, Released(g)}
        /\ UNCHANGED <<scratch, clock, errors, raised, groups, order, bytes, fed, delivered>>
        /\ \/ lost' = lost
           \/ lost' = [lost EXCEPT ![heap[g].key] = @ + heap[g].total - Top.sent]
  <2>1. CASE FlushDone
    BY <2>1 DEF FlushDone, NoError, KeepOutside, history
  <2>2. CASE FlushAborts
    <3>1. Top.held \in Nat
      BY <2>2, TopFrame, HeldFrame DEF FlushAborts, Running, Inv, TypeOK
    <3>. QED BY <2>2, <3>1 DEF FlushAborts, KeepOutside
  <2>. QED BY <2>1, <2>2
<1>2. /\ stack \in Seq(Frame) /\ stack # <<>> /\ Len(stack) \in Nat
      /\ Len(stack) \in 1 .. Len(stack)
      /\ Top = stack[Len(stack)] /\ Top \in Frame /\ Top.op = "flush"
      /\ Top \in FlushFrame
  BY <1>1, TopFrame, FrameKinds DEF Inv, TypeOK, Running
<1>3. g \in Refs /\ Top.sent \in Int
  BY <1>2 DEF FlushFrame
<1>4. g \notin Linked /\ g \notin ToSet(free)
  BY <1>2 DEF Inv, Flushing, FlushOK
<1>5. /\ stack' \in Seq(Frame) /\ result' \in Nat
      /\ Len(stack') = Len(stack) - 1
      /\ \A i \in 1 .. Len(stack) - 1 : Same(stack'[i], stack[i])
  BY <1>1, <1>2, ReturnStep, PopProperties DEF Return
<1>6. /\ free \in Seq(Refs) /\ IsInjective(free)
      /\ IsInjective(order) /\ Linked \intersect ToSet(free) = {}
  BY DEF Inv, TypeOK, Owned
<1> HIDE DEF g
<1>7. /\ free' \in Seq(Refs) /\ IsInjective(free')
      /\ ToSet(free') \subseteq ToSet(free) \union {g}
  <2>1. /\ <<g>> \o free \in Seq(Refs) /\ IsInjective(<<g>> \o free)
        /\ ToSet(<<g>> \o free) = ToSet(free) \union {g}
    BY <1>3, <1>4, <1>6, PrependSet
  <2>. QED BY <2>1, <1>1, <1>6 DEF Released
<1>8. Linked' = Linked /\ order' = order
  BY <1>1 DEF Linked
<1>9. \A i \in 1 .. Len(stack') :
        /\ i \in 1 .. Len(stack) /\ Same(stack'[i], stack[i])
        /\ stack[i].op = "flush" => stack[i].ref # g
  <2>1. ASSUME NEW i \in 1 .. Len(stack) - 1, stack[i].op = "flush"
        PROVE  stack[i].ref # g
    BY <2>1, <1>2 DEF Inv, Flushing, g
  <2>. QED BY <2>1, <1>2, <1>5 DEF Same
<1>10. Blank \in Group /\ GroupOK(Blank) /\ TextsOK(Blank)
  BY BlankOK
<1>11. heap' \in [Refs -> Group] /\ Formed' /\ Flushing' /\ Lent'
  <2>1. \A r \in Linked' \union ToSet(free') : r \in Linked \union ToSet(free) \/ r = g
    BY <1>7, <1>8
  <2>2. heap' = [heap EXCEPT ![g] = Blank]
    BY <1>1
  <2>. QED BY <2>1, <2>2, <1>1, <1>3, <1>5, <1>9, <1>10, ChangeStep
<1>12. Owned'
  BY <1>4, <1>6, <1>7, <1>8 DEF Owned
<1>13. Mapped'
  <2>1. \A x \in Linked : heap'[x] = heap[x]
    <3>1. Linked \subseteq Refs
      BY LenProperties, ElementOfSeq DEF Inv, TypeOK, ToSet, Linked
    <3>. QED BY <3>1, <1>1, <1>4 DEF Inv, TypeOK
  <2>. QED BY <2>1, <1>1, <1>8 DEF Inv, Mapped
<1>14. lost' \in [StreamKeys -> Int]
  <2>1. heap[g].key \in StreamKeys /\ heap[g].total \in Int
    BY <1>3 DEF Inv, TypeOK, Group
  <2>2. lost \in [StreamKeys -> Int]
    BY DEF Inv, TypeOK
  <2>3. lost[heap[g].key] + heap[g].total - Top.sent \in Int
    BY <2>1, <2>2, <1>3
  <2>. QED BY <2>2, <2>3, <1>1
<1>15. TypeOK'
  BY <1>1, <1>5, <1>7, <1>11, <1>14 DEF Inv, TypeOK
<1>. QED BY <1>11, <1>12, <1>13, <1>15 DEF Inv
-----------------------------------------------------------------------------
(* Steps that hand an entry of a group to the emitter.                      *)

\* The flush in progress on top of the stack, and the group it owns.
LEMMA FlushingTop ==
  ASSUME Inv, Running("flush")
  PROVE  /\ stack \in Seq(Frame) /\ stack # <<>> /\ Len(stack) \in 1 .. Len(stack)
         /\ Len(stack) \in Nat
         /\ Top = stack[Len(stack)] /\ Top \in FlushFrame /\ Top.op = "flush"
         /\ Top.ref \in Refs /\ Top.at \in Nat /\ Top.sent \in Int /\ Top.held \in Nat
         /\ heap[Top.ref] \in Group /\ GroupOK(heap[Top.ref]) /\ TextsOK(heap[Top.ref])
         /\ heap[Top.ref].lines # <<>>
         /\ Account(Top, heap[Top.ref])
<1>1. /\ stack \in Seq(Frame) /\ stack # <<>> /\ Len(stack) \in 1 .. Len(stack)
      /\ Len(stack) \in Nat
      /\ Top = stack[Len(stack)] /\ Top \in FlushFrame /\ Top.op = "flush"
  BY TopFrame, FrameKinds DEF Inv, TypeOK, Running
<1>2. Top.ref \in Refs /\ Top.at \in Nat /\ Top.sent \in Int /\ Top.held \in Nat
  BY <1>1 DEF FlushFrame
<1>3. FlushOK(Top)
  BY <1>1 DEF Inv, Flushing
<1>. QED BY <1>1, <1>2, <1>3 DEF FlushOK, Inv, TypeOK, Formed

LEMMA FlushEmitStep ==
  ASSUME Inv, Running("flush"), NEW e \in Entry, NEW at \in Nat, EmitFromGroup(e, at),
         Account([Top EXCEPT !.at = at, !.sent = @ + e.lines], heap[Top.ref]),
         e.texts = SubSeq(heap[Top.ref].lines, at - Len(e.texts) + 1, at)
  PROVE  Inv'
<1> DEFINE f  == [Top EXCEPT !.at = at, !.sent = @ + e.lines]
           em == EmitOf(e, 0)
<1>1. /\ stack' = Push(SetTop(f), em)
      /\ delivered' = [delivered EXCEPT ![e.key] = @ + e.lines]
      /\ UNCHANGED <<scratch, clock, errors, raised>>
      /\ UNCHANGED <<heap, groups, order, bytes, free>>
      /\ UNCHANGED <<result, fed, lost>>
  BY DEF EmitFromGroup, Deliver, KeepOutside, aggregator
<1>2. /\ stack \in Seq(Frame) /\ stack # <<>> /\ Len(stack) \in 1 .. Len(stack)
      /\ Len(stack) \in Nat
      /\ Top = stack[Len(stack)] /\ Top \in FlushFrame /\ Top.op = "flush"
  BY FlushingTop
<1>3. e.lines \in Int /\ e.key \in StreamKeys
  BY DEF Entry
<1>4. /\ f \in FlushFrame /\ f \in Frame /\ f.op = "flush" /\ f.ref = Top.ref
      /\ f.at = at /\ f.sent = Top.sent + e.lines
  <2>1. Top.sent \in Int /\ Top.sent + e.lines \in Int
    BY <1>3, FlushingTop
  <2> DEFINE total == Top.sent + e.lines
  <2>2. f = [Top EXCEPT !.at = at, !.sent = total]
    OBVIOUS
  <2> HIDE DEF f, total
  <2>3. f \in FlushFrame /\ f.at = at /\ f.sent = total /\ f.ref = Top.ref
    BY <2>1, <2>2, <1>2 DEF FlushFrame, total
  <2>4. f \in Frame /\ f.op = "flush"
    BY <2>3 DEF Frame, FlushFrame
  <2>. QED BY <2>3, <2>4 DEF total
<1>5. em \in Frame /\ em.op = "emit" /\ em.slot = 0 /\ em.entry = e
  BY DEF EmitOf, EmitFrame, Frame
<1>6. Account(f, heap[Top.ref])
  OBVIOUS
<1> HIDE DEF f, em
<1>7. /\ SetTop(f) \in Seq(Frame) /\ Len(SetTop(f)) = Len(stack)
      /\ SetTop(f)[Len(stack)] = f
      /\ \A i \in 1 .. Len(stack) - 1 : SetTop(f)[i] = stack[i]
  BY <1>2, <1>4, SetTopProperties
<1>8. /\ stack' \in Seq(Frame) /\ Len(stack') = Len(stack) + 1
      /\ stack'[Len(stack) + 1] = em
      /\ stack'[Len(stack)] = f
      /\ \A i \in 1 .. Len(stack) - 1 : stack'[i] = stack[i]
  <2>1. /\ Push(SetTop(f), em) \in Seq(Frame)
        /\ Len(Push(SetTop(f), em)) = Len(SetTop(f)) + 1
        /\ Push(SetTop(f), em)[Len(SetTop(f)) + 1] = em
        /\ \A i \in 1 .. Len(SetTop(f)) : Push(SetTop(f), em)[i] = SetTop(f)[i]
    BY <1>5, <1>7, PushProperties
  <2>2. stack' = Push(SetTop(f), em) /\ Len(SetTop(f)) = Len(stack)
    BY <1>1, <1>7
  <2>3. /\ stack' \in Seq(Frame) /\ Len(stack') = Len(stack) + 1
        /\ stack'[Len(stack) + 1] = em
        /\ \A i \in 1 .. Len(stack) : stack'[i] = SetTop(f)[i]
    BY <2>1, <2>2
  <2>4. \A i \in 1 .. Len(stack) - 1 : i \in 1 .. Len(stack)
    BY <1>2
  <2>. QED BY <2>3, <2>4, <1>2, <1>7
<1>9. \A i \in 1 .. Len(stack') : stack'[i].op = "flush" =>
        /\ i \in 1 .. Len(stack) /\ stack[i].op = "flush" /\ stack'[i].ref = stack[i].ref
        /\ i # Len(stack) => stack'[i] = stack[i]
        /\ i = Len(stack) => stack'[i] = f
  <2>. TAKE i \in 1 .. Len(stack')
  <2>1. i \in 1 .. Len(stack) - 1 \/ i = Len(stack) \/ i = Len(stack) + 1
    BY <1>2, <1>8
  <2>2. CASE i \in 1 .. Len(stack) - 1
    <3>1. i \in 1 .. Len(stack) /\ i # Len(stack)
      BY <2>2, <1>2
    <3>. QED BY <2>2, <3>1, <1>8
  <2>3. CASE i = Len(stack)
    BY <2>3, <1>2, <1>4, <1>8
  <2>4. CASE i = Len(stack) + 1
    BY <2>4, <1>5, <1>8
  <2>. QED BY <2>1, <2>2, <2>3, <2>4
<1>10. Formed' /\ Owned' /\ Mapped'
  BY <1>1 DEF Inv, Formed, Owned, Mapped, Linked, GroupOK, TextsOK, Whole
<1>11. ASSUME NEW i \in 1 .. Len(stack'), stack'[i].op = "flush"
       PROVE  FlushOK(stack[i])'
  <2>1. FlushOK(stack[i])
    BY <1>9, <1>11 DEF Inv, Flushing
  <2>2. CASE i # Len(stack)
    <3>1. stack'[i] = stack[i]
      BY <2>2, <1>9, <1>11
    <3>. QED BY <2>1, <3>1, <1>1 DEF FlushOK, Account, Dropped, Linked
  <2>3. CASE i = Len(stack)
    <3>1. /\ f.ref \notin Linked /\ f.ref \notin ToSet(free)
          /\ heap[f.ref].lines # <<>> /\ Account(f, heap[f.ref])
      BY <2>1, <2>3, <1>2, <1>4, <1>6 DEF FlushOK
    <3>2. stack'[i] = f
      BY <2>3, <1>8
    <3>. QED BY <3>1, <3>2, <1>1 DEF FlushOK, Account, Dropped, Linked
  <2>. QED BY <2>2, <2>3
<1>12. \A i, j \in 1 .. Len(stack') :
        stack'[i].op = "flush" /\ stack'[j].op = "flush" /\ stack'[i].ref = stack'[j].ref
          => i = j
  BY <1>9 DEF Inv, Flushing
<1>13. delivered' \in [StreamKeys -> Int]
  <2>1. delivered \in [StreamKeys -> Int]
    BY DEF Inv, TypeOK
  <2>2. delivered[e.key] + e.lines \in Int
    BY <2>1, <1>3
  <2>. QED BY <2>1, <2>2, <1>1
<1>14. TypeOK'
  BY <1>1, <1>8, <1>13 DEF Inv, TypeOK
<1>15. Lent'
  <2> DEFINE n == Len(stack)
  <2>1. ASSUME NEW i \in Nat, i = n + 1
        PROVE  View(i)' = em.entry.texts
    <3>1. /\ stack'[i] = em /\ stack'[i - 1] = f
          /\ ~(em.slot > 0) /\ em.entry = e /\ heap' = heap
          /\ i > 1 /\ f.op = "flush"
      BY <2>1, <1>1, <1>2, <1>4, <1>5, <1>8
    <3>2. View(i)' = SubSeq(heap'[f.ref].lines, f.at - Len(e.texts) + 1, f.at)
      BY <3>1 DEF View
    <3>3. View(i)' = e.texts
      BY <3>1, <3>2, <1>4
    <3>. QED BY <3>1, <3>3
  <2>2. ASSUME NEW i \in 1 .. Len(stack'), stack'[i].op = "emit", i # n + 1
        PROVE  /\ i \in 1 .. Len(stack) /\ stack'[i] = stack[i]
               /\ stack[i].slot <= Len(scratch')
               /\ stack[i].slot > 0 => scratch'[stack[i].slot] = scratch[stack[i].slot]
               /\ i > 1 => Keeps(i - 1)
    <3>1. i \in 1 .. n - 1 /\ stack'[i] = stack[i] /\ stack[i].op = "emit"
      BY <2>2, <1>2, <1>4, <1>8
    <3>2. stack[i].slot <= Len(scratch)
      BY <3>1, <1>2 DEF Inv, Lent
    <3>3. i > 1 => Keeps(i - 1)
      <4>1. \A j \in 1 .. n - 1 : Keeps(j)
        BY <1>1, <1>8, SameIsReflexive DEF Keeps
      <4>2. i > 1 => i - 1 \in 1 .. n - 1
        BY <3>1, <1>2
      <4>. QED BY <4>1, <4>2
    <3>4. i \in 1 .. Len(stack)
      BY <3>1, <1>2
    <3>. QED BY <3>1, <3>2, <3>3, <3>4, <1>1
  <2>3. stack'[n + 1] = em /\ stack'[n].op = "flush" /\ n + 1 > 1 /\ (n + 1) - 1 = n
    BY <1>2, <1>4, <1>8
  <2>4. em.slot <= Len(scratch')
    BY <1>1, <1>5, LenProperties DEF Inv, TypeOK
  <2>5. \A i \in 1 .. Len(stack') : stack'[i].op = "emit" =>
          \/ /\ i \in 1 .. Len(stack) /\ stack'[i] = stack[i]
             /\ stack[i].slot <= Len(scratch')
             /\ stack[i].slot > 0 => scratch'[stack[i].slot] = scratch[stack[i].slot]
             /\ stack[i].slot = 0 /\ i > 1 => Keeps(i - 1)
          \/ /\ i = Len(stack) + 1
             /\ stack'[i].slot <= Len(scratch')
             /\ stack'[i].slot > 0 => stack'[i].slot > Len(scratch)
             /\ View(i)' = stack'[i].entry.texts
    <3>. TAKE i \in 1 .. Len(stack')
    <3>1. CASE i = n + 1
      <4>1. i = Len(stack) + 1
        BY <3>1
      <4>2. stack'[i].slot = 0 /\ stack'[i].slot <= Len(scratch') /\ ~(stack'[i].slot > 0)
        BY <3>1, <2>3, <2>4, <1>5
      <4>3. View(i)' = stack'[i].entry.texts
        BY <3>1, <2>1, <2>3
      <4>. QED BY <4>1, <4>2, <4>3
    <3>2. CASE i # n + 1
      BY <3>2, <2>2
    <3>. QED BY <3>1, <3>2
  <2>. QED BY <2>5, <1>8, LentStep
<1>. QED BY <1>10, <1>11, <1>12, <1>14, <1>15 DEF Inv, Flushing

\* The entry of the accepted prefix: well typed, of at least two lines, and marked
\* truncated exactly when text it stands for is missing.
LEMMA PrefixEntryOK ==
  ASSUME NEW g \in Group, GroupOK(g), TextsOK(g), g.acceptedLines > 0
  PROVE  /\ PrefixEntry(g) \in Entry
         /\ PrefixEntry(g).lines >= 2
         /\ PrefixEntry(g).lines =
              g.acceptedTotal + (IF g.acceptedLines = Len(g.lines) THEN Dropped(g) ELSE 0)
         /\ PrefixEntry(g).truncated <=> Lossy(PrefixEntry(g))
         /\ PrefixEntry(g).texts = SubSeq(g.lines, 1, g.acceptedLines)
         /\ Len(PrefixEntry(g).texts) = g.acceptedLines
<1> DEFINE n == g.acceptedLines
           t == SubSeq(g.lines, 1, n)
           e == PrefixEntry(g)
<1>1. /\ g.lines \in Seq(RetainedLine) /\ Len(g.lines) \in Nat /\ n \in Nat
      /\ g.total \in Nat /\ g.acceptedTotal \in Nat /\ g.capped \in BOOLEAN
      /\ g.key \in StreamKeys /\ g.match \in Formats \union {NoFormat}
  BY DEF Group
<1>2. /\ n <= Len(g.lines) /\ g.acceptedTotal >= 2
      /\ Len(g.lines) - n <= g.total - g.acceptedTotal
      /\ n < Len(g.lines) => g.acceptedTotal = n
  BY DEF GroupOK
<1>3. Dropped(g) = g.total - g.acceptedTotal - (Len(g.lines) - n) /\ Dropped(g) \in Nat
  BY <1>1, <1>2 DEF Dropped
<1>4. /\ t \in Seq(RetainedLine) /\ Len(t) = n
      /\ \A i \in 1 .. n : t[i] = g.lines[i]
  BY <1>1, <1>2
<1>5. g.lines[1] \in RetainedLine
  BY <1>1, <1>2, ElementOfSeq
<1> HIDE DEF t, n
<1>6. /\ e.key = g.key /\ e.match = g.match
      /\ e.when = g.lines[1].when /\ e.data = g.lines[1].data
      /\ e.lines = g.acceptedTotal + (IF n = Len(g.lines) THEN Dropped(g) ELSE 0)
      /\ e.truncated = (g.capped /\ n = Len(g.lines))
      /\ e.texts = t
      /\ e = [key |-> e.key, match |-> e.match, when |-> e.when, data |-> e.data,
              lines |-> e.lines, truncated |-> e.truncated, texts |-> e.texts]
  BY DEF PrefixEntry, n, t
<1>7. e.lines \in Int /\ e.lines >= 2
  BY <1>1, <1>2, <1>3, <1>6
<1>8. e.when \in Time /\ e.data \in Nat
  BY <1>5, <1>6 DEF RetainedLine
<1>9. e.truncated \in BOOLEAN
  BY <1>6
<1> HIDE DEF e
<1>10. e \in Entry
  <2>1. [key |-> e.key, match |-> e.match, when |-> e.when, data |-> e.data,
         lines |-> e.lines, truncated |-> e.truncated, texts |-> e.texts] \in Entry
    BY <1>1, <1>4, <1>6, <1>7, <1>8, <1>9 DEF Entry
  <2>. QED BY <2>1, <1>6
<1>11. DOMAIN t = 1 .. n
  BY <1>4, LenProperties
<1>12. /\ \A i \in 1 .. Len(g.lines) : g.lines[i].size <= Size(g.lines[i].line)
       /\ \A i \in 1 .. Len(g.lines) :
            g.lines[i].size \in Nat /\ Size(g.lines[i].line) \in Nat
  <2>1. \A i \in 1 .. Len(g.lines) : g.lines[i] \in RetainedLine
    BY <1>1, ElementOfSeq
  <2>2. \A x \in RetainedLine : x.size \in Nat /\ Size(x.line) \in Nat
    BY LineAssumption DEF RetainedLine
  <2>. QED BY <2>1, <2>2 DEF TextsOK
<1>13. Lossy(e) <=> e.lines > n \/ \E i \in 1 .. n : ~Whole(g.lines[i])
  <2>1. \A i \in 1 .. n : t[i].size < Size(t[i].line) <=> ~Whole(g.lines[i])
    <3>. TAKE i \in 1 .. n
    <3>1. i \in 1 .. Len(g.lines) /\ t[i] = g.lines[i]
      BY <1>1, <1>2, <1>4 DEF n
    <3>2. /\ g.lines[i].size <= Size(g.lines[i].line)
          /\ g.lines[i].size \in Nat /\ Size(g.lines[i].line) \in Nat
      BY <3>1, <1>12
    <3>. QED BY <3>1, <3>2 DEF Whole
  <2>. QED BY <2>1, <1>4, <1>6, <1>11 DEF Lossy
<1>14. CASE n < Len(g.lines)
  <2>1. e.lines = n /\ ~e.truncated
    <3>1. n # Len(g.lines) /\ g.acceptedTotal = n
      BY <1>14, <1>1, <1>2 DEF n
    <3>2. ~e.truncated
      BY <3>1, <1>6
    <3>. QED BY <3>1, <3>2, <1>1, <1>6 DEF n
  <2>2. \A i \in 1 .. n : Whole(g.lines[i])
    BY <1>14, <1>1 DEF TextsOK, n
  <2>3. ~Lossy(e)
    BY <2>1, <2>2, <1>1, <1>13 DEF n
  <2>4. e.texts = SubSeq(g.lines, 1, g.acceptedLines) /\ Len(e.texts) = g.acceptedLines
    BY <1>4, <1>6 DEF n, t
  <2>5. /\ e \in Entry /\ e.lines >= 2 /\ (e.truncated <=> Lossy(e))
        /\ e.lines = g.acceptedTotal
                     + (IF g.acceptedLines = Len(g.lines) THEN Dropped(g) ELSE 0)
    BY <2>1, <2>3, <1>6, <1>7, <1>10 DEF n
  <2>. QED BY <2>4, <2>5 DEF e
<1>15. CASE n = Len(g.lines)
  <2>1. e.lines = g.total
    BY <1>15, <1>1, <1>3, <1>6 DEF n
  <2>2. e.truncated <=> g.capped
    BY <1>15, <1>6
  <2>3. g.capped <=> g.total > n \/ ~Whole(g.lines[n])
    BY <1>15, <1>1 DEF TextsOK, n
  <2>4. (\E i \in 1 .. n : ~Whole(g.lines[i])) <=> ~Whole(g.lines[n])
    <3>1. n \in 1 .. n
      BY <1>1 DEF n
    <3>2. \A i \in 1 .. n : i # n => Whole(g.lines[i])
      BY <1>15, <1>1 DEF TextsOK, n
    <3>. QED BY <3>1, <3>2
  <2>. QED BY <2>1, <2>2, <2>3, <2>4, <1>4, <1>6, <1>7, <1>10, <1>13 DEF e, n, t
<1>. QED BY <1>1, <1>2, <1>14, <1>15 DEF n

\* The entry of one line on its own.
LEMMA LineEntryOK ==
  ASSUME NEW g \in Group, GroupOK(g), TextsOK(g),
         NEW i \in 1 .. Len(g.lines), i > g.acceptedLines
  PROVE  /\ LineEntry(g, i) \in Entry
         /\ LineEntry(g, i).lines = 1 + (IF i = Len(g.lines) THEN Dropped(g) ELSE 0)
         /\ LineEntry(g, i).match = NoFormat
         /\ LineEntry(g, i).texts = <<g.lines[i]>>
         /\ LineEntry(g, i).truncated <=> Lossy(LineEntry(g, i))
<1> DEFINE n == Len(g.lines)
           l == g.lines[i]
           e == LineEntry(g, i)
<1>1. /\ g.lines \in Seq(RetainedLine) /\ n \in Nat
      /\ g.total \in Nat /\ g.acceptedLines \in Nat /\ g.acceptedTotal \in Nat
      /\ g.capped \in BOOLEAN /\ g.key \in StreamKeys
  BY DEF Group
<1>2. /\ n - g.acceptedLines <= g.total - g.acceptedTotal
      /\ g.acceptedLines < n => g.acceptedTotal = g.acceptedLines
  BY DEF GroupOK
<1>3. /\ Dropped(g) = g.total - g.acceptedTotal - (n - g.acceptedLines)
      /\ Dropped(g) = g.total - n /\ Dropped(g) \in Nat
  BY <1>1, <1>2 DEF Dropped
<1>4. l \in RetainedLine
  BY <1>1, ElementOfSeq
<1>5. /\ l.size \in Nat /\ Size(l.line) \in Nat /\ l.size <= Size(l.line)
      /\ l.when \in Time /\ l.data \in Nat
  BY <1>1, <1>4, LineAssumption DEF TextsOK, RetainedLine
<1> HIDE DEF l, n
<1>6. /\ e.key = g.key /\ e.match = NoFormat /\ e.when = l.when /\ e.data = l.data
      /\ e.lines = 1 + (IF i = n THEN Dropped(g) ELSE 0)
      /\ e.truncated = (g.capped /\ i = n)
      /\ e.texts = <<l>>
      /\ e = [key |-> e.key, match |-> e.match, when |-> e.when, data |-> e.data,
              lines |-> e.lines, truncated |-> e.truncated, texts |-> e.texts]
  BY DEF LineEntry, n, l
<1>7. e.lines \in Int /\ e.truncated \in BOOLEAN /\ <<l>> \in Seq(RetainedLine)
  BY <1>3, <1>4, <1>6
<1> HIDE DEF e
<1>8. e \in Entry
  <2>1. [key |-> e.key, match |-> e.match, when |-> e.when, data |-> e.data,
         lines |-> e.lines, truncated |-> e.truncated, texts |-> e.texts] \in Entry
    BY <1>1, <1>5, <1>6, <1>7 DEF Entry
  <2>. QED BY <2>1, <1>6
<1>9. Lossy(e) <=> e.lines > 1 \/ ~Whole(l)
  BY <1>5, <1>6 DEF Lossy, Whole
<1>10. CASE i < n
  <2>1. Whole(l)
    BY <1>10, <1>1 DEF TextsOK, l, n
  <2>2. i # n
    BY <1>1, <1>10
  <2>3. e.lines = 1
    BY <2>2, <1>6
  <2>4. ~e.truncated
    BY <2>2, <1>6
  <2>. QED BY <2>1, <2>3, <2>4, <1>6, <1>8, <1>9 DEF e, n, l
<1>11. CASE i = n
  <2>1. g.capped <=> g.total > n \/ ~Whole(l)
    BY <1>11, <1>1 DEF TextsOK, l, n
  <2>2. e.truncated <=> g.capped
    BY <1>6, <1>11
  <2>3. e.lines = 1 + g.total - n
    BY <1>1, <1>3, <1>6, <1>11
  <2>. QED BY <2>1, <2>2, <2>3, <1>1, <1>6, <1>8, <1>9 DEF e, n, l
<1>. QED BY <1>1, <1>10, <1>11 DEF n

LEMMA FlushPrefixStep ==
  ASSUME Inv, FlushPrefix
  PROVE  Inv'
<1> DEFINE g == heap[Top.ref]
           e == PrefixEntry(g)
           n == g.acceptedLines
           f == [Top EXCEPT !.at = n, !.sent = @ + e.lines]
<1>1. Running("flush") /\ Top.at = 0 /\ n > 0 /\ EmitFromGroup(e, n)
  BY DEF FlushPrefix
<1>2. /\ g \in Group /\ GroupOK(g) /\ TextsOK(g) /\ Top \in FlushFrame
      /\ Account(Top, g) /\ Top.sent \in Int
  BY <1>1, FlushingTop
<1>3. n \in Nat /\ Len(g.lines) \in Nat /\ g.acceptedTotal \in Nat /\ n <= Len(g.lines)
      /\ g.total \in Nat
  BY <1>2 DEF Group, GroupOK
<1>4. /\ e \in Entry
      /\ e.lines = g.acceptedTotal + (IF n = Len(g.lines) THEN Dropped(g) ELSE 0)
  BY <1>1, <1>2, PrefixEntryOK
<1>5. Top.sent = 0
  BY <1>1, <1>2 DEF Account
<1>6. f.at = n /\ f.sent = e.lines
  BY <1>2, <1>4, <1>5 DEF FlushFrame, Entry
<1>7. Account(f, g)
  <2> HIDE DEF f, e, g, n
  <2>1. Dropped(g) \in Int
    BY <1>3 DEF Dropped, n
  <2>. QED BY <1>1, <1>3, <1>4, <1>6, <2>1 DEF Account, n
<1>8. e.texts = SubSeq(g.lines, n - Len(e.texts) + 1, n)
  <2>1. e.texts = SubSeq(g.lines, 1, n) /\ Len(e.texts) = n
    BY <1>1, <1>2, PrefixEntryOK
  <2>2. n - n + 1 = 1
    BY <1>3
  <2>. QED BY <2>1, <2>2
<1>. QED BY <1>1, <1>3, <1>4, <1>7, <1>8, FlushEmitStep

LEMMA FlushLineStep ==
  ASSUME Inv, FlushLine
  PROVE  Inv'
<1> DEFINE g == heap[Top.ref]
           i == Top.at + 1
           e == LineEntry(g, i)
           f == [Top EXCEPT !.at = i, !.sent = @ + e.lines]
<1>1. /\ Running("flush") /\ EmitFromGroup(e, i)
      /\ Top.at >= g.acceptedLines /\ Top.at < Len(g.lines)
  BY DEF FlushLine
<1>2. /\ g \in Group /\ GroupOK(g) /\ TextsOK(g) /\ Top \in FlushFrame
      /\ Account(Top, g) /\ Top.sent \in Int /\ Top.at \in Nat
  BY <1>1, FlushingTop
<1>3. /\ g.acceptedLines \in Nat /\ Len(g.lines) \in Nat /\ g.acceptedTotal \in Nat
      /\ g.total \in Nat
      /\ g.acceptedLines = 0 => g.acceptedTotal = 0
  BY <1>2 DEF Group, GroupOK
<1>4. i \in 1 .. Len(g.lines) /\ i > g.acceptedLines
  BY <1>1, <1>2, <1>3
<1>5. /\ e \in Entry
      /\ e.lines = 1 + (IF i = Len(g.lines) THEN Dropped(g) ELSE 0)
  BY <1>2, <1>4, LineEntryOK
<1>6. Top.sent = g.acceptedTotal + (Top.at - g.acceptedLines)
  <2>1. /\ Top.at = 0 => Top.sent = 0
        /\ Top.at > 0 => Top.sent = g.acceptedTotal + (Top.at - g.acceptedLines)
             + (IF Top.at = Len(g.lines) THEN Dropped(g) ELSE 0)
    BY <1>2 DEF Account
  <2> HIDE DEF g
  <2>2. CASE Top.at = 0
    BY <2>1, <2>2, <1>1, <1>3
  <2>3. CASE Top.at > 0
    <3>1. Top.at # Len(g.lines)
      BY <1>1, <1>2, <1>3
    <3>2. Top.sent = g.acceptedTotal + (Top.at - g.acceptedLines) + 0
      BY <3>1, <2>1, <2>3
    <3>. QED BY <3>2, <1>2, <1>3
  <2>. QED BY <2>2, <2>3, <1>2
<1>7. f.at = i /\ f.sent = Top.sent + e.lines
  BY <1>2, <1>5 DEF FlushFrame, Entry
<1>8. Account(f, g)
  <2>1. Dropped(g) \in Int
    BY <1>3 DEF Dropped
  <2> HIDE DEF f, e, g
  <2>2. f.sent = g.acceptedTotal + (i - g.acceptedLines)
                 + (IF i = Len(g.lines) THEN Dropped(g) ELSE 0)
    BY SMTT(20), <1>2, <1>3, <1>5, <1>6, <1>7, <2>1
  <2>3. i > 0 /\ i <= Len(g.lines) /\ g.acceptedLines <= i
    BY <1>2, <1>3, <1>4
  <2>. QED BY <2>2, <2>3, <1>7 DEF Account
<1>9. i \in Nat
  BY <1>2
<1>10. e.texts = SubSeq(g.lines, i - Len(e.texts) + 1, i)
  <2>1. e.texts = <<g.lines[i]>> /\ g.lines \in Seq(RetainedLine)
    BY <1>2, <1>4, LineEntryOK DEF Group
  <2> HIDE DEF e, g, i
  <2>2. Len(e.texts) = 1 /\ i - 1 + 1 = i
    BY <2>1, <1>9
  <2>3. SubSeq(g.lines, i, i) = <<g.lines[i]>>
    <3>1. /\ SubSeq(g.lines, i, i) \in Seq(RetainedLine)
          /\ Len(SubSeq(g.lines, i, i)) = 1
          /\ SubSeq(g.lines, i, i)[1] = g.lines[i]
      BY <2>1, <1>4, <1>9
    <3> DEFINE s == SubSeq(g.lines, i, i)
    <3>2. s = [j \in 1 .. 1 |-> s[j]] /\ s[1] = g.lines[i]
      <4>1. DOMAIN s = 1 .. 1
        BY <3>1, LenProperties
      <4>2. s = [j \in DOMAIN s |-> s[j]]
        BY <3>1
      <4>. QED BY <4>1, <4>2, <3>1
    <3> HIDE DEF s
    <3>3. s = <<g.lines[i]>>
      BY <3>2
    <3>. QED BY <3>3 DEF s
  <2>. QED BY <2>1, <2>2, <2>3
<1>. QED BY <1>1, <1>5, <1>8, <1>9, <1>10, FlushEmitStep
-----------------------------------------------------------------------------
(* The inductive invariant.                                                 *)

LEMMA InitInv == Init => Inv
<1>. SUFFICES ASSUME Init PROVE Inv
  OBVIOUS
<1>1. <<>> \in Seq(Refs) /\ <<>> \in Seq(RetainedLine) /\ <<>> \in Seq(Frame)
  OBVIOUS
<1>2. TypeOK
  BY <1>1, BlankOK, BoundsAssumption DEF Init, TypeOK, NoError
<1>3. \A r \in Refs : heap[r] = Blank
  BY DEF Init
<1>4. Formed
  BY <1>3, BlankOK DEF Formed
<1>5. ToSet(<<>>) = {} /\ IsInjective(<<>>)
  BY DEF ToSet, IsInjective
<1>6. Linked = {} /\ ToSet(free) = {} /\ order = <<>> /\ free = <<>>
  BY <1>5 DEF Init, Linked
<1>7. Owned
  BY <1>5, <1>6 DEF Owned
<1>8. Mapped
  BY <1>6 DEF Init, Mapped
<1>9. Len(stack) = 0
  BY DEF Init
<1>10. Flushing
  BY <1>9 DEF Flushing
<1>11. Lent
  BY <1>9 DEF Lent
<1>. QED BY <1>2, <1>4, <1>7, <1>8, <1>10, <1>11 DEF Inv

LEMMA NextInv == Inv /\ [Next]_vars => Inv'
<1>. SUFFICES ASSUME Inv, [Next]_vars PROVE Inv'
  OBVIOUS
<1>1. CASE UNCHANGED vars
  BY <1>1, StutterStep
<1>2. CASE Tick
  BY <1>2, TickStep
<1>3. CASE Calls
  <2>1. ASSUME NEW k \in Keys, NEW l \in Lines, NEW timed \in TimeModes,
               CallAdd(k, l, timed)
        PROVE  Inv'
    BY <2>1, CallAddStep
  <2>2. ASSUME NEW l \in Lines, NEW timed \in TimeModes, CallAddBypass(l, timed)
        PROVE  Inv'
    BY <2>2, CallAddBypassStep
  <2>3. ASSUME NEW k \in Keys, CallFlush(k) PROVE Inv'
    BY <2>3, CallFlushStep
  <2>4. CASE CallStop \/ \E t \in 1 .. MaxTime + 1 : CallFlushBefore(t)
    BY <2>4, CallLoopStep
  <2>. QED BY <1>3, <2>1, <2>2, <2>3, <2>4 DEF Calls
<1>4. CASE Emitter
  BY <1>4, EmitterStep
<1>5. CASE AddAt
  <2>1. CASE Continue
    BY <2>1, ContinueStep
  <2>2. CASE Break
    BY <2>2, BreakStep
  <2>3. CASE Miss \/ Starts
    BY <2>3, MoveStep
  <2>4. CASE PassThrough
    BY <2>4, PassThroughStep
  <2>5. CASE Drain \/ Evict
    BY <2>5, DrainEvictFlushFirstStep
  <2>6. CASE Claim
    BY <2>6, ClaimStep
  <2>7. CASE AddReturns
    BY <2>7, CallReturnsStep
  <2>. QED BY <1>5, <2>1, <2>2, <2>3, <2>4, <2>5, <2>6, <2>7 DEF AddAt
<1>6. CASE FlushLoop
  BY <1>6, DrainEvictFlushFirstStep, CallReturnsStep DEF FlushLoop
<1>7. CASE Flush
  BY <1>7, FlushPrefixStep, FlushLineStep, FlushEndsStep DEF Flush
<1>. QED BY <1>1, <1>2, <1>3, <1>4, <1>5, <1>6, <1>7 DEF Next, Machine

\* Every reachable state satisfies the inductive invariant.
THEOREM Invariance == Spec => []Inv
BY InitInv, NextInv, PTL DEF Spec
-----------------------------------------------------------------------------
(* What follows from it in every state.                                     *)

\* Every reachable state has its type, whatever the emitter does.
THEOREM TypeCorrectness == Spec => []TypeOK
<1>1. Inv => TypeOK
  BY DEF Inv
<1>. QED BY <1>1, Invariance, PTL

\* The key map and the last-touched list never disagree, at any point of any call and
\* at any depth of re-entrancy: the drain loop of AddAt and unlink's comparison by
\* identity are enough (multiline.go:359-367, 677-683).
THEOREM MapAndListAgree == Spec => []MapMatchesList
<1>1. Inv => MapMatchesList
  BY DEF Inv, Mapped, Owned, MapMatchesList
<1>. QED BY <1>1, Invariance, PTL

\* No group is ever in two of: the list, the free list, a flush in progress.
THEOREM GroupsHaveOneOwner == Spec => []OneOwner
<1>1. ASSUME Inv PROVE OneOwner
  <2>1. DOMAIN stack = 1 .. Len(stack)
    BY <1>1, LenProperties DEF Inv, TypeOK
  <2>2. InFlight \intersect (Linked \union ToSet(free)) = {}
    BY <1>1, <2>1 DEF Inv, Flushing, FlushOK, InFlight
  <2>. QED BY <1>1, <2>1, <2>2 DEF Inv, Owned, Flushing, OneOwner
<1>. QED BY <1>1, Invariance, PTL

\* A group never retains more lines or bytes than the caps allow (append, cutAt).
THEOREM GroupsWithinCaps == Spec => []GroupWithinCaps
<1>1. ASSUME Inv PROVE GroupWithinCaps
  <2>1. DOMAIN stack = 1 .. Len(stack) /\ DOMAIN order = 1 .. Len(order)
    BY <1>1, LenProperties DEF Inv, TypeOK
  <2>2. Linked \subseteq Refs
    BY <1>1, <2>1, ElementOfSeq DEF Inv, TypeOK, Linked, ToSet
  <2>3. InFlight \subseteq Refs
    <3>1. \A i \in 1 .. Len(stack) : stack[i] \in Frame
      BY <1>1, ElementOfSeq DEF Inv, TypeOK
    <3>2. \A i \in 1 .. Len(stack) : stack[i].op = "flush" => stack[i].ref \in Refs
      BY <3>1, FrameKinds DEF FlushFrame
    <3>. QED BY <3>2, <2>1 DEF InFlight
  <2>. QED BY <1>1, <2>2, <2>3 DEF Inv, Formed, GroupOK, GroupWithinCaps
<1>. QED BY <1>1, Invariance, PTL

\* A flush that handed over its last line has sent exactly the lines its group
\* consumed, those the caps dropped included (multiline.go, flush).
THEOREM LinesAddUp == Spec => []LinesSumToTotal
<1>1. ASSUME Inv PROVE LinesSumToTotal
  <2>. SUFFICES ASSUME NEW i \in DOMAIN stack, stack[i].op = "flush",
                       stack[i].at = Len(heap[stack[i].ref].lines)
                PROVE  stack[i].sent = heap[stack[i].ref].total
    BY DEF LinesSumToTotal
  <2> DEFINE g == heap[stack[i].ref]
  <2>1. i \in 1 .. Len(stack) /\ stack[i] \in Frame
    BY <1>1, LenProperties, ElementOfSeq DEF Inv, TypeOK
  <2>2. FlushOK(stack[i])
    BY <1>1, <2>1 DEF Inv, Flushing
  <2>3. g \in Group
    BY <1>1, <2>1, FrameKinds DEF Inv, TypeOK, FlushFrame
  <2>4. /\ g.lines # <<>> /\ Len(g.lines) \in Nat /\ g.lines \in Seq(RetainedLine)
        /\ g.total \in Nat /\ g.acceptedTotal \in Nat /\ g.acceptedLines \in Nat
    BY <2>2, <2>3 DEF Group, FlushOK
  <2>5. Len(g.lines) > 0
    BY <2>4, EmptySeq
  <2>6. stack[i].sent = g.acceptedTotal + (Len(g.lines) - g.acceptedLines) + Dropped(g)
    BY <2>2, <2>5 DEF FlushOK, Account
  <2> HIDE DEF g
  <2>7. stack[i].sent = g.total
    BY <2>4, <2>6 DEF Dropped
  <2>. QED BY <2>7 DEF g
<1>. QED BY <1>1, Invariance, PTL

\* The Texts an emitter was lent read the same as long as it runs, whatever calls it
\* makes: emitLine takes one slot of Aggregator.scratch per depth, and a group is
\* released after its last entry.
THEOREM TextsStayIntact == Spec => []TextsIntact
<1>1. ASSUME Inv PROVE TextsIntact
  <2>1. DOMAIN stack = 1 .. Len(stack)
    BY <1>1, LenProperties DEF Inv, TypeOK
  <2>. QED BY <1>1, <2>1 DEF Inv, Lent, TextsIntact, Emitting
<1>. QED BY <1>1, Invariance, PTL
-----------------------------------------------------------------------------
(* What follows from it for every entry handed to the emitter.              *)

\* Entering an activation makes it the last one.
LEMMA LastOfPush ==
  ASSUME NEW st \in Seq(Frame), NEW f \in Frame
  PROVE  Last(Push(st, f)) = f
<1>1. Push(st, f)[Len(st) + 1] = f /\ Len(Push(st, f)) = Len(st) + 1
  BY PushProperties
<1>. QED BY <1>1 DEF Last

\* The emitter is entered by the empty key, by a line that passes through, and by a
\* flush, and by nothing else.
LEMMA WhoEmits ==
  ASSUME Inv, [Next]_vars, Emits
  PROVE  \/ \E l \in Lines, timed \in TimeModes : CallAddBypass(l, timed)
         \/ PassThrough \/ FlushPrefix \/ FlushLine
<1>1. stack \in Seq(Frame) /\ Len(stack) \in Nat
  BY LenProperties DEF Inv, TypeOK
<1>2. ASSUME UNCHANGED stack PROVE FALSE
  BY <1>1, <1>2 DEF Emits
<1>3. ASSUME NEW st \in Seq(Frame), NEW f \in Frame, stack' = Push(st, f), f.op # "emit"
      PROVE  FALSE
  BY <1>3, LastOfPush DEF Emits
<1>4. ASSUME NEW f \in Frame, stack # <<>>, stack' = SetTop(f) PROVE FALSE
  <2>1. Len(SetTop(f)) = Len(stack)
    BY <1>1, <1>4, SetTopProperties
  <2>. QED BY <1>1, <1>4, <2>1 DEF Emits
<1>5. ASSUME NEW err \in Nat, stack # <<>>, Return(err) PROVE FALSE
  <2>1. Len(stack') = Len(stack) - 1
    BY <1>1, <1>5, PopProperties DEF Return
  <2>. QED BY <1>1, <2>1 DEF Emits
<1>6. ASSUME NEW g \in Refs, NEW st \in Seq(Frame), stack' = Push(st, FlushOf(g))
      PROVE  FALSE
  BY <1>3, <1>6, FlushOfFrame
<1>7. ASSUME Running("AddAt")
      PROVE  /\ stack # <<>> /\ Top.key \in Keys
             /\ \A pc \in {"lookup", "start", "drain", "evict", "return"} :
                  /\ [Top EXCEPT !.pc = pc] \in Frame
                  /\ SetTop([Top EXCEPT !.pc = pc]) \in Seq(Frame)
  BY <1>1, <1>7, TopFrame, AddFramePc, PcStep DEF Running
<1>8. Linked \subseteq Refs
  BY LenProperties, ElementOfSeq DEF Inv, TypeOK, Linked, ToSet
<1>9. \A k \in Keys : groups[k] # Nil => groups[k] \in Refs
  BY DEF Inv, TypeOK
<1>10. ~UNCHANGED vars /\ ~Tick
  BY <1>2 DEF vars, Tick
<1>11. ~Emitter /\ ~FlushDone /\ ~FlushAborts /\ ~AddReturns /\ ~LoopReturns
  <2>1. ~Emitter
    BY <1>5 DEF Emitter, EmitterSucceeds, EmitterFails, EmitterReturns, Running, NoError, Inv, TypeOK
  <2>2. ~FlushDone
    BY <1>5 DEF FlushDone, Running, NoError
  <2>3. ~FlushAborts
    BY <1>5, FlushingTop DEF FlushAborts, Running
  <2>4. ~AddReturns /\ ~LoopReturns
    <3>1. ASSUME stack # <<>>, Top.op # "emit" PROVE Top.held \in Nat
      BY <3>1, <1>1, TopFrame, HeldFrame
    <3>. QED BY <1>5, <3>1 DEF AddReturns, LoopReturns, At, Looping, Running
  <2>. QED BY <2>1, <2>2, <2>3, <2>4
<1>12. ~CallStop /\ ~ \E t \in 1 .. MaxTime + 1 : CallFlushBefore(t)
  <2>1. [op |-> "Stop", before |-> Forever, held |-> NoError] \in Frame
    BY BoundsAssumption DEF Frame, LoopFrame, NoError, Forever
  <2>2. \A t \in 1 .. MaxTime + 1 :
          [op |-> "FlushBefore", before |-> t, held |-> NoError] \in Frame
    BY BoundsAssumption DEF Frame, LoopFrame, NoError
  <2>. QED BY <1>1, <1>3, <2>1, <2>2 DEF CallStop, CallFlushBefore
<1>13. ASSUME NEW k \in Keys, NEW l \in Lines, NEW timed \in TimeModes, CallAdd(k, l, timed)
       PROVE  FALSE
  <2> DEFINE f == [op |-> "AddAt", pc |-> "lookup", key |-> k, line |-> l,
                   when |-> IF timed THEN clock ELSE ZeroTime, data |-> fed[k] + 1,
                   held |-> NoError]
  <2>1. (IF timed THEN clock ELSE ZeroTime) \in Time
    BY BoundsAssumption DEF Inv, TypeOK, Time, ZeroTime
  <2>2. fed[k] + 1 \in Nat
    BY DEF Inv, TypeOK, StreamKeys
  <2>3. f \in Frame /\ f.op # "emit"
    BY <2>1, <2>2 DEF Frame, AddFrame, NoError
  <2>4. stack' = Push(stack, f)
    BY <1>13 DEF CallAdd, CallAddAt, When
  <2>. QED BY <1>1, <1>3, <2>3, <2>4
<1>14. ASSUME NEW k \in Keys, CallFlush(k) PROVE FALSE
  BY <1>1, <1>6, <1>9, <1>14 DEF CallFlush
<1>15. ~Miss /\ ~Starts
  BY <1>4, <1>7 DEF Miss, Starts, At
<1>16. ~Continue
  BY <1>4, <1>6, <1>7, <1>9 DEF Continue, At
<1>17. ~Break
  BY <1>6, <1>7, <1>9 DEF Break, At
<1>18. ~Claim
  BY <1>4, <1>6, <1>7 DEF Claim, At
<1>19. ~Drain
  BY <1>1, <1>6, <1>7, <1>9 DEF Drain, KeyIsFree, At
<1>20. ~Evict /\ ~FlushFirst
  <2>1. order # <<>> => Head(order) \in Refs
    BY <1>8, PendingGroups
  <2>2. OverCaps => order # <<>>
    BY EmptySeq DEF OverCaps
  <2>. QED BY <1>1, <1>6, <2>1, <2>2 DEF Evict, FlushFirst, Stale
<1>. QED BY <1>10, <1>11, <1>12, <1>13, <1>14, <1>15, <1>16, <1>17, <1>18, <1>19, <1>20
         DEF Next, Calls, Machine, AddAt, FlushLoop, Flush

\* A line on its own, kept whole.
Single(e) ==
  /\ e.lines = 1 /\ ~e.truncated /\ e.match = NoFormat
  /\ \E text \in RetainedLine : Whole(text) /\ e.texts = <<text>>

\* The longest accepted prefix of g, or a line of g after it.
FromGroup(e, g) ==
  \/ g.acceptedLines > 0 /\ e = PrefixEntry(g)
  \/ \E i \in 1 .. Len(g.lines) : i > g.acceptedLines /\ e = LineEntry(g, i)

\* What the emitter is entered with.
LEMMA WhatEmits ==
  ASSUME Inv, [Next]_vars, Emits
  PROVE  LET e == Last(stack').entry
         IN  Single(e) \/ (Running("flush") /\ FromGroup(e, heap[Top.ref]))
<1> DEFINE e == Last(stack').entry
<1>1. ASSUME NEW st \in Seq(Frame), NEW key \in StreamKeys, NEW l \in Lines,
             NEW when \in Time, NEW data \in Nat, EmitLine(st, key, l, when, data)
      PROVE  Single(e)
  <2> DEFINE text == [line |-> l, size |-> Size(l), when |-> when, data |-> data]
             x    == [key |-> key, match |-> NoFormat, when |-> when, data |-> data,
                      lines |-> 1, truncated |-> FALSE, texts |-> <<text>>]
             f    == EmitOf(x, Slot)
  <2>1. stack' = Append(st, f)
    BY <1>1 DEF EmitLine, Push
  <2>2. text \in RetainedLine /\ Whole(text)
    BY LineAssumption DEF RetainedLine, Whole
  <2>3. f.entry = x
    BY DEF EmitOf
  <2>4. Single(x)
    BY <2>2 DEF Single
  <2>5. Last(stack') = f
    <3> HIDE DEF f
    <3>1. st \in Seq(Frame \union {f})
      OBVIOUS
    <3>2. Len(Append(st, f)) = Len(st) + 1 /\ Append(st, f)[Len(st) + 1] = f
      BY <3>1, AppendProperties
    <3>. QED BY <2>1, <3>2 DEF Last
  <2> HIDE DEF x, f
  <2>. QED BY <2>3, <2>4, <2>5
<1>2. ASSUME NEW x \in Entry, NEW at \in Nat, Running("flush"), EmitFromGroup(x, at)
      PROVE  e = x
  <2> DEFINE f == [Top EXCEPT !.at = at, !.sent = @ + x.lines]
  <2>1. Top \in FlushFrame /\ stack \in Seq(Frame) /\ stack # <<>> /\ Top.sent \in Int
    BY <1>2, FlushingTop
  <2>2. Top.sent + x.lines \in Int
    BY <2>1 DEF Entry
  <2>3. f \in Frame
    BY <2>1, <2>2 DEF FlushFrame, Frame
  <2>4. EmitOf(x, 0) \in Frame /\ EmitOf(x, 0).entry = x
    BY DEF EmitOf, EmitFrame, Frame
  <2>5. SetTop(f) \in Seq(Frame)
    BY <2>1, <2>3, SetTopProperties
  <2>6. stack' = Push(SetTop(f), EmitOf(x, 0))
    BY <1>2 DEF EmitFromGroup
  <2> HIDE DEF f
  <2>. QED BY <2>4, <2>5, <2>6, LastOfPush
<1> HIDE DEF e
<1>3. ASSUME NEW l \in Lines, NEW timed \in TimeModes, CallAddBypass(l, timed)
      PROVE  Single(e)
  <2>1. /\ (IF timed THEN clock ELSE ZeroTime) \in Time
        /\ fed[NoKey] + 1 \in Nat /\ NoKey \in StreamKeys /\ stack \in Seq(Frame)
    BY BoundsAssumption DEF Inv, TypeOK, Time, ZeroTime, StreamKeys
  <2>2. EmitLine(stack, NoKey, l, IF timed THEN clock ELSE ZeroTime, fed[NoKey] + 1)
    BY <1>3 DEF CallAddBypass, CallAddAtBypass, When
  <2>. QED BY <1>1, <2>1, <2>2
<1>4. CASE PassThrough
  <2> DEFINE st == SetTop([Top EXCEPT !.pc = "return"])
  <2>1. Running("AddAt") /\ EmitLine(st, Top.key, Top.line, Top.when, Top.data)
    BY <1>4 DEF PassThrough, At
  <2>2. st \in Seq(Frame)
    BY <2>1, PcStep
  <2>3. Top.key \in StreamKeys /\ Top.line \in Lines /\ Top.when \in Time /\ Top.data \in Nat
    BY <2>1, TopFrame, AddFramePc DEF Inv, TypeOK, Running, StreamKeys
  <2> HIDE DEF st
  <2>4. Single(e)
    BY <1>1, <2>1, <2>2, <2>3
  <2>. QED BY <2>4 DEF e
<1>5. CASE FlushPrefix
  <2> DEFINE g == heap[Top.ref]
  <2>1. /\ Running("flush") /\ g.acceptedLines > 0
        /\ EmitFromGroup(PrefixEntry(g), g.acceptedLines)
    BY <1>5 DEF FlushPrefix
  <2>2. g \in Group /\ GroupOK(g) /\ TextsOK(g) /\ g.acceptedLines \in Nat
    BY <2>1, FlushingTop DEF Group
  <2>3. e = PrefixEntry(g)
    <3> HIDE DEF g
    <3>1. PrefixEntry(g) \in Entry
      BY <2>1, <2>2, PrefixEntryOK
    <3>. QED BY <1>2, <2>1, <2>2, <3>1
  <2>. QED BY <2>1, <2>3 DEF FromGroup, e
<1>6. CASE FlushLine
  <2> DEFINE g == heap[Top.ref]
             i == Top.at + 1
  <2>1. /\ Running("flush") /\ Top.at >= g.acceptedLines /\ Top.at < Len(g.lines)
        /\ EmitFromGroup(LineEntry(g, i), i)
    BY <1>6 DEF FlushLine
  <2>2. /\ g \in Group /\ GroupOK(g) /\ TextsOK(g) /\ Top.at \in Nat
        /\ g.acceptedLines \in Nat /\ Len(g.lines) \in Nat
    BY <2>1, FlushingTop DEF Group
  <2>3. i \in 1 .. Len(g.lines) /\ i > g.acceptedLines /\ i \in Nat
    <3> HIDE DEF g
    <3>. QED BY <2>1, <2>2
  <2> HIDE DEF i
  <2>4. e = LineEntry(g, i)
    <3> HIDE DEF g
    <3>1. LineEntry(g, i) \in Entry
      BY <2>2, <2>3, LineEntryOK
    <3>. QED BY <1>2, <2>1, <2>3, <3>1
  <2>. QED BY <2>1, <2>3, <2>4 DEF FromGroup, e
<1>. QED BY <1>3, <1>4, <1>5, <1>6, WhoEmits DEF e

\* It lost text only if it says so, and only from its last line.
LEMMA EntryOK ==
  ASSUME Inv, [Next]_vars, Emits
  PROVE  LET e == Last(stack').entry
         IN  /\ e.truncated <=> Lossy(e)
             /\ e.match # NoFormat => e.lines >= 2
             /\ \A i \in 1 .. Len(e.texts) :
                  /\ e.texts[i] \in RetainedLine /\ e.texts[i].size <= Size(e.texts[i].line)
                  /\ Whole(e.texts[i]) \/ (e.truncated /\ i = Len(e.texts))
<1>1. PICK e : e = Last(stack').entry
  OBVIOUS
<1>2. CASE Single(e)
  <2>1. PICK text \in RetainedLine : Whole(text) /\ e.texts = <<text>>
    BY <1>2 DEF Single
  <2>2. /\ Len(e.texts) = 1 /\ DOMAIN e.texts = 1 .. 1
        /\ \A i \in 1 .. 1 : e.texts[i] = text
    BY <2>1
  <2>3. text.size = Size(text.line) /\ text.size \in Nat
    BY <2>1 DEF Whole, RetainedLine
  <2>4. ~Lossy(e)
    BY <1>2, <2>2, <2>3 DEF Single, Lossy
  <2>. QED BY <1>1, <1>2, <2>1, <2>2, <2>3, <2>4 DEF Single
<1>3. CASE Running("flush") /\ FromGroup(e, heap[Top.ref])
  <2>1. PICK g \in Group : g = heap[Top.ref] /\ GroupOK(g) /\ TextsOK(g) /\ FromGroup(e, g)
    BY <1>3, FlushingTop
  <2>2. /\ g.lines \in Seq(RetainedLine) /\ Len(g.lines) \in Nat /\ g.acceptedLines \in Nat
        /\ g.acceptedLines <= Len(g.lines)
        /\ \A j \in 1 .. Len(g.lines) : g.lines[j] \in RetainedLine
    BY <2>1, LenProperties, ElementOfSeq DEF Group, GroupOK
  <2>3. ASSUME NEW j \in 1 .. Len(g.lines)
        PROVE  /\ g.lines[j].size <= Size(g.lines[j].line)
               /\ Whole(g.lines[j]) \/ (g.capped /\ j = Len(g.lines))
    <3>1. CASE j = Len(g.lines)
      BY <2>1, <2>2, <3>1 DEF TextsOK
    <3>2. CASE j # Len(g.lines)
      <4>1. j \in 1 .. Len(g.lines) - 1
        BY <2>2, <3>2
      <4>. QED BY <2>1, <4>1 DEF TextsOK
    <3>. QED BY <3>1, <3>2
  <2>4. CASE g.acceptedLines > 0 /\ e = PrefixEntry(g)
    <3>1. /\ PrefixEntry(g).lines >= 2
          /\ PrefixEntry(g).truncated <=> Lossy(PrefixEntry(g))
          /\ PrefixEntry(g).texts = SubSeq(g.lines, 1, g.acceptedLines)
          /\ Len(PrefixEntry(g).texts) = g.acceptedLines
          /\ PrefixEntry(g).truncated = (g.capped /\ g.acceptedLines = Len(g.lines))
      BY <2>1, <2>4, PrefixEntryOK DEF PrefixEntry
    <3>2. \A i \in 1 .. g.acceptedLines : /\ i \in 1 .. Len(g.lines)
                                          /\ SubSeq(g.lines, 1, g.acceptedLines)[i] = g.lines[i]
      BY <2>2, SubSeqProperties
    <3>3. ASSUME NEW i \in 1 .. Len(e.texts)
          PROVE  /\ e.texts[i] \in RetainedLine /\ e.texts[i].size <= Size(e.texts[i].line)
                 /\ Whole(e.texts[i]) \/ (e.truncated /\ i = Len(e.texts))
      <4>1. i \in 1 .. Len(g.lines) /\ e.texts[i] = g.lines[i] /\ Len(e.texts) = g.acceptedLines
        BY <2>4, <3>1, <3>2
      <4>2. CASE i = Len(g.lines)
        <5>1. i = g.acceptedLines
          BY <2>2, <2>4, <3>1, <4>1, <4>2
        <5>. QED BY <2>2, <2>3, <2>4, <3>1, <4>1, <4>2, <5>1
      <4>3. CASE i # Len(g.lines)
        BY <2>2, <2>3, <4>1, <4>3
      <4>. QED BY <4>2, <4>3
    <3>4. e.match # NoFormat => e.lines >= 2
      BY <2>4, <3>1
    <3>. QED BY <1>1, <2>4, <3>1, <3>3, <3>4
  <2>5. CASE \E j \in 1 .. Len(g.lines) : j > g.acceptedLines /\ e = LineEntry(g, j)
    <3>1. PICK j \in 1 .. Len(g.lines) : j > g.acceptedLines /\ e = LineEntry(g, j)
      BY <2>5
    <3>2. /\ e.match = NoFormat /\ e.texts = <<g.lines[j]>> /\ (e.truncated <=> Lossy(e))
          /\ e.truncated = (g.capped /\ j = Len(g.lines))
      BY <2>1, <3>1, LineEntryOK DEF LineEntry
    <3>3. Len(e.texts) = 1 /\ \A i \in 1 .. 1 : e.texts[i] = g.lines[j]
      BY <3>2
    <3>4. ASSUME NEW i \in 1 .. Len(e.texts)
          PROVE  /\ e.texts[i] \in RetainedLine /\ e.texts[i].size <= Size(e.texts[i].line)
                 /\ Whole(e.texts[i]) \/ (e.truncated /\ i = Len(e.texts))
      <4>1. i = 1 /\ e.texts[i] = g.lines[j] /\ Len(e.texts) = 1
        BY <3>3
      <4>. QED BY <2>2, <2>3, <3>2, <4>1
    <3>. QED BY <1>1, <3>2, <3>4
  <2>. QED BY <2>1, <2>4, <2>5 DEF FromGroup
<1>. QED BY <1>1, <1>2, <1>3, WhatEmits

\* Entry.Truncated is set exactly when text the entry stands for is missing.
THEOREM TruncatedIsExact == Spec => TruncatedWhereLost
<1>1. Inv /\ [Next]_vars =>
        [Emits => (Last(stack').entry.truncated <=> Lossy(Last(stack').entry))]_vars
  BY EntryOK
<1>. QED BY <1>1, Invariance, PTL DEF Spec, TruncatedWhereLost

\* An entry that names a format stands for at least two source lines.
THEOREM AggregatesSpanLines == Spec => AggregateSpansLines
<1>1. Inv /\ [Next]_vars =>
        [Emits => (Last(stack').entry.match # NoFormat => Last(stack').entry.lines >= 2)]_vars
  BY EntryOK
<1>. QED BY <1>1, Invariance, PTL DEF Spec, AggregateSpansLines
-----------------------------------------------------------------------------
(* What has been handed over or lost never shrinks.                         *)

\* A flush sends no more than its group consumed.
LEMMA SentBound ==
  ASSUME NEW g \in Group, GroupOK(g), NEW f, Account(f, g), f.at \in Nat, f.sent \in Int
  PROVE  f.sent <= g.total
<1>1. PICK n, a, at, m \in Nat : /\ n = Len(g.lines) /\ a = g.acceptedLines
                                 /\ at = g.acceptedTotal /\ m = g.total
  BY DEF Group
<1>2. n - a <= m - at /\ a <= n /\ (a < n => at = a)
  BY <1>1 DEF GroupOK
<1>3. f.at <= n
  BY <1>1 DEF Account
<1>4. CASE f.at = 0
  <2>1. f.sent = 0
    BY <1>4 DEF Account
  <2>. QED BY <1>1, <2>1
<1>5. CASE f.at > 0 /\ f.at = n
  <2>1. f.sent = at + (n - a) + (m - at - (n - a))
    BY <1>1, <1>5 DEF Account, Dropped
  <2>2. at + (n - a) + (m - at - (n - a)) = m
    OBVIOUS
  <2>3. f.sent = m
    BY <2>1, <2>2
  <2>. QED BY <1>1, <2>3
<1>6. CASE f.at > 0 /\ f.at # n
  <2>1. f.sent = at + (f.at - a) + 0 /\ a <= f.at
    BY <1>1, <1>6 DEF Account
  <2>. QED BY SMTT(20), <1>1, <1>2, <1>3, <1>6, <2>1
<1>. QED BY <1>4, <1>5, <1>6

\* n lines are added to the tally of k.
Adds(tally, next, k, n) == next = [tally EXCEPT ![k] = @ + n]

LEMMA TallySteps ==
  ASSUME Inv, [Next]_vars
  PROVE  /\ delivered' = delivered
            \/ \E k \in StreamKeys, n \in Nat : Adds(delivered, delivered', k, n)
         /\ lost' = lost \/ \E k \in StreamKeys, n \in Nat : Adds(lost, lost', k, n)
<1>1. ASSUME NEW st, NEW key \in StreamKeys, NEW l, NEW when, NEW data,
             EmitLine(st, key, l, when, data)
      PROVE  \E k \in StreamKeys, n \in Nat : Adds(delivered, delivered', k, n)
  <2>1. delivered' = [delivered EXCEPT ![key] = @ + 1]
    BY <1>1 DEF EmitLine, Deliver
  <2>2. Adds(delivered, delivered', key, 1) /\ 1 \in Nat
    BY <2>1 DEF Adds
  <2>. QED BY <2>2
<1>2. ASSUME NEW e \in Entry, e.lines \in Nat, NEW at, EmitFromGroup(e, at)
      PROVE  \E k \in StreamKeys, n \in Nat : Adds(delivered, delivered', k, n)
  <2>1. delivered' = [delivered EXCEPT ![e.key] = @ + e.lines] /\ e.key \in StreamKeys
    BY <1>2 DEF EmitFromGroup, Deliver, Entry
  <2>. QED BY <1>2, <2>1 DEF Adds
<1>3. CASE UNCHANGED vars \/ Tick \/ Emitter \/ FlushLoop
  BY <1>3 DEF vars, history, Tick, Emitter, EmitterSucceeds, EmitterFails, EmitterReturns,
     FlushLoop, FlushFirst, LoopReturns
<1>4. CASE Calls
  <2>1. ASSUME NEW l \in Lines, NEW timed \in TimeModes, CallAddBypass(l, timed)
        PROVE  /\ \E k \in StreamKeys, n \in Nat : Adds(delivered, delivered', k, n)
               /\ lost' = lost
    <3>1. /\ EmitLine(stack, NoKey, l, When(timed), fed[NoKey] + 1) /\ lost' = lost
          /\ NoKey \in StreamKeys
      BY <2>1 DEF CallAddBypass, CallAddAtBypass, StreamKeys
    <3>. QED BY <3>1, <1>1
  <2>2. CASE \/ \E k \in Keys, l \in Lines, timed \in TimeModes : CallAdd(k, l, timed)
             \/ \E k \in Keys : CallFlush(k)
             \/ \E t \in 1 .. MaxTime + 1 : CallFlushBefore(t)
             \/ CallStop
    BY <2>2 DEF CallAdd, CallAddAt, CallFlush, CallFlushBefore, CallStop, history
  <2>. QED BY <1>4, <2>1, <2>2 DEF Calls
<1>5. CASE AddAt
  <2>1. CASE PassThrough
    <3>1. /\ lost' = lost /\ Running("AddAt")
          /\ EmitLine(SetTop([Top EXCEPT !.pc = "return"]),
                      Top.key, Top.line, Top.when, Top.data)
      BY <2>1 DEF PassThrough, At
    <3>2. Top.key \in StreamKeys
      BY <3>1, TopFrame, AddFramePc DEF Inv, TypeOK, Running, StreamKeys
    <3>. QED BY <1>1, <3>1, <3>2
  <2>2. CASE Continue \/ Break \/ Miss \/ Starts \/ Drain \/ Claim \/ Evict \/ AddReturns
    BY <2>2 DEF Continue, Break, Miss, Starts, Drain, Claim, Evict, AddReturns, history
  <2>. QED BY <1>5, <2>1, <2>2 DEF AddAt
<1>6. CASE Flush
  <2>1. Running("flush")
    BY <1>6 DEF Flush, FlushPrefix, FlushLine, FlushDone, FlushAborts
  <2>2. PICK g \in Group :
          /\ g = heap[Top.ref] /\ GroupOK(g) /\ TextsOK(g) /\ Account(Top, g)
          /\ Top.at \in Nat /\ Top.sent \in Int
    BY <2>1, FlushingTop
  <2>3. /\ Len(g.lines) \in Nat /\ g.acceptedLines \in Nat /\ g.total \in Nat
        /\ g.key \in StreamKeys
    BY <2>2 DEF Group
  <2>4. CASE FlushPrefix
    <3>1. /\ EmitFromGroup(PrefixEntry(g), g.acceptedLines) /\ g.acceptedLines > 0
          /\ lost' = lost
      BY <2>2, <2>4 DEF FlushPrefix, EmitFromGroup
    <3>2. PrefixEntry(g) \in Entry /\ PrefixEntry(g).lines >= 2
      BY <2>2, <3>1, PrefixEntryOK
    <3>3. PrefixEntry(g).lines \in Nat
      BY <3>2 DEF Entry
    <3>. QED BY <1>2, <3>1, <3>2, <3>3
  <2>5. CASE FlushLine
    <3>1. /\ EmitFromGroup(LineEntry(g, Top.at + 1), Top.at + 1) /\ lost' = lost
          /\ Top.at >= g.acceptedLines /\ Top.at < Len(g.lines)
      BY <2>2, <2>5 DEF FlushLine, EmitFromGroup
    <3>2. PICK i \in 1 .. Len(g.lines) : i = Top.at + 1 /\ i > g.acceptedLines
      BY <2>2, <2>3, <3>1
    <3>3. /\ LineEntry(g, i) \in Entry
          /\ LineEntry(g, i).lines = 1 + (IF i = Len(g.lines) THEN Dropped(g) ELSE 0)
      BY <2>2, <3>2, LineEntryOK
    <3>4. Dropped(g) \in Nat
      BY <2>2 DEF Dropped, GroupOK, Group
    <3>5. LineEntry(g, i).lines \in Nat
      BY <3>3, <3>4
    <3>. QED BY <1>2, <3>1, <3>2, <3>3, <3>5
  <2>6. CASE FlushDone
    BY <2>6 DEF FlushDone, history
  <2>7. CASE FlushAborts
    <3>1. /\ delivered' = delivered
          /\ lost' = [lost EXCEPT ![g.key] = @ + g.total - Top.sent]
      BY <2>2, <2>7 DEF FlushAborts
    <3>2. PICK n \in Nat : n = g.total - Top.sent
      BY <2>2, <2>3, SentBound
    <3>3. lost[g.key] \in Int
      BY <2>3 DEF Inv, TypeOK
    <3>4. lost[g.key] + g.total - Top.sent = lost[g.key] + n
      BY <2>2, <2>3, <3>2, <3>3
    <3>5. Adds(lost, lost', g.key, n)
      BY <3>1, <3>4 DEF Adds
    <3>. QED BY <2>3, <3>1, <3>5
  <2>. QED BY <1>6, <2>4, <2>5, <2>6, <2>7 DEF Flush
<1>. QED BY <1>3, <1>4, <1>5, <1>6 DEF Next, Machine
-----------------------------------------------------------------------------
(* Sums along a sequence.                                                   *)

\* n is the sum of w over the elements of q: s lists the sums of its prefixes.  A
\* sum with its witness can be followed from step to step without an induction.
Sums(q, w, n) ==
  \E s \in [0 .. Len(q) -> Int] :
    /\ s[0] = 0 /\ n = s[Len(q)]
    /\ \A i \in 1 .. Len(q) : s[i] = s[i - 1] + w[q[i]]

LEMMA SumOfNone ==
  ASSUME NEW w, NEW n, Sums(<<>>, w, n)
  PROVE  n = 0
BY DEF Sums

LEMMA NoneSums ==
  ASSUME NEW w
  PROVE  Sums(<<>>, w, 0)
<1>1. PICK q : q = <<>> /\ Len(q) = 0
  BY LenOfEmpty
<1>2. PICK s \in [0 .. Len(q) -> Int] : s[0] = 0
  <2>1. [i \in 0 .. Len(q) |-> 0] \in [0 .. Len(q) -> Int] /\ [i \in 0 .. Len(q) |-> 0][0] = 0
    BY <1>1
  <2>. QED BY <2>1
<1>3. 0 = s[Len(q)] /\ \A i \in 1 .. Len(q) : s[i] = s[i - 1] + w[q[i]]
  BY <1>1, <1>2
<1>. QED BY <1>1, <1>2, <1>3 DEF Sums

\* The weights of elements the sequence does not hold do not matter.
LEMMA SumKept ==
  ASSUME NEW q, NEW w, NEW v, NEW n, Sums(q, w, n), Len(q) \in Nat,
         \A i \in 1 .. Len(q) : v[q[i]] = w[q[i]]
  PROVE  Sums(q, v, n)
BY DEF Sums

LEMMA SumAppended ==
  ASSUME NEW S, NEW q \in Seq(S), NEW e \in S, NEW w, w[e] \in Int,
         NEW n \in Int, Sums(q, w, n)
  PROVE  Sums(Append(q, e), w, n + w[e])
<1>1. PICK s \in [0 .. Len(q) -> Int] :
        /\ s[0] = 0 /\ n = s[Len(q)]
        /\ \A i \in 1 .. Len(q) : s[i] = s[i - 1] + w[q[i]]
  BY DEF Sums
<1>2. /\ Len(q) \in Nat /\ Len(Append(q, e)) = Len(q) + 1
      /\ Append(q, e)[Len(q) + 1] = e
      /\ \A i \in 1 .. Len(q) : Append(q, e)[i] = q[i]
  BY AppendProperties, LenProperties
<1> DEFINE m == Len(q)
           t == [i \in 0 .. m + 1 |-> IF i = m + 1 THEN n + w[e] ELSE s[i]]
<1>3. t \in [0 .. m + 1 -> Int] /\ t[0] = 0 /\ t[m + 1] = n + w[e]
  BY <1>1, <1>2
<1>4. ASSUME NEW i \in 1 .. m + 1
      PROVE  t[i] = t[i - 1] + w[Append(q, e)[i]]
  <2>1. i - 1 \in 0 .. m /\ t[i - 1] = s[i - 1]
    BY <1>2
  <2>2. CASE i = m + 1
    BY <2>1, <2>2, <1>1, <1>2
  <2>3. CASE i # m + 1
    <3>1. i \in 1 .. m
      BY <2>3, <1>2
    <3>. QED BY <3>1, <2>1, <2>3, <1>1, <1>2
  <2>. QED BY <2>2, <2>3
<1> HIDE DEF t
<1>. QED BY <1>2, <1>3, <1>4 DEF Sums

LEMMA SumOfNats ==
  ASSUME NEW q, NEW w, NEW n, Sums(q, w, n), Len(q) \in Nat,
         \A i \in 1 .. Len(q) : w[q[i]] \in Nat
  PROVE  n \in Nat
<1>1. PICK s \in [0 .. Len(q) -> Int] :
        /\ s[0] = 0 /\ n = s[Len(q)]
        /\ \A i \in 1 .. Len(q) : s[i] = s[i - 1] + w[q[i]]
  BY DEF Sums
<1> DEFINE N == {k \in Nat : k <= Len(q) => s[k] \in Nat}
<1>2. 0 \in N
  BY <1>1
<1>3. ASSUME NEW k \in Nat, k \in N PROVE k + 1 \in N
  <2>1. SUFFICES ASSUME k + 1 <= Len(q) PROVE s[k + 1] \in Nat
    OBVIOUS
  <2>2. k + 1 \in 1 .. Len(q) /\ (k + 1) - 1 = k /\ k <= Len(q)
    BY <2>1
  <2>3. s[k] \in Nat /\ w[q[k + 1]] \in Nat
    BY <1>3, <2>2
  <2>4. s[k + 1] = s[k] + w[q[k + 1]]
    BY <1>1, <2>2
  <2>. QED BY <2>3, <2>4
<1> HIDE DEF N
<1>4. \A k \in Nat : k \in N
  BY <1>2, <1>3, SetInduction
<1>5. Len(q) \in N
  BY <1>4
<1>. QED BY <1>1, <1>5 DEF N

LEMMA SumRemoved ==
  ASSUME NEW S, NEW q \in Seq(S), IsInjective(q), NEW e \in ToSet(q), NEW w,
         \A r \in S : w[r] \in Int, NEW n \in Int, Sums(q, w, n)
  PROVE  Sums(RemoveFirst(q, e), w, n - w[e])
<1>1. PICK s \in [0 .. Len(q) -> Int] :
        /\ s[0] = 0 /\ n = s[Len(q)]
        /\ \A i \in 1 .. Len(q) : s[i] = s[i - 1] + w[q[i]]
  BY DEF Sums
<1>2. PICK k \in 1 .. Len(q) : e = q[k]
  BY LenProperties DEF ToSet
<1>3. PICK p : p = RemoveFirst(q, e)
  OBVIOUS
<1>4. /\ Len(q) \in Nat /\ Len(p) = Len(q) - 1 /\ w[e] \in Int
      /\ \A i \in 1 .. Len(q) - 1 : p[i] = IF i < k THEN q[i] ELSE q[i + 1]
  BY <1>2, <1>3, RemoveFirstProperties, LenProperties, ElementOfSeq
<1>5. PICK m \in Nat : m = Len(q) - 1
  BY <1>2, <1>4
<1> DEFINE t == [i \in 0 .. m |-> IF i < k THEN s[i] ELSE s[i + 1] - w[e]]
<1>6. t \in [0 .. m -> Int] /\ t[0] = 0
  BY SMTT(20), <1>1, <1>2, <1>4, <1>5
<1>7. t[m] = n - w[e]
  <2>1. CASE m < k
    <3>1. k = m + 1 /\ t[m] = s[k - 1] /\ s[k] = s[k - 1] + w[e] /\ n = s[k]
      BY <2>1, <1>1, <1>2, <1>4, <1>5
    <3>2. s[k - 1] \in Int
      BY <1>1, <1>2, <1>4
    <3>. QED BY <3>1, <3>2, <1>4
  <2>2. CASE ~(m < k)
    BY <2>2, <1>1, <1>2, <1>4, <1>5
  <2>. QED BY <2>1, <2>2
<1>8. ASSUME NEW i \in 1 .. m
      PROVE  t[i] = t[i - 1] + w[p[i]]
  <2>1. /\ i \in 1 .. Len(q) /\ i + 1 \in 1 .. Len(q) /\ i - 1 \in 0 .. m /\ i \in 0 .. m
        /\ s[i] = s[i - 1] + w[q[i]] /\ s[i + 1] = s[i] + w[q[i + 1]]
    <3>1. i \in 1 .. Len(q) /\ i + 1 \in 1 .. Len(q) /\ i - 1 \in 0 .. m /\ i \in 0 .. m
      BY <1>4, <1>5
    <3>2. (i + 1) - 1 = i
      OBVIOUS
    <3>. QED BY <3>1, <3>2, <1>1
  <2>2. w[q[i]] \in Int /\ w[q[i + 1]] \in Int /\ s[i] \in Int /\ s[i - 1] \in Int
    <3>1. q[i] \in S /\ q[i + 1] \in S
      BY <2>1, ElementOfSeq
    <3>2. i \in 0 .. Len(q) /\ i - 1 \in 0 .. Len(q)
      BY <2>1, <1>4
    <3>. QED BY <3>1, <3>2
  <2>3. /\ t[i] = IF i < k THEN s[i] ELSE s[i + 1] - w[e]
        /\ t[i - 1] = IF i - 1 < k THEN s[i - 1] ELSE s[(i - 1) + 1] - w[e]
        /\ (i - 1) + 1 = i
    BY <2>1
  <2>4. p[i] = IF i < k THEN q[i] ELSE q[i + 1]
    BY <1>4, <1>5
  <2> HIDE DEF t
  <2>5. CASE i < k
    <3>1. i - 1 < k
      BY <2>5
    <3>. QED BY <3>1, <2>1, <2>3, <2>4, <2>5
  <2>6. CASE i = k
    <3>1. i - 1 < k /\ ~(i < k)
      BY <2>6
    <3>2. t[i] = s[i + 1] - w[e] /\ t[i - 1] = s[i - 1] /\ p[i] = q[i + 1] /\ w[q[i]] = w[e]
      BY <3>1, <2>3, <2>4, <2>6, <1>2
    <3>. QED BY SMTT(20), <3>2, <2>1, <2>2, <1>4
  <2>7. CASE i > k
    <3>1. ~(i - 1 < k) /\ ~(i < k)
      BY <2>7
    <3>2. t[i] = s[i + 1] - w[e] /\ t[i - 1] = s[i] - w[e] /\ p[i] = q[i + 1]
      BY <3>1, <2>3, <2>4
    <3>. QED BY <3>2, <2>1, <2>2, <1>4
  <2>. QED BY <2>5, <2>6, <2>7, <1>2, <1>4
<1> HIDE DEF t
<1>9. Len(p) = m
  BY <1>4, <1>5
<1>10. Sums(p, w, n - w[e])
  BY <1>6, <1>7, <1>8, <1>9 DEF Sums
<1>. QED BY <1>3, <1>10
-----------------------------------------------------------------------------
(* The invariant.                                                           *)

\* The gauge is the sum of the bytes of the groups in the list.
Gauge == Sums(order, [r \in Refs |-> heap[r].bytes], bytes)

\* The caps are exceeded by n groups of b bytes.
Over(n, b) ==
  /\ n > 1
  /\ \/ MaxGroups > 0 /\ n > MaxGroups
     \/ MaxTotalBytes > 0 /\ b > MaxTotalBytes

\* Some AddAt of the stack st, perhaps a suspended one, is in its eviction loop.
Evicting(st) == \E i \in 1 .. Len(st) : st[i].op = "AddAt" /\ st[i].pc = "evict"

\* While the caps are exceeded somebody is evicting.
CapsOK == Gauge /\ (Over(Len(order), bytes) => Evicting(stack))

\* The map holds as many groups as the list.
LEMMA PendingCount ==
  ASSUME Inv
  PROVE  Cardinality({k \in Keys : groups[k] # Nil}) = Len(order)
<1> DEFINE P == {k \in Keys : groups[k] # Nil}
           f == [i \in 1 .. Len(order) |-> heap[order[i]].key]
<1>1. /\ order \in Seq(Refs) /\ IsInjective(order) /\ Len(order) \in Nat
      /\ DOMAIN order = 1 .. Len(order) /\ \A i \in 1 .. Len(order) : order[i] \in Linked
  BY LenProperties DEF Inv, TypeOK, Owned, Linked, ToSet
<1>2. \A g \in Linked : g \in Refs /\ heap[g].key \in Keys /\ groups[heap[g].key] = g
  BY <1>1, ElementOfSeq DEF Inv, Mapped, Linked, ToSet
<1>3. \A i \in 1 .. Len(order) : f[i] \in P /\ groups[f[i]] = order[i]
  BY <1>1, <1>2, NamesAssumption
<1>4. \A k \in P : \E i \in 1 .. Len(order) : f[i] = k
  <2>1. ASSUME NEW k \in P PROVE \E i \in 1 .. Len(order) : f[i] = k
    <3>1. groups[k] \in Linked /\ heap[groups[k]].key = k
      BY DEF Inv, Mapped
    <3>2. PICK i \in 1 .. Len(order) : order[i] = groups[k]
      BY <3>1, <1>1 DEF Linked, ToSet
    <3>. QED BY <3>1, <3>2
  <2>. QED BY <2>1
<1> HIDE DEF f
<1>5. \A i, j \in 1 .. Len(order) : f[i] = f[j] => i = j
  BY <1>1, <1>3 DEF IsInjective
<1>6. f \in [1 .. Len(order) -> P]
  BY <1>3 DEF f
<1> HIDE DEF P
<1>7. f \in Bijection(1 .. Len(order), P)
  BY <1>4, <1>5, <1>6, Fun_IsBij
<1>8. ExistsBijection(1 .. Len(order), P)
  BY <1>7 DEF ExistsBijection
<1>. QED BY <1>1, <1>8, FS_CountingElements DEF P

LEMMA CapsByList ==
  ASSUME Inv
  PROVE  OverCaps <=> Over(Len(order), bytes)
BY PendingCount DEF OverCaps, Over
-----------------------------------------------------------------------------
(* An eviction loop stays on the stack until it is done.                    *)

LEMMA PushEvicting ==
  ASSUME NEW S, NEW st \in Seq(S), NEW f, Evicting(st)
  PROVE  Evicting(Push(st, f))
<1>1. /\ Len(Push(st, f)) = Len(st) + 1 /\ Len(st) \in Nat
      /\ \A i \in 1 .. Len(st) : Push(st, f)[i] = st[i]
  <2>1. st \in Seq(S \union {f})
    OBVIOUS
  <2>. QED BY <2>1, AppendProperties, LenProperties DEF Push
<1>2. PICK i \in 1 .. Len(st) : st[i].op = "AddAt" /\ st[i].pc = "evict"
  BY DEF Evicting
<1>3. i \in 1 .. Len(Push(st, f))
  BY <1>1
<1>. QED BY <1>1, <1>2, <1>3 DEF Evicting

\* Whatever the top activation becomes.
LEMMA SetTopAny ==
  ASSUME Inv, stack # <<>>, NEW f
  PROVE  /\ SetTop(f) \in Seq(Frame \union {f})
         /\ Len(SetTop(f)) = Len(stack) /\ Len(stack) \in Nat /\ Top = stack[Len(stack)]
         /\ SetTop(f)[Len(stack)] = f
         /\ \A i \in 1 .. Len(stack) - 1 : SetTop(f)[i] = stack[i]
<1>1. stack \in Seq(Frame \union {f}) /\ Top = stack[Len(stack)]
      /\ Len(stack) \in 1 .. Len(stack) /\ Len(stack) \in Nat
  BY TopFrame DEF Inv, TypeOK
<1>. QED BY <1>1, ExceptSeq DEF SetTop

LEMMA SetTopEvicting ==
  ASSUME Inv, stack # <<>>, NEW f, ~(Top.op = "AddAt" /\ Top.pc = "evict"),
         Evicting(stack)
  PROVE  Evicting(SetTop(f))
<1>1. /\ Len(SetTop(f)) = Len(stack) /\ Len(stack) \in Nat /\ Top = stack[Len(stack)]
      /\ \A i \in 1 .. Len(stack) - 1 : SetTop(f)[i] = stack[i]
  BY SetTopAny
<1>2. PICK i \in 1 .. Len(stack) : stack[i].op = "AddAt" /\ stack[i].pc = "evict"
  BY DEF Evicting
<1>3. i \in 1 .. Len(stack) - 1
  BY <1>1, <1>2
<1>. QED BY <1>1, <1>2, <1>3 DEF Evicting

LEMMA PopEvicting ==
  ASSUME Inv, stack # <<>>, NEW err \in Nat, ~(Top.op = "AddAt" /\ Top.pc = "evict"),
         Evicting(stack)
  PROVE  Evicting(Pop(err))
<1>1. /\ Len(stack) \in Nat /\ Top = stack[Len(stack)] /\ stack \in Seq(Frame)
      /\ Len(Pop(err)) = Len(stack) - 1
      /\ \A i \in 1 .. Len(stack) - 1 : Pop(err)[i] =
           IF i = Len(stack) - 1 /\ stack[Len(stack) - 1].op # "emit"
           THEN [stack[Len(stack) - 1] EXCEPT !.held = FirstErr(@, err)] ELSE stack[i]
  BY PopExact, TopFrame DEF Inv, TypeOK
<1>2. PICK i \in 1 .. Len(stack) : stack[i].op = "AddAt" /\ stack[i].pc = "evict"
  BY DEF Evicting
<1>3. i \in 1 .. Len(stack) - 1
  BY <1>1, <1>2
<1>4. PICK f \in Frame : f = stack[i]
  BY <1>1, ElementOfSeq
<1>5. PICK h : h = [f EXCEPT !.held = FirstErr(@, err)]
  OBVIOUS
<1>6. h.op = "AddAt" /\ h.pc = "evict"
  BY <1>2, <1>4, <1>5, HeldFields
<1>7. Pop(err)[i] = f \/ Pop(err)[i] = h
  BY <1>1, <1>3, <1>4, <1>5
<1>. QED BY <1>1, <1>2, <1>3, <1>4, <1>6, <1>7 DEF Evicting
-----------------------------------------------------------------------------
(* Steps of the list.                                                       *)

LEMMA ListFacts ==
  ASSUME Inv
  PROVE  /\ order \in Seq(Refs) /\ Len(order) \in Nat /\ bytes \in Int /\ IsInjective(order)
         /\ \A i \in 1 .. Len(order) : order[i] \in Linked
         /\ \A g \in Linked : g \in Refs /\ heap[g].bytes \in Nat
<1>1. /\ order \in Seq(Refs) /\ Len(order) \in Nat /\ bytes \in Int /\ IsInjective(order)
      /\ DOMAIN order = 1 .. Len(order)
  BY LenProperties DEF Inv, TypeOK, Owned
<1>2. \A i \in 1 .. Len(order) : order[i] \in Linked
  BY <1>1 DEF Linked, ToSet
<1>3. \A g \in Linked : g \in Refs
  BY <1>1, ElementOfSeq DEF Linked, ToSet
<1>. QED BY <1>1, <1>2, <1>3 DEF Inv, TypeOK, Group

LEMMA GaugeIsNatural ==
  ASSUME Inv, Gauge
  PROVE  bytes \in Nat
<1> DEFINE w == [r \in Refs |-> heap[r].bytes]
<1>1. Len(order) \in Nat /\ \A i \in 1 .. Len(order) : w[order[i]] \in Nat
  BY ListFacts
<1>2. Sums(order, w, bytes)
  BY DEF Gauge
<1> HIDE DEF w
<1>. QED BY <1>1, <1>2, SumOfNats

\* The list and its bytes stay.
LEMMA StillStep ==
  ASSUME Inv, CapsOK, UNCHANGED <<order, bytes>>,
         \A g \in Linked : heap'[g].bytes = heap[g].bytes,
         Evicting(stack) => ~OverCaps \/ Evicting(stack')
  PROVE  CapsOK'
<1> DEFINE w == [r \in Refs |-> heap[r].bytes]
           v == [r \in Refs |-> heap'[r].bytes]
<1>1. \A i \in 1 .. Len(order) : v[order[i]] = w[order[i]]
  BY ListFacts
<1>2. Sums(order, w, bytes)
  BY DEF CapsOK, Gauge
<1>3. Sums(order, v, bytes)
  <2> HIDE DEF v, w
  <2>. QED BY <1>1, <1>2, SumKept, ListFacts
<1>4. Gauge'
  BY <1>3 DEF Gauge
<1>5. Over(Len(order), bytes) => Evicting(stack')
  BY CapsByList DEF CapsOK
<1>. QED BY <1>4, <1>5 DEF CapsOK

\* A group leaves the list with its bytes.
LEMMA LeaveStep ==
  ASSUME Inv, CapsOK, NEW g \in Linked,
         order' = Detached(g), bytes' = bytes - heap[g].bytes,
         \A r \in Refs : r # g => heap'[r].bytes = heap[r].bytes,
         Evicting(stack) => Evicting(stack')
  PROVE  CapsOK'
<1> DEFINE w == [r \in Refs |-> heap[r].bytes]
           v == [r \in Refs |-> heap'[r].bytes]
<1>1. /\ order \in Seq(Refs) /\ IsInjective(order) /\ g \in ToSet(order) /\ g \in Refs
      /\ Len(order) \in Nat /\ bytes \in Int /\ heap[g].bytes \in Nat
  BY ListFacts DEF Linked
<1>2. \A r \in Refs : w[r] \in Int
  BY DEF Inv, TypeOK, Group
<1>3. Sums(order, w, bytes) /\ w[g] = heap[g].bytes
  BY <1>1 DEF CapsOK, Gauge
<1>4. Sums(order', w, bytes')
  <2> HIDE DEF w
  <2>. QED BY <1>1, <1>2, <1>3, SumRemoved DEF Detached
<1>5. /\ order' \in Seq(Refs) /\ ToSet(order') = Linked \ {g}
      /\ Len(order') = Len(order) - 1
  <2>1. PICK k \in 1 .. Len(order) : g = order[k]
    BY <1>1, LenProperties DEF ToSet
  <2>. QED BY <1>1, <2>1, RemoveFirstSet, RemoveFirstProperties DEF Detached, Linked
<1>6. \A i \in 1 .. Len(order') : v[order'[i]] = w[order'[i]]
  <2>1. \A i \in 1 .. Len(order') : order'[i] \in Refs /\ order'[i] \in ToSet(order')
    BY <1>5, ElementOfSeq, LenProperties DEF ToSet
  <2>. QED BY <2>1, <1>5
<1>7. Sums(order', v, bytes')
  <2>1. Len(order') \in Nat
    BY <1>5, LenProperties
  <2> HIDE DEF v, w
  <2>. QED BY <2>1, <1>4, <1>6, SumKept
<1>8. Gauge'
  BY <1>7 DEF Gauge
<1>9. Over(Len(order'), bytes') => Over(Len(order), bytes)
  BY <1>1, <1>5, BoundsAssumption DEF Over
<1>. QED BY <1>8, <1>9 DEF CapsOK

\* A group takes the last place of the list, which did not hold it, or no longer.
LEMMA JoinStep ==
  ASSUME Inv, NEW g \in Refs, NEW q \in Seq(Refs), NEW b \in Int,
         Sums(q, [r \in Refs |-> heap[r].bytes], b),
         \A i \in 1 .. Len(q) : q[i] # g,
         heap' \in [Refs -> Group],
         \A r \in Refs : r # g => heap'[r].bytes = heap[r].bytes,
         order' = Append(q, g), bytes' = b + heap'[g].bytes
  PROVE  Gauge'
<1> DEFINE w == [r \in Refs |-> heap[r].bytes]
           v == [r \in Refs |-> heap'[r].bytes]
<1>1. \A i \in 1 .. Len(q) : v[q[i]] = w[q[i]]
  BY ElementOfSeq
<1>2. Len(q) \in Nat /\ v[g] = heap'[g].bytes /\ v[g] \in Int
  BY LenProperties DEF Group
<1>3. Sums(q, v, b)
  <2>1. Sums(q, w, b)
    OBVIOUS
  <2> HIDE DEF v, w
  <2>. QED BY <2>1, <1>1, <1>2, SumKept
<1>4. Sums(order', v, bytes')
  <2> HIDE DEF v
  <2>. QED BY <1>2, <1>3, SumAppended
<1>. QED BY <1>4 DEF Gauge
-----------------------------------------------------------------------------
(* The steps that leave the list alone.                                     *)

\* An activation is entered, by the outside world or by the top one going on to f.
LEMMA EnterCaps ==
  ASSUME Inv, CapsOK, UNCHANGED <<heap, order, bytes>>, NEW f, stack' = Push(stack, f)
  PROVE  CapsOK'
BY StillStep, PushEvicting DEF Inv, TypeOK

LEMMA CallCaps ==
  ASSUME Inv, CapsOK,
         \/ \E k \in Keys, l \in Lines, timed \in TimeModes : CallAdd(k, l, timed)
         \/ \E l \in Lines, timed \in TimeModes : CallAddBypass(l, timed)
         \/ \E t \in 1 .. MaxTime + 1 : CallFlushBefore(t)
         \/ CallStop
  PROVE  CapsOK'
<1>1. UNCHANGED <<heap, order, bytes>> /\ \E f : stack' = Push(stack, f)
  <2>1. ASSUME NEW k \in Keys, NEW l \in Lines, NEW timed \in TimeModes, CallAdd(k, l, timed)
        PROVE  UNCHANGED <<heap, order, bytes>> /\ \E f : stack' = Push(stack, f)
    BY <2>1 DEF CallAdd, CallAddAt, aggregator
  <2>2. ASSUME NEW l \in Lines, NEW timed \in TimeModes, CallAddBypass(l, timed)
        PROVE  UNCHANGED <<heap, order, bytes>> /\ \E f : stack' = Push(stack, f)
    BY <2>2 DEF CallAddBypass, CallAddAtBypass, EmitLine, aggregator
  <2>3. ASSUME NEW t \in 1 .. MaxTime + 1, CallFlushBefore(t)
        PROVE  UNCHANGED <<heap, order, bytes>> /\ \E f : stack' = Push(stack, f)
    BY <2>3 DEF CallFlushBefore, aggregator
  <2>4. CASE CallStop
    BY <2>4 DEF CallStop, aggregator
  <2>. QED BY <2>1, <2>2, <2>3, <2>4
<1>. QED BY <1>1, EnterCaps

LEMMA TickCaps ==
  ASSUME Inv, CapsOK, Tick \/ UNCHANGED vars
  PROVE  CapsOK'
<1>1. UNCHANGED <<heap, order, bytes, stack>>
  BY DEF Tick, vars, aggregator
<1>. QED BY <1>1, StillStep

\* An activation that is not evicting, or has no more to evict, returns.
LEMMA ReturnCaps ==
  ASSUME Inv, CapsOK, UNCHANGED <<order, bytes>>,
         \A g \in Linked : heap'[g].bytes = heap[g].bytes,
         stack # <<>>, ~(Top.op = "AddAt" /\ Top.pc = "evict" /\ OverCaps),
         NEW err \in Nat, Return(err)
  PROVE  CapsOK'
<1>1. stack' = Pop(err)
  BY DEF Return
<1>2. Evicting(stack) => ~OverCaps \/ Evicting(stack')
  BY <1>1, PopEvicting
<1>. QED BY <1>2, StillStep

LEMMA EmitterCaps ==
  ASSUME Inv, CapsOK, Emitter
  PROVE  CapsOK'
<1>1. PICK err \in Nat : EmitterReturns(err)
  BY DEF Emitter, EmitterSucceeds, EmitterFails, Inv, TypeOK, NoError
<1>2. /\ stack # <<>> /\ Top.op = "emit" /\ Return(err)
      /\ UNCHANGED <<heap, order, bytes>>
  BY <1>1 DEF EmitterReturns, Running, aggregator
<1>. QED BY <1>2, ReturnCaps

LEMMA HeldTop ==
  ASSUME Inv, stack # <<>>, Top.op # "emit"
  PROVE  Top.held \in Nat
BY TopFrame, HeldFrame DEF Inv, TypeOK

LEMMA CallReturnsCaps ==
  ASSUME Inv, CapsOK, AddReturns \/ LoopReturns
  PROVE  CapsOK'
<1>1. /\ stack # <<>> /\ Top.op # "emit" /\ Return(Top.held)
      /\ ~(Top.op = "AddAt" /\ Top.pc = "evict" /\ OverCaps)
      /\ UNCHANGED <<heap, order, bytes>>
  BY DEF AddReturns, LoopReturns, Looping, At, Running, aggregator
<1>. QED BY <1>1, HeldTop, ReturnCaps

LEMMA FlushEndsCaps ==
  ASSUME Inv, CapsOK, FlushDone \/ FlushAborts
  PROVE  CapsOK'
<1>1. /\ Running("flush") /\ UNCHANGED <<order, bytes>>
      /\ heap' = [heap EXCEPT ![Top.ref] = Blank]
      /\ Return(NoError) \/ Return(Top.held)
  BY DEF FlushDone, FlushAborts
<1>2. Top.ref \notin Linked
  BY <1>1, FlushingTop DEF Inv, Flushing, FlushOK
<1>3. \A g \in Linked : heap'[g].bytes = heap[g].bytes
  BY <1>1, <1>2, ListFacts DEF Inv, TypeOK
<1>4. stack # <<>> /\ Top.op = "flush" /\ Top.held \in Nat /\ NoError \in Nat
  BY <1>1, FlushingTop DEF NoError
<1>. QED BY <1>1, <1>3, <1>4, ReturnCaps

\* The top activation, which is not evicting, enters another.
LEMMA EmitCaps ==
  ASSUME Inv, CapsOK, UNCHANGED <<heap, order, bytes>>, stack # <<>>,
         ~(Top.op = "AddAt" /\ Top.pc = "evict"),
         NEW f, NEW e, stack' = Push(SetTop(f), e)
  PROVE  CapsOK'
<1>1. SetTop(f) \in Seq(Frame \union {f})
  BY SetTopAny
<1>2. Evicting(stack) => Evicting(stack')
  BY <1>1, SetTopEvicting, PushEvicting
<1>. QED BY <1>2, StillStep

LEMMA FlushEmitsCaps ==
  ASSUME Inv, CapsOK, FlushPrefix \/ FlushLine
  PROVE  CapsOK'
<1>1. /\ stack # <<>> /\ Top.op = "flush" /\ UNCHANGED <<heap, order, bytes>>
      /\ \E f, e : stack' = Push(SetTop(f), e)
  BY DEF FlushPrefix, FlushLine, EmitFromGroup, Running, aggregator
<1>. QED BY <1>1, EmitCaps

LEMMA PassThroughCaps ==
  ASSUME Inv, CapsOK, PassThrough
  PROVE  CapsOK'
<1>1. /\ stack # <<>> /\ Top.pc = "start" /\ UNCHANGED <<heap, order, bytes>>
      /\ \E f, e : stack' = Push(SetTop(f), e)
  BY DEF PassThrough, At, EmitLine, Running, aggregator
<1>. QED BY <1>1, EmitCaps

LEMMA MoveCaps ==
  ASSUME Inv, CapsOK, Miss \/ Starts
  PROVE  CapsOK'
<1>1. /\ stack # <<>> /\ Top.pc # "evict" /\ UNCHANGED <<heap, order, bytes>>
      /\ \E f : stack' = SetTop(f)
  BY DEF Miss, Starts, At, Running, aggregator
<1>2. Evicting(stack) => Evicting(stack')
  BY <1>1, SetTopEvicting
<1>. QED BY <1>1, <1>2, StillStep
-----------------------------------------------------------------------------
(* The steps that take a group out of the list, or put one in.              *)

LEMMA LeaveCaps ==
  ASSUME Inv, CapsOK, Drain \/ Evict \/ FlushFirst \/ \E k \in Keys : CallFlush(k)
  PROVE  CapsOK'
<1>1. PICK g \in Linked : /\ Unlink(g) /\ UNCHANGED heap
                          /\ stack' = Push(stack, FlushOf(g))
  <2>1. CASE Drain
    <3>1. groups[Top.key] # Nil /\ Top.key \in Keys
      BY <2>1, TopFrame, AddFramePc DEF Drain, KeyIsFree, At, Running, Inv, TypeOK
    <3>. QED BY <2>1, <3>1, PendingGroups DEF Drain
  <2>2. CASE Evict
    <3>1. order # <<>>
      BY <2>2, EmptySeq DEF Evict, OverCaps
    <3>. QED BY <2>2, <3>1, PendingGroups DEF Evict
  <2>3. CASE FlushFirst
    BY <2>3, PendingGroups DEF FlushFirst, Stale
  <2>4. CASE \E k \in Keys : CallFlush(k)
    BY <2>4, PendingGroups DEF CallFlush
  <2>. QED BY <2>1, <2>2, <2>3, <2>4
<1>2. Evicting(stack) => Evicting(stack')
  BY <1>1, PushEvicting DEF Inv, TypeOK
<1>. QED BY <1>1, <1>2, LeaveStep DEF Unlink

\* AddAt starts the flush of a group while it goes on at another block than evict.
LEMMA PcEvicting ==
  ASSUME Inv, stack # <<>>, Top.pc # "evict", NEW f, NEW e, Evicting(stack)
  PROVE  Evicting(Push(SetTop(f), e))
<1>1. SetTop(f) \in Seq(Frame \union {f})
  BY SetTopAny
<1>. QED BY <1>1, SetTopEvicting, PushEvicting

LEMMA BreakCaps ==
  ASSUME Inv, CapsOK, Break
  PROVE  CapsOK'
<1>1. PICK g : /\ g = groups[Top.key] /\ g # Nil /\ Running("AddAt") /\ Top.pc = "lookup"
               /\ Unlink(g) /\ UNCHANGED heap
               /\ \E f, e : stack' = Push(SetTop(f), e)
  BY DEF Break, At
<1>2. g \in Linked /\ stack # <<>>
  BY <1>1, TopFrame, AddFramePc, PendingGroups DEF Inv, TypeOK, Running
<1>3. Evicting(stack) => Evicting(stack')
  BY <1>1, <1>2, PcEvicting
<1>. QED BY <1>1, <1>2, <1>3, LeaveStep DEF Unlink

\* An AddAt that has to look at the caps has the eviction loop before it.
LEMMA ToEvict ==
  ASSUME Inv, Running("AddAt"), stack' = SetTop([Top EXCEPT !.pc = "evict"])
  PROVE  Evicting(stack')
<1>1. stack # <<>> /\ Top \in Frame /\ Top.op = "AddAt"
  BY TopFrame DEF Inv, TypeOK, Running
<1>2. PICK f : /\ f = [Top EXCEPT !.pc = "evict"]
               /\ f.op = "AddAt" /\ f.pc = "evict"
  <2> DEFINE h == [Top EXCEPT !.pc = "evict"]
  <2>1. h.op = "AddAt" /\ h.pc = "evict"
    BY <1>1, PcFields
  <2> HIDE DEF h
  <2>2. \E f : f = h /\ f.op = "AddAt" /\ f.pc = "evict"
    BY <2>1
  <2>. QED BY <2>2 DEF h
<1>3. /\ Len(stack') = Len(stack) /\ stack'[Len(stack)] = f
      /\ Len(stack) \in 1 .. Len(stack)
  BY <1>1, <1>2, SetTopAny, TopFrame DEF Inv, TypeOK
<1>. QED BY <1>2, <1>3 DEF Evicting

LEMMA ContinueCaps ==
  ASSUME Inv, CapsOK, Continue
  PROVE  CapsOK'
<1> DEFINE next == Step(Top.line, heap[groups[Top.key]].active).next
           more == Grown(heap[groups[Top.key]], Top.line, Top.when, Top.data)
<1>1. PICK g : /\ g = groups[Top.key] /\ g # Nil
               /\ Running("AddAt") /\ Top.pc = "lookup" /\ stack # <<>>
  BY DEF Continue, At, Running
<1>2. PICK grown : grown = more
  OBVIOUS
<1>3. /\ heap' = [heap EXCEPT ![g] = grown]
      /\ \/ /\ AllFinal(next) /\ order' = Detached(g) /\ bytes' = bytes - heap[g].bytes
            /\ \E f, e : stack' = Push(SetTop(f), e)
         \/ /\ order' = Append(Detached(g), g) /\ bytes' = bytes + grown.bytes - heap[g].bytes
            /\ stack' = SetTop([Top EXCEPT
                 !.pc = IF MaxTotalBytes > 0 THEN "evict" ELSE "return"])
  BY <1>1, <1>2 DEF Continue, MovedLast
<1>4. g \in Linked /\ g \in Refs
  BY <1>1, TopFrame, AddFramePc, PendingGroups, ListFacts DEF Inv, TypeOK, Running
<1>5. heap' \in [Refs -> Group] /\ grown \in Group
  <2>1. Inv'
    BY ContinueStep
  <2>2. heap' \in [Refs -> Group]
    BY <2>1 DEF Inv, TypeOK
  <2>. QED BY <2>2, <1>3, <1>4 DEF Inv, TypeOK
<1>6. \A r \in Refs : r # g => heap'[r].bytes = heap[r].bytes
  BY <1>3, <1>4 DEF Inv, TypeOK
<1> HIDE DEF next, more
<1>7. CASE /\ order' = Detached(g) /\ bytes' = bytes - heap[g].bytes
           /\ \E f, e : stack' = Push(SetTop(f), e)
  <2>1. Evicting(stack) => Evicting(stack')
    BY <1>1, <1>7, PcEvicting
  <2>. QED BY <1>4, <1>6, <1>7, <2>1, LeaveStep
<1>8. CASE /\ order' = Append(Detached(g), g) /\ bytes' = bytes + grown.bytes - heap[g].bytes
           /\ stack' = SetTop([Top EXCEPT
                !.pc = IF MaxTotalBytes > 0 THEN "evict" ELSE "return"])
  <2>1. /\ order \in Seq(Refs) /\ IsInjective(order) /\ g \in ToSet(order)
        /\ Len(order) \in Nat /\ bytes \in Int /\ heap[g].bytes \in Nat /\ grown.bytes \in Nat
    BY <1>4, <1>5, ListFacts DEF Linked, Group
  <2>2. PICK q : q = Detached(g)
    OBVIOUS
  <2>3. /\ q \in Seq(Refs) /\ ToSet(q) = Linked \ {g} /\ Len(q) = Len(order) - 1
    <3>1. PICK k \in 1 .. Len(order) : g = order[k]
      BY <2>1, LenProperties DEF ToSet
    <3>. QED BY <2>1, <2>2, <3>1, RemoveFirstSet, RemoveFirstProperties DEF Detached, Linked
  <2>4. PICK b \in Int : b = bytes - heap[g].bytes
    BY <2>1
  <2>5. Sums(q, [r \in Refs |-> heap[r].bytes], b)
    <3> DEFINE w == [r \in Refs |-> heap[r].bytes]
    <3>1. Sums(order, w, bytes) /\ w[g] = heap[g].bytes /\ \A r \in Refs : w[r] \in Int
      BY <1>4 DEF CapsOK, Gauge, Inv, TypeOK, Group
    <3> HIDE DEF w
    <3>2. Sums(q, w, b)
      BY <2>1, <2>2, <2>4, <3>1, SumRemoved DEF Detached
    <3>. QED BY <3>2 DEF w
  <2>6. \A i \in 1 .. Len(q) : q[i] # g
    <3>1. \A i \in 1 .. Len(q) : q[i] \in ToSet(q)
      BY <2>3, LenProperties DEF ToSet
    <3>. QED BY <2>3, <3>1
  <2>7. order' = Append(q, g) /\ bytes' = b + heap'[g].bytes
    <3>1. heap'[g] = grown
      BY <1>3, <1>4 DEF Inv, TypeOK
    <3>. QED BY SMTT(20), <3>1, <1>8, <2>1, <2>2, <2>4
  <2>8. Gauge'
    BY <1>4, <1>5, <1>6, <2>3, <2>5, <2>6, <2>7, JoinStep
  <2>9. CASE MaxTotalBytes > 0
    <3>1. Evicting(stack')
      BY <1>1, <1>8, <2>9, ToEvict
    <3>. QED BY <2>8, <3>1 DEF CapsOK
  <2>10. CASE ~(MaxTotalBytes > 0)
    <3>1. Len(order') = Len(order)
      BY <2>1, <2>3, <2>7, <1>4, AppendProperties
    <3>2. Over(Len(order'), bytes') => Evicting(stack)
      BY <2>10, <3>1 DEF CapsOK, Over
    <3>3. Evicting(stack) => Evicting(stack')
      BY <1>1, <1>8, SetTopEvicting
    <3>. QED BY <2>8, <3>2, <3>3 DEF CapsOK
  <2>. QED BY <2>9, <2>10
<1>. QED BY <1>3, <1>7, <1>8

LEMMA ClaimCaps ==
  ASSUME Inv, CapsOK, Claim
  PROVE  CapsOK'
<1>1. Running("AddAt") /\ Top.pc = "drain" /\ stack # <<>>
  BY DEF Claim, At, Running
<1>2. PICK g, new :
        /\ g \in Refs
        /\ Allocates(g) /\ heap' = [heap EXCEPT ![g] = new]
        /\ \/ UNCHANGED <<order, bytes>> /\ \E f, e : stack' = Push(SetTop(f), e)
           \/ /\ order' = Append(order, g) /\ bytes' = bytes + new.bytes
              /\ stack' = SetTop([Top EXCEPT !.pc = "evict"])
  BY DEF Claim
<1>3. g \in Refs /\ g \notin Linked
  BY <1>2, AllocatesProperties
<1>4. \A r \in Refs : r # g => heap'[r].bytes = heap[r].bytes
  BY <1>2, <1>3 DEF Inv, TypeOK
<1>5. CASE UNCHANGED <<order, bytes>> /\ \E f, e : stack' = Push(SetTop(f), e)
  <2>1. Evicting(stack) => Evicting(stack')
    BY <1>1, <1>5, PcEvicting
  <2>2. \A r \in Linked : heap'[r].bytes = heap[r].bytes
    BY <1>3, <1>4, ListFacts
  <2>. QED BY <1>5, <2>1, <2>2, StillStep
<1>6. CASE /\ order' = Append(order, g) /\ bytes' = bytes + new.bytes
           /\ stack' = SetTop([Top EXCEPT !.pc = "evict"])
  <2>1. Evicting(stack')
    BY <1>1, <1>6, ToEvict
  <2>2. heap' \in [Refs -> Group]
    <3>1. Inv'
      BY ClaimStep
    <3>. QED BY <3>1 DEF Inv, TypeOK
  <2>3. Sums(order, [r \in Refs |-> heap[r].bytes], bytes)
    BY DEF CapsOK, Gauge
  <2>4. \A i \in 1 .. Len(order) : order[i] # g
    BY <1>3, ListFacts
  <2>5. order \in Seq(Refs) /\ bytes \in Int /\ heap'[g] = new
    BY <1>2, <1>3, ListFacts DEF Inv, TypeOK
  <2>6. Gauge'
    BY <1>3, <1>4, <1>6, <2>2, <2>3, <2>4, <2>5, JoinStep
  <2>. QED BY <2>1, <2>6 DEF CapsOK
<1>. QED BY <1>2, <1>5, <1>6
-----------------------------------------------------------------------------
(* The theorems.                                                            *)

LEMMA InitCaps == Init => CapsOK
<1>. SUFFICES ASSUME Init PROVE CapsOK
  OBVIOUS
<1>1. order = <<>> /\ bytes = 0 /\ Len(order) = 0
  BY LenOfEmpty DEF Init
<1>2. Gauge
  BY <1>1, NoneSums DEF Gauge
<1>3. ~Over(Len(order), bytes)
  BY <1>1 DEF Over
<1>. QED BY <1>2, <1>3 DEF CapsOK

LEMMA NextCaps == Inv /\ CapsOK /\ [Next]_vars => CapsOK'
<1>. SUFFICES ASSUME Inv, CapsOK, [Next]_vars PROVE CapsOK'
  OBVIOUS
<1>1. CASE Tick \/ UNCHANGED vars
  BY <1>1, TickCaps
<1>2. CASE Calls
  BY <1>2, CallCaps, LeaveCaps DEF Calls
<1>3. CASE Emitter
  BY <1>3, EmitterCaps
<1>4. CASE AddAt
  BY <1>4, ContinueCaps, BreakCaps, MoveCaps, PassThroughCaps, LeaveCaps, ClaimCaps,
     CallReturnsCaps DEF AddAt
<1>5. CASE FlushLoop
  BY <1>5, LeaveCaps, CallReturnsCaps DEF FlushLoop
<1>6. CASE Flush
  BY <1>6, FlushEmitsCaps, FlushEndsCaps DEF Flush
<1>. QED BY <1>1, <1>2, <1>3, <1>4, <1>5, <1>6 DEF Next, Machine

\* The gauge Bytes() reads is the sum of the bytes of the listed groups, and while the
\* caps over all groups are exceeded some AddAt, perhaps one an emitter suspended, has
\* its eviction loop before it (link, unlink, moveLast, the charge of AddAt, evict).
THEOREM CapsInvariance == Spec => []CapsOK
<1>1. Inv /\ CapsOK /\ [Next]_vars => CapsOK'
  BY NextCaps
<1>. QED BY InitCaps, Invariance, <1>1, PTL DEF Spec

\* With nobody evicting, the caps are not exceeded.
LEMMA TotalsFollow == Inv /\ CapsOK => TotalsWithinCaps
<1>. SUFFICES ASSUME Inv, CapsOK, stack = <<>>
              PROVE  /\ MaxGroups > 0 => Len(order) <= MaxGroups
                     /\ MaxTotalBytes > 0 => bytes <= MaxTotalBytes \/ Len(order) = 1
  BY DEF TotalsWithinCaps, Quiet
<1>1. ~Over(Len(order), bytes)
  BY LenOfEmpty DEF CapsOK, Evicting
<1>2. Len(order) \in Nat /\ bytes \in Int /\ order \in Seq(Refs)
  BY ListFacts
<1>3. Len(order) = 0 => bytes = 0
  <2>1. ASSUME Len(order) = 0 PROVE bytes = 0
    <3>1. order = <<>>
      BY <1>2, <2>1, EmptySeq
    <3>. QED BY <3>1, SumOfNone DEF CapsOK, Gauge
  <2>. QED BY <2>1
<1>4. MaxGroups \in Nat /\ MaxTotalBytes \in Nat
  BY BoundsAssumption
<1>5. ASSUME MaxGroups > 0 PROVE Len(order) <= MaxGroups
  BY <1>1, <1>2, <1>4, <1>5 DEF Over
<1>6. ASSUME MaxTotalBytes > 0 PROVE bytes <= MaxTotalBytes \/ Len(order) = 1
  <2>1. CASE Len(order) > 1
    <3>1. ~(bytes > MaxTotalBytes)
      BY <1>1, <1>6, <2>1 DEF Over
    <3>. QED BY <3>1, <1>2, <1>4
  <2>2. CASE Len(order) = 0
    BY <2>2, <1>3, <1>4
  <2>3. Len(order) > 1 \/ Len(order) = 0 \/ Len(order) = 1
    BY <1>2
  <2>. QED BY <2>1, <2>2, <2>3
<1>. QED BY <1>5, <1>6

\* Whatever emitters call while entries are handed over, once the call from outside
\* has returned MaxGroups holds, and MaxTotalBytes up to the one group evict spares.
THEOREM TotalsHold == Spec => []TotalsWithinCaps
BY TotalsFollow, CapsInvariance, Invariance, PTL
-----------------------------------------------------------------------------
(* The bytes of a group are the size of its text.                           *)

Sizes == [text \in RetainedLine |-> text.size]

\* What a group is charged: its lines, and a separator after all but the last.
Charged(g) ==
  Sums(g.lines, Sizes, g.bytes - (IF g.lines = <<>> THEN 0 ELSE Len(g.lines) - 1))

\* Every group, pending, in flight or parked, is charged for its text.
Charges == \A r \in Refs : Charged(heap[r])

\* append charges what it retains.
LEMMA AppendCharges ==
  ASSUME NEW g \in Group, GroupOK(g), Charged(g), NEW l \in Lines, NEW when \in Time,
         NEW data \in Nat
  PROVE  Charged(AppendLine(g, l, when, data))
<1> DEFINE over == MaxBytes > 0 /\ Size(l) > Room(g)
           full == g.capped \/ (MaxLines > 0 /\ Len(g.lines) >= MaxLines)
           kept == IF over THEN CutAt(l, Room(g)) ELSE Size(l)
           gone == full \/ (over /\ kept = 0 /\ g.lines # <<>>)
           text == [line |-> l, size |-> kept, when |-> when, data |-> data]
           more == AppendLine(g, l, when, data)
<1>1. /\ more.lines = IF gone THEN g.lines ELSE Append(g.lines, text)
      /\ more.bytes = IF gone THEN g.bytes ELSE g.bytes + Separator(g) + kept
  BY DEF AppendLine, Group
<1>2. g.lines \in Seq(RetainedLine) /\ g.bytes \in Nat /\ Len(g.lines) \in Nat
  BY LenProperties DEF Group
<1>3. kept \in Nat
  <2>1. CASE over
    <3>1. Room(g) \in Int
      BY <1>2, BoundsAssumption DEF Room, Separator
    <3>. QED BY <2>1, <3>1, CutAtBound
  <2>2. CASE ~over
    BY <2>2, LineAssumption
  <2>. QED BY <2>1, <2>2
<1>4. text \in RetainedLine /\ Sizes[text] = kept
  BY <1>3 DEF RetainedLine, Sizes
<1> HIDE DEF over, full, kept, gone, text, more
<1>5. CASE gone
  BY <1>1, <1>5 DEF Charged, more
<1>6. CASE ~gone
  <2>1. PICK n \in Int : n = g.bytes - (IF g.lines = <<>> THEN 0 ELSE Len(g.lines) - 1)
    BY <1>2
  <2>2. Sums(Append(g.lines, text), Sizes, n + kept)
    BY <1>2, <1>3, <1>4, <2>1, SumAppended DEF Charged
  <2>3. /\ more.lines = Append(g.lines, text) /\ more.lines # <<>>
        /\ Len(more.lines) = Len(g.lines) + 1
    <3>1. more.lines = Append(g.lines, text)
      BY <1>1, <1>6
    <3>. QED BY <3>1, <1>2, <1>4, AppendProperties, LenOfEmpty
  <2>4. more.bytes = g.bytes + Separator(g) + kept
    BY <1>1, <1>6
  <2>5. n + kept = more.bytes - (Len(more.lines) - 1)
    <3>1. CASE g.lines = <<>>
      <4>1. Len(g.lines) = 0 /\ g.bytes = 0 /\ Separator(g) = 0
        BY <3>1, LenOfEmpty DEF GroupOK, Separator
      <4>2. n = 0 /\ Len(more.lines) = 1 /\ more.bytes = kept
        BY <4>1, <3>1, <1>3, <2>1, <2>3, <2>4
      <4>. QED BY <4>2, <1>3
    <3>2. CASE g.lines # <<>>
      <4>1. Separator(g) = 1
        BY <3>2 DEF Separator
      <4>2. n = g.bytes - (Len(g.lines) - 1)
        BY <3>2, <2>1
      <4>3. PICK u, v \in Nat : u = g.bytes /\ v = Len(g.lines)
        BY <1>2
      <4>. QED BY <4>1, <4>2, <4>3, <1>3, <2>3, <2>4
    <3>. QED BY <3>1, <3>2
  <2>. QED BY <2>2, <2>3, <2>5 DEF Charged, more
<1>. QED BY <1>5, <1>6

LEMMA GrownCharges ==
  ASSUME NEW g \in Group, GroupOK(g), Charged(g), NEW l \in Lines, NEW when \in Time,
         NEW data \in Nat
  PROVE  Charged(Grown(g, l, when, data))
<1> DEFINE more == AppendLine(g, l, when, data)
           h    == Grown(g, l, when, data)
<1>1. Charged(more)
  BY AppendCharges
<1>2. h.lines = more.lines /\ h.bytes = more.bytes
  BY DEF Grown, AppendLine, Group
<1>. QED BY <1>1, <1>2 DEF Charged

\* The groups a key is claimed for, and those the free list holds.
LEMMA EmptyCharged ==
  ASSUME NEW g, g.lines = <<>>, g.bytes = 0
  PROVE  Charged(g)
BY NoneSums DEF Charged

LEMMA NewGroupCharges ==
  ASSUME NEW key \in Keys, NEW l \in Lines, NEW when \in Time, NEW data \in Nat,
         clock \in 1 .. MaxTime
  PROVE  Charged(NewGroup(key, l, when, data))
<1> DEFINE b == Opened(key, when, Step(l, {StartState}).next)
<1>1. b \in Group
  <2>1. Stamp(when) \in Time /\ Step(l, {StartState}).next \in SUBSET States
    BY BoundsAssumption, MatcherAssumption DEF Stamp, Time
  <2>2. <<>> \in Seq(RetainedLine) /\ 0 \in Nat /\ FALSE \in BOOLEAN
    OBVIOUS
  <2>. QED BY <2>1, <2>2 DEF Opened, Group, StreamKeys
<1>2. /\ b.lines = <<>> /\ b.bytes = 0 /\ b.total = 0 /\ b.capped = FALSE
      /\ b.acceptedLines = 0 /\ b.acceptedTotal = 0
  BY DEF Opened
<1> HIDE DEF b
<1>3. GroupOK(b) /\ Charged(b)
  BY <1>2, LenOfEmpty, BoundsAssumption, EmptyCharged DEF GroupOK
<1>. QED BY <1>1, <1>3, AppendCharges DEF NewGroup, b

\* A step changes one group at most: it grows, starts, or is given up.
LEMMA HeapSteps ==
  ASSUME Inv, [Next]_vars
  PROVE  \/ UNCHANGED heap
         \/ \E g \in Refs : heap' = [heap EXCEPT ![g] = Blank]
         \/ \E g \in Refs, l \in Lines, when \in Time, data \in Nat :
              \/ heap' = [heap EXCEPT ![g] = Grown(heap[g], l, when, data)]
              \/ \E k \in Keys : heap' = [heap EXCEPT ![g] = NewGroup(k, l, when, data)]
<1>1. CASE Tick \/ UNCHANGED vars
  BY <1>1 DEF Tick, vars, aggregator
<1>2. CASE Calls
  BY <1>2 DEF Calls, CallAdd, CallAddAt, CallAddBypass, CallAddAtBypass, EmitLine, CallFlush,
     CallFlushBefore, CallStop, aggregator
<1>3. CASE Emitter
  BY <1>3 DEF Emitter, EmitterSucceeds, EmitterFails, EmitterReturns, aggregator
<1>4. CASE FlushLoop
  BY <1>4 DEF FlushLoop, FlushFirst, LoopReturns, aggregator
<1>5. CASE Flush
  <2>1. CASE FlushPrefix \/ FlushLine
    BY <2>1 DEF FlushPrefix, FlushLine, EmitFromGroup, aggregator
  <2>2. CASE FlushDone \/ FlushAborts
    <3>1. Running("flush") /\ heap' = [heap EXCEPT ![Top.ref] = Blank]
      BY <2>2 DEF FlushDone, FlushAborts
    <3>2. Top.ref \in Refs
      BY <3>1, FlushingTop DEF FlushFrame
    <3>. QED BY <3>1, <3>2
  <2>. QED BY <1>5, <2>1, <2>2 DEF Flush
<1>6. CASE AddAt
  <2>1. CASE Continue \/ Claim
    <3>1. /\ stack # <<>> /\ Top \in AddFrame
      BY <2>1, TopFrame, FrameKinds DEF Continue, Claim, At, Running, Inv, TypeOK
    <3>2. Top.key \in Keys
      BY <3>1 DEF AddFrame
    <3>3. PICK l, when, data :
            /\ l = Top.line /\ when = Top.when /\ data = Top.data
            /\ l \in Lines /\ when \in Time /\ data \in Nat
      BY <3>1 DEF AddFrame
    <3>4. CASE Continue
      <4>1. PICK g : g = groups[Top.key] /\ g # Nil
        BY <3>4 DEF Continue
      <4>2. g \in Refs
        BY <3>2, <4>1 DEF Inv, TypeOK
      <4>3. heap' = [heap EXCEPT ![g] = Grown(heap[g], l, when, data)]
        BY <3>3, <3>4, <4>1 DEF Continue
      <4>. QED BY <3>3, <4>2, <4>3
    <3>5. CASE Claim
      <4>1. PICK g \in Refs :
              heap' = [heap EXCEPT ![g] = NewGroup(Top.key, Top.line, Top.when, Top.data)]
        BY <3>5 DEF Claim
      <4>2. heap' = [heap EXCEPT ![g] = NewGroup(Top.key, l, when, data)]
        BY <3>3, <4>1
      <4>. QED BY <3>2, <3>3, <4>2
    <3>. QED BY <2>1, <3>4, <3>5
  <2>2. CASE Break \/ Miss \/ PassThrough \/ Starts \/ Drain \/ Evict \/ AddReturns
    BY <2>2 DEF Break, Miss, PassThrough, Starts, Drain, Evict, AddReturns, EmitLine, aggregator
  <2>. QED BY <1>6, <2>1, <2>2 DEF AddAt
<1>. QED BY <1>1, <1>2, <1>3, <1>4, <1>5, <1>6 DEF Next, Machine

LEMMA NextCharges == Inv /\ Charges /\ [Next]_vars => Charges'
<1>. SUFFICES ASSUME Inv, Charges, [Next]_vars PROVE Charges'
  OBVIOUS
<1>1. ASSUME NEW g \in Refs, NEW h, heap' = [heap EXCEPT ![g] = h], Charged(h)
      PROVE  Charges'
  <2>1. \A r \in Refs : heap'[r] = IF r = g THEN h ELSE heap[r]
    BY <1>1 DEF Inv, TypeOK
  <2>. QED BY <1>1, <2>1 DEF Charges, Charged
<1>2. CASE UNCHANGED heap
  BY <1>2 DEF Charges, Charged
<1>3. ASSUME NEW g \in Refs, heap' = [heap EXCEPT ![g] = Blank]
      PROVE  Charges'
  <2>1. Charged(Blank)
    BY EmptyCharged DEF Blank
  <2>. QED BY <1>1, <1>3, <2>1
<1>4. ASSUME NEW g \in Refs, NEW l \in Lines, NEW when \in Time, NEW data \in Nat,
             heap' = [heap EXCEPT ![g] = Grown(heap[g], l, when, data)]
      PROVE  Charges'
  <2>1. heap[g] \in Group /\ GroupOK(heap[g]) /\ Charged(heap[g])
    BY DEF Inv, TypeOK, Formed, Charges
  <2>2. Charged(Grown(heap[g], l, when, data))
    BY <2>1, GrownCharges
  <2>. QED BY <1>1, <1>4, <2>2
<1>5. ASSUME NEW g \in Refs, NEW l \in Lines, NEW when \in Time, NEW data \in Nat,
             NEW k \in Keys, heap' = [heap EXCEPT ![g] = NewGroup(k, l, when, data)]
      PROVE  Charges'
  <2>1. Charged(NewGroup(k, l, when, data))
    BY NewGroupCharges DEF Inv, TypeOK
  <2>. QED BY <1>1, <1>5, <2>1
<1>. QED BY <1>2, <1>3, <1>4, <1>5, HeapSteps

\* Folding the sizes of lines onto b, from the first line to the last.
SizesFrom(q, b) == FoldLeft(LAMBDA n, text : n + text.size, b, q)

LEMMA SizesFold ==
  ASSUME NEW q \in Seq(RetainedLine), NEW b \in Int, NEW n \in Int, Sums(q, Sizes, n)
  PROVE  SizesFrom(q, b) = b + n
<1> DEFINE D == 1 .. Len(q)
           step == [p \in D \X Int |-> p[2] + q[p[1]].size]
           Eq(f) == f = [s \in SUBSET D |->
                           IF s = {} THEN b
                           ELSE LET x == Max(s) IN f[s \ {x}] + q[x].size]
           iter == CHOOSE f : Eq(f)
<1>1. DOMAIN q = D /\ Len(q) \in Nat /\ \A i \in D : q[i].size \in Nat /\ Sizes[q[i]] = q[i].size
  <2>1. \A i \in D : q[i] \in RetainedLine
    BY ElementOfSeq
  <2>. QED BY <2>1, LenProperties DEF RetainedLine, Sizes
<1>2. SizesFrom(q, b) = iter[D]
  BY <1>1 DEF SizesFrom, FoldLeft, MapThenFoldSet
<1>3. PICK f : FoldsOver(f, D, Int, b, LeftPick(Len(q)), step)
  <2>1. \A i \in 1 .. Len(q), v \in Int : step[<<i, v>>] \in Int
    BY <1>1
  <2> HIDE DEF step
  <2>. QED BY <1>1, <2>1, LeftFoldExists
<1>4. Eq(f)
  <2>1. f \in [SUBSET D -> Int]
    BY <1>3 DEF FoldsOver
  <2>2. ASSUME NEW s \in SUBSET D
        PROVE  f[s] = IF s = {} THEN b ELSE LET x == Max(s) IN f[s \ {x}] + q[x].size
    <3>1. CASE s = {}
      BY <1>3, <3>1 DEF FoldsOver
    <3>2. CASE s # {}
      <4>1. PICK x \in D : x = Max(s) /\ x = LeftPick(Len(q))[s]
        BY <3>2, <1>1, LeftPicks
      <4>2. f[s \ {x}] \in Int
        BY <2>1
      <4>3. f[s] = step[<<x, f[s \ {x}]>>]
        <5> HIDE DEF step
        <5>. QED BY <1>3, <3>2, <4>1 DEF FoldsOver
      <4>. QED BY <3>2, <4>1, <4>2, <4>3
    <3>. QED BY <3>1, <3>2
  <2>. QED BY <2>1, <2>2
<1>5. Eq(iter)
  <2> HIDE DEF Eq
  <2>. QED BY <1>4
<1>6. PICK t \in [0 .. Len(q) -> Int] :
        /\ t[0] = 0 /\ n = t[Len(q)]
        /\ \A i \in D : t[i] = t[i - 1] + Sizes[q[i]]
  BY DEF Sums
<1> DEFINE N == {k \in Nat : k <= Len(q) => iter[1 .. k] = b + t[k]}
<1>7. \A k \in Nat : k \in N
  <2>1. 0 \in N
    <3>1. 1 .. 0 = {} /\ 1 .. 0 \in SUBSET D
      OBVIOUS
    <3>2. iter[1 .. 0] = b
      <4> HIDE DEF iter
      <4>. QED BY <1>5, <3>1
    <3> HIDE DEF iter
    <3>. QED BY <1>1, <1>6, <3>2
  <2>2. ASSUME NEW k \in Nat, k \in N PROVE k + 1 \in N
    <3>1. SUFFICES ASSUME k + 1 <= Len(q) PROVE iter[1 .. (k + 1)] = b + t[k + 1]
      OBVIOUS
    <3>2. /\ k + 1 \in D /\ (k + 1) - 1 = k
          /\ 1 .. (k + 1) \in SUBSET D
          /\ t[k] \in Int
      BY <3>1, <1>1
    <3> HIDE DEF iter
    <3>3. iter[1 .. (k + 1)] = iter[1 .. k] + q[k + 1].size
      <4>1. /\ 1 .. (k + 1) # {} /\ Max(1 .. (k + 1)) = k + 1
            /\ (1 .. (k + 1)) \ {k + 1} = 1 .. k
        BY SMTT(20), <3>2, LeftLadder
      <4>. QED BY <1>5, <3>2, <4>1
    <3>4. iter[1 .. k] = b + t[k]
      BY <2>2, <3>1, <1>1
    <3>5. t[k + 1] = t[k] + q[k + 1].size
      BY <1>1, <1>6, <3>2
    <3>. QED BY <1>1, <3>2, <3>3, <3>4, <3>5
  <2> HIDE DEF N
  <2>. QED BY <2>1, <2>2, SetInduction
<1>8. iter[D] = b + n
  <2> HIDE DEF iter
  <2>. QED BY <1>1, <1>6, <1>7
<1> HIDE DEF iter, D
<1>. QED BY <1>2, <1>8

\* The sum of the groups' bytes, over the set of them, is the sum along the list.
LEMMA SetSum ==
  ASSUME Inv, Gauge, \A g \in Linked : JoinedSize(heap[g]) = heap[g].bytes
  PROVE  bytes = MapThenSumSet(LAMBDA g : JoinedSize(heap[g]), Linked)
<1> DEFINE pick == [s \in SUBSET Linked |-> CHOOSE x \in s : TRUE]
           step == [p \in Linked \X Int |-> heap[p[1]].bytes + p[2]]
           Eq(f) == f = [s \in SUBSET Linked |->
                           IF s = {} THEN 0
                           ELSE LET x == CHOOSE x \in s : TRUE
                                IN  JoinedSize(heap[x]) + f[s \ {x}]]
           iter == CHOOSE f : Eq(f)
<1>1. MapThenSumSet(LAMBDA g : JoinedSize(heap[g]), Linked) = iter[Linked]
  BY DEF MapThenSumSet, MapThenFoldSet
<1>2. /\ order \in Seq(Refs) /\ IsInjective(order) /\ Len(order) \in Nat /\ bytes \in Int
      /\ \A g \in Linked : g \in Refs /\ heap[g].bytes \in Int
  BY ListFacts
<1>3. PICK f : FoldsOver(f, Linked, Int, 0, pick, step)
  <2>1. IsFiniteSet(Linked)
    <3>1. order \in Surjection(1 .. Len(order), Linked)
      BY <1>2, LenProperties DEF Linked, ToSet, Surjection
    <3>. QED BY <1>2, <3>1, FS_Interval, FS_Surjection
  <2>2. \A s \in SUBSET Linked : s # {} => pick[s] \in s
    OBVIOUS
  <2>3. \A x \in Linked, v \in Int : step[<<x, v>>] \in Int
    BY <1>2
  <2> HIDE DEF pick, step
  <2>4. Foldable(Linked, Int, 0, pick, step)
    BY <2>1, <2>2, <2>3 DEF Foldable
  <2>. QED BY <2>4, FoldExists
<1>4. Eq(f)
  <2>1. f \in [SUBSET Linked -> Int]
    BY <1>3 DEF FoldsOver
  <2>2. ASSUME NEW s \in SUBSET Linked
        PROVE  f[s] = IF s = {} THEN 0
                      ELSE LET x == CHOOSE x \in s : TRUE
                           IN  JoinedSize(heap[x]) + f[s \ {x}]
    <3>1. CASE s = {}
      BY <1>3, <3>1 DEF FoldsOver
    <3>2. CASE s # {}
      <4>1. PICK x \in Linked : x = (CHOOSE y \in s : TRUE) /\ x = pick[s]
        BY <3>2
      <4>2. f[s \ {x}] \in Int
        BY <2>1
      <4>3. f[s] = step[<<x, f[s \ {x}]>>]
        <5> HIDE DEF pick, step
        <5>. QED BY <1>3, <3>2, <4>1 DEF FoldsOver
      <4>4. f[s] = JoinedSize(heap[x]) + f[s \ {x}]
        BY <4>2, <4>3
      <4>. QED BY <3>2, <4>1, <4>4
    <3>. QED BY <3>1, <3>2
  <2>. QED BY <2>1, <2>2
<1>5. Eq(iter)
  <2> HIDE DEF Eq
  <2>. QED BY <1>4
<1>6. PICK w : w = [r \in Refs |-> heap[r].bytes]
  OBVIOUS
<1>7. \A r \in Refs : w[r] \in Int
  BY <1>6 DEF Inv, TypeOK, Group
<1> DEFINE AddsUp(q, n) ==
             IsInjective(q) /\ ToSet(q) \subseteq Linked /\ Sums(q, w, n) => iter[ToSet(q)] = n
           N == {k \in Nat : \A q \in Seq(Refs), n \in Int : Len(q) = k => AddsUp(q, n)}
<1> HIDE DEF pick, step, iter
<1>8. \A k \in Nat : k \in N
  <2>1. 0 \in N
    <3>1. SUFFICES ASSUME NEW q \in Seq(Refs), NEW n \in Int, Len(q) = 0,
                          Sums(q, w, n)
                   PROVE  iter[ToSet(q)] = n
      OBVIOUS
    <3>2. q = <<>>
      BY <3>1, EmptySeq
    <3>3. n = 0
      BY <3>1, <3>2, SumOfNone
    <3>4. ToSet(q) = {}
      BY <3>2 DEF ToSet
    <3>. QED BY <1>5, <3>3, <3>4
  <2>2. ASSUME NEW k \in Nat, k \in N PROVE k + 1 \in N
    <3>1. SUFFICES ASSUME NEW q \in Seq(Refs), NEW n \in Int, Len(q) = k + 1,
                          IsInjective(q), ToSet(q) \subseteq Linked, Sums(q, w, n)
                   PROVE  iter[ToSet(q)] = n
      OBVIOUS
    <3>2. PICK s : s = ToSet(q)
      OBVIOUS
    <3>3. s \in SUBSET Linked /\ s # {}
      <4>1. q[1] \in ToSet(q)
        BY <3>1, LenProperties DEF ToSet
      <4>. QED BY <3>1, <3>2, <4>1
    <3>4. PICK x \in s : x = CHOOSE y \in s : TRUE
      BY <3>3
    <3>5. PICK p : p = RemoveFirst(q, x)
      OBVIOUS
    <3>6. p \in Seq(Refs) /\ IsInjective(p) /\ ToSet(p) = s \ {x} /\ Len(p) = k
      <4>1. PICK i \in 1 .. Len(q) : x = q[i]
        BY <3>2, LenProperties DEF ToSet
      <4>. QED BY <3>1, <3>2, <3>5, <4>1, RemoveFirstSet, RemoveFirstProperties
    <3>7. Sums(p, w, n - w[x])
      BY <1>7, <3>1, <3>2, <3>5, SumRemoved
    <3>8. w[x] = JoinedSize(heap[x]) /\ w[x] \in Int
      BY <1>2, <1>6, <1>7, <3>3
    <3>9. iter[s \ {x}] = n - w[x]
      <4>1. n - w[x] \in Int /\ ToSet(p) \subseteq Linked
        BY <3>3, <3>6, <3>8
      <4>. QED BY <2>2, <3>6, <3>7, <4>1
    <3>10. iter[s] = JoinedSize(heap[x]) + iter[s \ {x}]
      BY <1>5, <3>3, <3>4
    <3>. QED BY <3>2, <3>8, <3>9, <3>10
  <2> HIDE DEF N
  <2>. QED BY <2>1, <2>2, SetInduction
<1>9. Sums(order, w, bytes) /\ ToSet(order) = Linked
  BY <1>6 DEF Gauge, Linked
<1>10. iter[Linked] = bytes
  BY <1>2, <1>8, <1>9
<1>. QED BY <1>1, <1>10

LEMMA InitCharges == Init => Charges
<1>. SUFFICES ASSUME Init, NEW r \in Refs PROVE Charged(heap[r])
  BY DEF Charges
<1>1. heap[r] = Blank
  BY DEF Init
<1>. QED BY <1>1, EmptyCharged DEF Blank

\* The gauge is the size of what the listed groups retain.
LEMMA GaugeFollows == Inv /\ CapsOK /\ Charges => BytesIsGauge
<1>. SUFFICES ASSUME Inv, CapsOK, Charges PROVE BytesIsGauge
  OBVIOUS
<1>1. ASSUME NEW g \in Linked PROVE JoinedSize(heap[g]) = heap[g].bytes
  <2>1. heap[g] \in Group /\ Charged(heap[g]) /\ heap[g].lines # <<>>
    BY ListFacts DEF Inv, TypeOK, Mapped, Charges
  <2>2. PICK q, size : /\ q = heap[g].lines /\ size = heap[g].bytes
                     /\ q \in Seq(RetainedLine) /\ size \in Nat
    BY <2>1 DEF Group
  <2>3. Len(q) \in Nat /\ q # <<>>
    BY <2>1, <2>2, LenProperties
  <2>4. PICK b \in Int : b = Len(q) - 1
    BY <2>3
  <2>5. Sums(q, Sizes, size - b)
    BY <2>1, <2>2, <2>4 DEF Charged
  <2>6. SizesFrom(q, b) = size
    <3>1. PICK d \in Int : d = size - b
      BY <2>2
    <3>2. SizesFrom(q, b) = b + d
      BY <2>2, <2>5, <3>1, SizesFold
    <3>. QED BY <2>2, <3>1, <3>2
  <2>7. JoinedSize(heap[g]) = SizesFrom(heap[g].lines, Len(heap[g].lines) - 1)
    BY <2>1 DEF JoinedSize, SizesFrom, FoldLeft, MapThenFoldSet
  <2>. QED BY <2>2, <2>4, <2>6, <2>7
<1>. QED BY <1>1, SetSum DEF CapsOK, BytesIsGauge

\* Bytes() is at all times the size of the text retained in the pending groups,
\* separators included: what append charges, in whichever call, however the line was
\* cut or dropped, is what unlink takes off again, also for a group that is unlinked
\* between two lines by an emitter's call (append, link, unlink, AddAt).
THEOREM BytesAddUp == Spec => []BytesIsGauge
<1>1. Inv /\ Charges /\ [Next]_vars => Charges'
  BY NextCharges
<1>. QED BY <1>1, InitCharges, GaugeFollows, CapsInvariance, Invariance, PTL DEF Spec
=============================================================================
