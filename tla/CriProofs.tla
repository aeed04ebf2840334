------------------------------- MODULE CriProofs -------------------------------
(***************************************************************************)
(* Theorems about the CRI stage, for every set of sources and of line      *)
(* lengths, every value of the caps and any number of failures of the next *)
(* stage.  All but the last ones hold whatever the next stage calls while  *)
(* it handles a line.  The steps of the inner aggregator are steps of      *)
(* Multiline, whose invariants are kept by the lemmas of its own proofs;   *)
(* what remains are the four actions that are the stage's own.             *)
(***************************************************************************)
EXTENDS CriInv, SerialProofs

-----------------------------------------------------------------------------
(* The stage's own steps.                                                   *)

\* The key of a line handed on unbuffered has nothing pending, or can have nothing.
Free(key) == key = NoKey \/ (key \in Keys /\ (groups[key] = Nil \/ key[2] = Bare))

HandsOn ==
  MayCall /\ \E key \in StreamKeys, raw \in Lines, when \in Time :
               Free(key) /\ HandOn(key, raw, when)

OwnStep ==
  HandsOn \/ (\E s \in Sources : CallFlushSource(s)) \/ FlushStream \/ FlushSourceReturns

LEMMA StreamKeysOK ==
  ASSUME NEW s \in Sources, NEW t \in Streams \union {Bare}
  PROVE  StreamKey(s, t) \in Keys /\ StreamKey(s, t) \in StreamKeys /\ StreamKey(s, t)[2] = t
BY StageAssumption DEF StreamKey, CriKeys, StreamKeys

LEMMA RawLines ==
  /\ CriLine \subseteq Lines /\ NotCri \in Lines
  /\ \A raw \in CriLine : raw.stream \in Streams /\ raw.partial \in BOOLEAN /\ raw.content \in Nat
  /\ \A raw \in Lines : raw # NotCri => raw \in CriLine
  /\ NotCri.stream = Bare /\ NotCri.partial = FALSE
BY StageAssumption, CriAssumption DEF CriLines, CriLine, NotCri

\* Every step is one of the aggregator or one of the stage's own.
LEMMA CriSteps ==
  ASSUME Inv, [CriNext]_vars
  PROVE  [Next]_vars \/ OwnStep
<1>1. clock \in Time /\ ZeroTime \in Time
  BY BoundsAssumption DEF Inv, TypeOK, Time, ZeroTime
<1>2. TRUE \in TimeModes
  BY StageAssumption
<1>3. CASE UNCHANGED vars \/ Tick \/ Emitter \/ Machine
  BY <1>3 DEF Next
<1>4. CASE FlushStream \/ FlushSourceReturns
  BY <1>4 DEF OwnStep
<1>5. CASE CriCalls
  <2>1. ASSUME NEW s \in Sources, AddNotCri(s) PROVE OwnStep
    <3>1. StreamKey(s, Bare) \in Keys /\ StreamKey(s, Bare) \in StreamKeys /\ StreamKey(s, Bare)[2] = Bare
      BY StreamKeysOK
    <3>2. Free(StreamKey(s, Bare))
      BY <3>1 DEF Free
    <3>. QED BY <2>1, <3>1, <3>2, <1>1, RawLines DEF AddNotCri, OwnStep, HandsOn
  <2>2. ASSUME NEW s \in Sources, NEW raw \in CriLine, AddStraight(s, raw) PROVE OwnStep
    <3> DEFINE key == StreamKey(s, raw.stream)
    <3>1. key \in Keys /\ key \in StreamKeys
      BY StreamKeysOK, RawLines
    <3>2. Free(key) /\ MayCall /\ HandOn(key, raw, clock)
      BY <2>2, <3>1 DEF Free, AddStraight, Straight
    <3> HIDE DEF key
    <3>. QED BY <3>1, <3>2, <1>1, RawLines DEF OwnStep, HandsOn
  <2>3. ASSUME NEW s \in Sources, NEW raw \in CriLine, AddBuffered(s, raw) PROVE Next
    <3> DEFINE key == StreamKey(s, raw.stream)
    <3>1. key \in Keys /\ raw \in Lines
      BY StreamKeysOK, RawLines
    <3>2. CallAdd(key, raw, TRUE)
      BY <2>3 DEF AddBuffered
    <3> HIDE DEF key
    <3>. QED BY <3>1, <3>2, <1>2 DEF Next, Calls
  <2>4. ASSUME NEW raw \in CriLines, AddUnkeyed(raw) PROVE Next \/ OwnStep
    <3>1. raw \in Lines /\ NoKey \in StreamKeys /\ Free(NoKey)
      BY StageAssumption DEF StreamKeys, Free
    <3>2. CASE raw.partial /\ CallAddBypass(raw, TRUE)
      BY <3>1, <3>2, <1>2 DEF Next, Calls
    <3>3. CASE MayCall /\ HandOn(NoKey, raw, IF raw = NotCri THEN ZeroTime ELSE clock)
      <4>1. (IF raw = NotCri THEN ZeroTime ELSE clock) \in Time
        BY <1>1
      <4>. QED BY <3>1, <3>3, <4>1 DEF OwnStep, HandsOn
    <3>. QED BY <2>4, <3>2, <3>3 DEF AddUnkeyed
  <2>5. ASSUME NEW s \in Sources, CallFlushSource(s) PROVE OwnStep
    BY <2>5 DEF OwnStep
  <2>6. CASE CallStop \/ \E t \in 1 .. MaxTime + 1 : CallFlushBefore(t)
    BY <2>6 DEF Next, Calls
  <2>. QED BY <1>5, <2>1, <2>2, <2>3, <2>4, <2>5, <2>6 DEF CriCalls
<1>. QED BY <1>3, <1>4, <1>5 DEF CriNext

-----------------------------------------------------------------------------
(* The invariant of the aggregator.                                         *)

\* The entry of a line handed on as it is.
LEMMA HandedOn ==
  ASSUME Inv, NEW key \in StreamKeys, NEW raw \in Lines, NEW when \in Time,
         HandOn(key, raw, when)
  PROVE  \E em \in EmitFrame :
           /\ stack' = Push(stack, em) /\ em.op = "emit" /\ em.slot = 0
           /\ em.entry.key = key /\ em.entry.lines = 1 /\ em.entry.data = fed[key] + 1
           /\ ~em.entry.truncated /\ em.entry.match = NoFormat
           /\ Len(em.entry.texts) = 1 /\ em.entry.texts[1].line = raw
           /\ Whole(em.entry.texts[1])
           /\ fed' = [fed EXCEPT ![key] = @ + 1]
           /\ delivered' = [delivered EXCEPT ![key] = @ + 1]
<1> DEFINE text == [line |-> raw, size |-> Size(raw), when |-> when, data |-> fed[key] + 1]
           e == [key |-> key, match |-> NoFormat, when |-> when, data |-> fed[key] + 1,
                 lines |-> 1, truncated |-> FALSE, texts |-> <<text>>]
           em == EmitOf(e, 0)
<1>1. /\ stack' = Push(stack, em) /\ fed' = [fed EXCEPT ![key] = @ + 1]
      /\ delivered' = [delivered EXCEPT ![key] = @ + 1]
  BY DEF HandOn, Deliver
<1>2. fed[key] + 1 \in Nat
  BY DEF Inv, TypeOK
<1>3. text \in RetainedLine
  BY <1>2, LineAssumption DEF RetainedLine
<1>4. e \in Entry
  BY <1>2, <1>3 DEF Entry
<1>5. em \in EmitFrame /\ em.op = "emit" /\ em.slot = 0 /\ em.entry = e
  BY <1>4 DEF EmitOf, EmitFrame
<1>6. /\ e.key = key /\ e.lines = 1 /\ e.data = fed[key] + 1 /\ ~e.truncated
      /\ e.match = NoFormat /\ Len(e.texts) = 1 /\ e.texts[1] = text
  OBVIOUS
<1>7. text.line = raw /\ Whole(text)
  BY DEF Whole
<1> HIDE DEF em, e, text
<1>. QED BY <1>1, <1>5, <1>6, <1>7

LEMMA HandsOnStep ==
  ASSUME Inv, HandsOn
  PROVE  Inv'
<1>1. PICK key \in StreamKeys, raw \in Lines, when \in Time : HandOn(key, raw, when)
  BY DEF HandsOn
<1>2. PICK em \in EmitFrame :
        /\ stack' = Push(stack, em) /\ em.op = "emit" /\ em.slot = 0
        /\ fed' = [fed EXCEPT ![key] = @ + 1]
        /\ delivered' = [delivered EXCEPT ![key] = @ + 1]
  BY <1>1, HandedOn
<1>3. /\ UNCHANGED aggregator /\ UNCHANGED <<scratch, clock, errors, result, lost>>
      /\ raised' \in Nat
  BY <1>1 DEF HandOn, BeginCall, NoError, Inv, TypeOK
<1>4. /\ stack' \in Seq(Frame)
      /\ Len(stack') = Len(stack) + 1 /\ Len(stack) \in Nat
      /\ stack'[Len(stack) + 1] = em
      /\ \A i \in 1 .. Len(stack) : stack'[i] = stack[i]
  <2>1. em \in Frame
    BY DEF Frame
  <2>. QED BY <1>2, <2>1, PushProperties, LenProperties DEF Inv, TypeOK
<1>5. \A i \in 1 .. Len(stack') :
        \/ i \in 1 .. Len(stack) /\ stack'[i] = stack[i]
        \/ i = Len(stack) + 1 /\ stack'[i] = em
  BY <1>4
<1>6. (Formed /\ Owned /\ Mapped /\ Flushing)'
  BY <1>2, <1>3, <1>4, <1>5, SameIsReflexive, QuietStep
<1>7. Lent'
  <2>1. scratch \in Seq(RetainedLine) /\ Len(scratch) \in Nat
    BY LenProperties DEF Inv, TypeOK
  <2>2. ASSUME NEW i \in 1 .. Len(stack'), stack'[i].op = "emit", i # Len(stack) + 1
        PROVE  /\ i \in 1 .. Len(stack) /\ stack'[i] = stack[i]
               /\ stack[i].slot <= Len(scratch')
               /\ stack[i].slot > 0 => scratch'[stack[i].slot] = scratch[stack[i].slot]
               /\ i > 1 => Keeps(i - 1)
    <3>1. i \in 1 .. Len(stack) /\ stack'[i] = stack[i] /\ stack[i].op = "emit"
      BY <1>5, <2>2
    <3>2. stack[i].slot <= Len(scratch)
      BY <3>1 DEF Inv, Lent
    <3>3. i > 1 => i - 1 \in 1 .. Len(stack)
      BY <3>1, <1>4
    <3>4. i > 1 => Keeps(i - 1)
      BY <3>3, <1>3, <1>4, SameIsReflexive DEF Keeps, aggregator
    <3>. QED BY <3>1, <3>2, <3>4, <1>3
  <2>3. ASSUME NEW i \in 1 .. Len(stack'), i = Len(stack) + 1
        PROVE  /\ stack'[i].slot <= Len(scratch') /\ ~(stack'[i].slot > 0)
               /\ View(i)' = stack'[i].entry.texts
    <3>1. stack'[i] = em /\ em.slot = 0
      BY <2>3, <1>2, <1>4
    <3>2. i > 1 => stack'[i - 1].op # "flush"
      <4>1. SUFFICES ASSUME i > 1 PROVE stack'[i - 1].op # "flush"
        OBVIOUS
      <4>2. stack # <<>> /\ stack'[i - 1] = Top
        <5>1. Len(stack) \in 1 .. Len(stack) /\ i - 1 = Len(stack)
          BY <4>1, <2>3, <1>4
        <5>2. stack # <<>>
          BY <5>1, <1>4, LenOfEmpty
        <5>3. Top = stack[Len(stack)]
          BY <5>2, TopFrame DEF Inv, TypeOK
        <5>. QED BY <5>1, <5>2, <5>3, <1>4
      <4>. QED BY <4>2 DEF HandsOn, MayCall, Outside
    <3>. QED BY <3>1, <3>2, <2>1, <1>3 DEF View
  <2>4. \A i \in 1 .. Len(stack') : stack'[i].op = "emit" =>
          \/ /\ i \in 1 .. Len(stack) /\ stack'[i] = stack[i]
             /\ stack[i].slot <= Len(scratch')
             /\ stack[i].slot > 0 => scratch'[stack[i].slot] = scratch[stack[i].slot]
             /\ stack[i].slot = 0 /\ i > 1 => Keeps(i - 1)
          \/ /\ i = Len(stack) + 1
             /\ stack'[i].slot <= Len(scratch')
             /\ stack'[i].slot > 0 => stack'[i].slot > Len(scratch)
             /\ View(i)' = stack'[i].entry.texts
    BY <2>2, <2>3
  <2>. QED BY <2>4, <1>4, LentStep
<1>8. TypeOK'
  BY <1>2, <1>3, <1>4 DEF Inv, TypeOK, aggregator
<1>. QED BY <1>6, <1>7, <1>8 DEF Inv

\* A Flush of a source is entered.
LEMMA FlushSourceEnters ==
  ASSUME Inv, NEW s \in Sources, CallFlushSource(s)
  PROVE  \E f \in Frame :
           /\ f.op = "FlushKeys" /\ f.held = NoError
           /\ \A k \in f.keys : k \in ToSet(f.left)
           /\ stack' = Push(stack, f)
<1> DEFINE f == [op |-> "FlushKeys", keys |-> {StreamKey(s, t) : t \in Streams},
                 left |-> FlushOrder(s), held |-> NoError]
<1>1. /\ StreamKey(s, Stdout) \in Keys /\ StreamKey(s, Stderr) \in Keys
      /\ \A k \in f.keys : k \in {StreamKey(s, Stdout), StreamKey(s, Stderr)}
      /\ f.keys \in SUBSET Keys
  BY StreamKeysOK DEF Streams
<1>2. /\ FlushOrder(s) \in Seq(Keys)
      /\ ToSet(FlushOrder(s)) = {StreamKey(s, Stdout), StreamKey(s, Stderr)}
  BY <1>1 DEF FlushOrder, ToSet
<1>3. f \in StageFrame
  BY <1>1, <1>2 DEF StageFrame, NoError
<1>4. stack' = Push(stack, f)
  BY DEF CallFlushSource
<1>5. f.op = "FlushKeys" /\ f.held = NoError /\ f.left = FlushOrder(s)
  OBVIOUS
<1> HIDE DEF f
<1>. QED BY <1>1, <1>2, <1>3, <1>4, <1>5 DEF Frame

LEMMA CallFlushSourceStep ==
  ASSUME Inv, NEW s \in Sources, CallFlushSource(s)
  PROVE  Inv'
<1>1. PICK f \in Frame : f.op = "FlushKeys" /\ stack' = Push(stack, f)
  BY FlushSourceEnters
<1>2. /\ UNCHANGED aggregator /\ UNCHANGED <<scratch, clock, errors, result, history>>
      /\ raised' \in Nat
  BY DEF CallFlushSource, BeginCall, NoError, Inv, TypeOK
<1>3. stack' \in Seq(Frame) /\ (Formed /\ Owned /\ Mapped /\ Flushing /\ Lent)'
  BY <1>1, <1>2, EnterStep
<1>4. TypeOK'
  BY <1>2, <1>3 DEF Inv, TypeOK, aggregator, history
<1>. QED BY <1>3, <1>4 DEF Inv

\* The Flush of a source is on top, and goes on to the next of its keys.
LEMMA NextStream ==
  ASSUME Inv, Running("FlushKeys")
  PROVE  /\ stack # <<>> /\ Top.op = "FlushKeys" /\ Top \in Frame /\ Top.held \in Nat
         /\ Top.left \in Seq(Keys) /\ Top.keys \in SUBSET Keys
         /\ Top.left # <<>> =>
              LET f == [Top EXCEPT !.left = Tail(@)]
              IN  /\ Head(Top.left) \in Keys
                  /\ \A k \in ToSet(Top.left) : k = Head(Top.left) \/ k \in ToSet(f.left)
                  /\ f \in Frame /\ f.op = "FlushKeys" /\ Same(f, Top)
                  /\ f.held = Top.held /\ f.keys = Top.keys /\ f.left = Tail(Top.left)
<1>1. stack # <<>> /\ Top.op = "FlushKeys" /\ Top \in Frame
  BY TopFrame DEF Running, Inv, TypeOK
<1>2. PICK t \in StageFrame : t = Top
  BY <1>1, FrameKinds
<1>3. t.left \in Seq(Keys) /\ t.keys \in SUBSET Keys /\ t.held \in Nat /\ t.op = "FlushKeys"
  BY <1>2 DEF StageFrame
<1>4. ASSUME t.left # <<>>
      PROVE  LET f == [t EXCEPT !.left = Tail(@)]
             IN  /\ Head(t.left) \in Keys
                 /\ \A k \in ToSet(t.left) : k = Head(t.left) \/ k \in ToSet(f.left)
                 /\ f \in Frame /\ f.op = "FlushKeys" /\ Same(f, t)
                 /\ f.held = t.held /\ f.keys = t.keys /\ f.left = Tail(t.left)
  <2> DEFINE f == [t EXCEPT !.left = Tail(@)]
  <2>1. Head(t.left) \in Keys /\ Tail(t.left) \in Seq(Keys)
    BY <1>3, <1>4
  <2>2. /\ f \in StageFrame /\ f.op = "FlushKeys" /\ f.held = t.held /\ f.keys = t.keys
        /\ f.left = Tail(t.left)
    BY <1>3, <2>1 DEF StageFrame
  <2>3. ASSUME NEW k \in ToSet(t.left)
        PROVE  k = Head(t.left) \/ k \in ToSet(Tail(t.left))
    <3>1. PICK i \in 1 .. Len(t.left) : k = t.left[i]
      BY <1>3, LenProperties DEF ToSet
    <3>2. CASE i = 1
      BY <3>1, <3>2, <1>4, <1>3
    <3>3. CASE i # 1
      <4>1. /\ Len(Tail(t.left)) = Len(t.left) - 1 /\ Len(t.left) \in Nat
            /\ \A j \in 1 .. Len(Tail(t.left)) : Tail(t.left)[j] = t.left[j + 1]
        BY <1>3, <1>4
      <4>2. i - 1 \in 1 .. Len(Tail(t.left)) /\ (i - 1) + 1 = i
        BY <3>3, <4>1
      <4>3. i - 1 \in DOMAIN Tail(t.left) /\ Tail(t.left)[i - 1] = k
        BY <2>1, <3>1, <4>1, <4>2, LenProperties
      <4>. QED BY <4>3 DEF ToSet
    <3>. QED BY <3>2, <3>3
  <2>4. Same(f, t)
    BY <1>3, <2>2 DEF Same
  <2> HIDE DEF f
  <2>5. f \in Frame
    BY <2>2 DEF Frame
  <2>. QED BY <2>1, <2>2, <2>3, <2>4, <2>5 DEF f
<1>. QED BY <1>1, <1>2, <1>3, <1>4

LEMMA FlushStreamCases ==
  ASSUME Inv, FlushStream
  PROVE  LET f == [Top EXCEPT !.left = Tail(@)]
             k == Head(Top.left)
         IN  /\ Running("FlushKeys") /\ Top.held = NoError /\ Top.left # <<>>
             /\ UNCHANGED <<heap, free, scratch, clock, errors, raised, result, history>>
             /\ \/ /\ groups[k] = Nil
                   /\ stack' = SetTop(f) /\ UNCHANGED aggregator
                \/ /\ groups[k] # Nil /\ groups[k] \in Linked
                   /\ Unlink(groups[k])
                   /\ stack' = Push(SetTop(f), FlushOf(groups[k]))
<1>1. Running("FlushKeys") /\ Top.left # <<>>
  BY DEF FlushStream
<1>2. Head(Top.left) \in Keys
  BY <1>1, NextStream
<1>3. groups[Head(Top.left)] # Nil => groups[Head(Top.left)] \in Linked
  BY <1>2, PendingGroups
<1>. QED BY <1>1, <1>3 DEF FlushStream, KeepOutside, aggregator

\* The Flush moves on: only its frame changes.
LEMMA StreamStack ==
  ASSUME Inv, Running("FlushKeys"), Top.left # <<>>
  PROVE  LET f == [Top EXCEPT !.left = Tail(@)]
         IN  /\ SetTop(f) \in Seq(Frame) /\ Len(SetTop(f)) = Len(stack) /\ Len(stack) \in Nat
             /\ SetTop(f)[Len(stack)] = f /\ Top = stack[Len(stack)]
             /\ Len(stack) \in 1 .. Len(stack)
             /\ \A i \in 1 .. Len(stack) - 1 : SetTop(f)[i] = stack[i]
             /\ \A i \in 1 .. Len(stack) : Same(SetTop(f)[i], stack[i])
<1> DEFINE f == [Top EXCEPT !.left = Tail(@)]
<1>1. f \in Frame /\ Same(f, Top) /\ stack # <<>>
  BY NextStream
<1>2. Len(stack) \in Nat /\ Top = stack[Len(stack)] /\ Len(stack) \in 1 .. Len(stack)
  BY <1>1, TopFrame DEF Inv, TypeOK
<1> HIDE DEF f
<1>3. /\ SetTop(f) \in Seq(Frame) /\ Len(SetTop(f)) = Len(stack)
      /\ SetTop(f)[Len(stack)] = f
      /\ \A i \in 1 .. Len(stack) - 1 : SetTop(f)[i] = stack[i]
  BY <1>1, SetTopProperties DEF Inv, TypeOK
<1>4. ASSUME NEW i \in 1 .. Len(stack) PROVE Same(SetTop(f)[i], stack[i])
  <2>1. CASE i = Len(stack)
    BY <2>1, <1>1, <1>2, <1>3
  <2>2. CASE i # Len(stack)
    BY <2>2, <1>2, <1>3, SameIsReflexive
  <2>. QED BY <2>1, <2>2
<1>. QED BY <1>2, <1>3, <1>4 DEF f

LEMMA FlushStreamStep ==
  ASSUME Inv, FlushStream
  PROVE  Inv'
<1> DEFINE f == [Top EXCEPT !.left = Tail(@)]
           k == Head(Top.left)
<1>1. /\ UNCHANGED <<heap, free, scratch, clock, errors, raised, result, history>>
      /\ \/ groups[k] = Nil /\ stack' = SetTop(f) /\ UNCHANGED aggregator
         \/ /\ groups[k] # Nil /\ groups[k] \in Linked /\ Unlink(groups[k])
            /\ stack' = Push(SetTop(f), FlushOf(groups[k]))
  BY FlushStreamCases
<1>2. /\ SetTop(f) \in Seq(Frame) /\ Len(SetTop(f)) = Len(stack) /\ Len(stack) \in Nat
      /\ \A i \in 1 .. Len(stack) : Same(SetTop(f)[i], stack[i])
  BY StreamStack, FlushStreamCases
<1> HIDE DEF f, k
<1>3. CASE stack' = SetTop(f) /\ UNCHANGED aggregator
  <2>1. \A i \in 1 .. Len(stack') : i \in 1 .. Len(stack) /\ i # Len(stack) + 1
                                    /\ Same(stack'[i], stack[i])
    BY <1>2, <1>3
  <2>2. (Formed /\ Owned /\ Mapped /\ Flushing /\ Lent)'
    BY <1>1, <1>2, <1>3, <2>1, QuietStep
  <2>3. TypeOK'
    BY <1>1, <1>2, <1>3 DEF Inv, TypeOK, aggregator, history
  <2>. QED BY <2>2, <2>3 DEF Inv
<1>4. CASE /\ groups[k] \in Linked /\ Unlink(groups[k])
           /\ stack' = Push(SetTop(f), FlushOf(groups[k]))
  <2>1. raised' \in Nat
    BY <1>1 DEF Inv, TypeOK
  <2>. QED BY <1>1, <1>2, <1>4, <2>1, StartFlushStep
<1>. QED BY <1>1, <1>3, <1>4

LEMMA FlushSourceReturnsStep ==
  ASSUME Inv, FlushSourceReturns
  PROVE  Inv'
<1>1. /\ stack # <<>> /\ Top.held \in Nat /\ Return(Top.held)
      /\ UNCHANGED aggregator /\ UNCHANGED history
      /\ UNCHANGED <<scratch, clock, errors, raised>>
  BY NextStream DEF FlushSourceReturns, KeepOutside
<1>2. /\ stack' \in Seq(Frame) /\ result' \in Nat
      /\ (Formed /\ Owned /\ Mapped /\ Flushing /\ Lent)'
  BY <1>1, ReturnStep
<1>3. TypeOK'
  BY <1>1, <1>2 DEF Inv, TypeOK, aggregator, history
<1>. QED BY <1>2, <1>3 DEF Inv

LEMMA OwnInv ==
  ASSUME Inv, OwnStep
  PROVE  Inv'
BY HandsOnStep, CallFlushSourceStep, FlushStreamStep, FlushSourceReturnsStep DEF OwnStep

\* Whatever the next stage calls, the groups of the inner aggregator stay well formed,
\* owned and reachable, and what is lent to rejoin stays as it was.
THEOREM CriInvariance == CriSpec => []Inv
<1>1. Inv /\ [CriNext]_vars => Inv'
  BY CriSteps, NextInv, OwnInv
<1>. QED BY <1>1, InitInv, PTL DEF CriSpec

-----------------------------------------------------------------------------
(* The gauge and the caps over all groups.                                  *)

LEMMA OwnCaps ==
  ASSUME Inv, CapsOK, OwnStep
  PROVE  CapsOK'
<1>1. CASE HandsOn \/ \E s \in Sources : CallFlushSource(s)
  <2>1. UNCHANGED <<heap, order, bytes>> /\ \E f : stack' = Push(stack, f)
    BY <1>1 DEF HandsOn, HandOn, CallFlushSource, aggregator
  <2>. QED BY <2>1, EnterCaps
<1>2. CASE FlushStream
  <2>1. PICK f : f = [Top EXCEPT !.left = Tail(@)]
    OBVIOUS
  <2>2. /\ Running("FlushKeys") /\ UNCHANGED heap
        /\ \/ stack' = SetTop(f) /\ UNCHANGED aggregator
           \/ \E g \in Linked : Unlink(g) /\ stack' = Push(SetTop(f), FlushOf(g))
    BY <1>2, <2>1, FlushStreamCases
  <2>3. stack # <<>> /\ Top.op = "FlushKeys"
    BY <2>2 DEF Running
  <2>4. Evicting(stack) => Evicting(SetTop(f))
    BY <2>3, SetTopEvicting
  <2>5. CASE stack' = SetTop(f) /\ UNCHANGED aggregator
    BY <2>4, <2>5, StillStep DEF aggregator
  <2>6. ASSUME NEW g \in Linked, Unlink(g), stack' = Push(SetTop(f), FlushOf(g))
        PROVE  CapsOK'
    <3>1. SetTop(f) \in Seq(Frame \union {f})
      BY <2>3, SetTopAny
    <3>2. Evicting(stack) => Evicting(stack')
      BY <2>4, <2>6, <3>1, PushEvicting
    <3>. QED BY <2>2, <2>6, <3>2, LeaveStep DEF Unlink
  <2>. QED BY <2>2, <2>5, <2>6
<1>3. CASE FlushSourceReturns
  <2>1. /\ stack # <<>> /\ Top.op = "FlushKeys" /\ Top.held \in Nat /\ Return(Top.held)
        /\ UNCHANGED <<heap, order, bytes>>
    BY <1>3, NextStream DEF FlushSourceReturns, aggregator
  <2>. QED BY <2>1, ReturnCaps
<1>. QED BY <1>1, <1>2, <1>3 DEF OwnStep

LEMMA OwnCharges ==
  ASSUME Charges, OwnStep
  PROVE  Charges'
<1>1. UNCHANGED heap
  BY DEF OwnStep, HandsOn, HandOn, CallFlushSource, FlushStream, FlushSourceReturns, aggregator
<1>. QED BY <1>1 DEF Charges, Charged

\* A call of the next stage with nothing buffered, and a Flush of a source, leave alone
\* or lower what the caps over all groups look at (AddParsed, Flush).
THEOREM CriCapsInvariance == CriSpec => [](CapsOK /\ Charges)
<1>1. Inv /\ CapsOK /\ Charges /\ [CriNext]_vars => (CapsOK /\ Charges)'
  BY CriSteps, NextCaps, NextCharges, OwnCaps, OwnCharges
<1>. QED BY <1>1, InitCaps, InitCharges, CriInvariance, PTL DEF CriSpec

\* The bytes the stage has buffered are the text of its pending fragments, and its
\* caps over all streams hold whenever no call is in progress.
THEOREM CriCapsHold == CriSpec => [](BytesIsGauge /\ TotalsWithinCaps)
BY CriCapsInvariance, CriInvariance, TotalsFollow, GaugeFollows, PTL

-----------------------------------------------------------------------------
(* The types of the stage's state.                                          *)

Tallies == delivered \in [StreamKeys -> Nat] /\ lost \in [StreamKeys -> Nat]

LEMMA NextTallies ==
  ASSUME Inv, Tallies, [CriNext]_vars
  PROVE  Tallies'
<1>1. ASSUME NEW t \in [StreamKeys -> Nat], NEW u, NEW k \in StreamKeys, NEW n \in Nat, Adds(t, u, k, n)
      PROVE  u \in [StreamKeys -> Nat]
  BY <1>1 DEF Adds
<1>2. CASE [Next]_vars
  BY <1>1, <1>2, TallySteps DEF Tallies
<1>3. CASE OwnStep
  <2>1. CASE HandsOn
    <3>1. PICK key \in StreamKeys, raw \in Lines, when \in Time : HandOn(key, raw, when)
      BY <2>1 DEF HandsOn
    <3>2. delivered' = [delivered EXCEPT ![key] = @ + 1]
      BY <3>1, HandedOn
    <3>3. Adds(delivered, delivered', key, 1)
      BY <3>2 DEF Adds
    <3>. QED BY <1>1, <3>1, <3>3 DEF Tallies, HandOn
  <2>2. CASE ~HandsOn
    <3>1. UNCHANGED history
      BY <1>3, <2>2 DEF OwnStep, CallFlushSource, FlushStream, FlushSourceReturns
    <3>. QED BY <3>1 DEF Tallies, history
  <2>. QED BY <2>1, <2>2
<1>. QED BY <1>2, <1>3, CriSteps

\* The stage's state has the types it should, whatever the next stage calls: the bytes
\* buffered and the lines handed on or lost never turn negative.
THEOREM CriTypes == CriSpec => []CriTypeOK
<1>1. Init => Tallies
  BY DEF Init, Tallies
<1>2. Inv /\ Tallies /\ [CriNext]_vars => Tallies'
  BY NextTallies
<1>3. Inv /\ CapsOK /\ Tallies => CriTypeOK
  BY GaugeIsNatural DEF CapsOK, Tallies, CriTypeOK, Inv
<1>. QED BY <1>1, <1>2, <1>3, CriInvariance, CriCapsInvariance, PTL DEF CriSpec

-----------------------------------------------------------------------------
(* The lines handed on.                                                     *)

\* Of the stage's own steps only one enters the next stage.
LEMMA WhoHandsOn ==
  ASSUME Inv, OwnStep, Emits
  PROVE  HandsOn
<1>1. stack \in Seq(Frame) /\ Len(stack) \in Nat
  BY LenProperties DEF Inv, TypeOK
<1>2. ASSUME NEW s \in Sources, CallFlushSource(s) PROVE FALSE
  <2>1. PICK f \in Frame : f.op = "FlushKeys" /\ stack' = Push(stack, f)
    BY <1>2, FlushSourceEnters
  <2>. QED BY <1>1, <2>1, LastOfPush DEF Emits
<1>3. ASSUME FlushStream PROVE FALSE
  <2>1. PICK f : f = [Top EXCEPT !.left = Tail(@)]
    OBVIOUS
  <2>2. /\ SetTop(f) \in Seq(Frame) /\ Len(SetTop(f)) = Len(stack)
        /\ stack' = SetTop(f) \/ \E g \in Linked : stack' = Push(SetTop(f), FlushOf(g))
    BY <1>3, <2>1, FlushStreamCases, StreamStack
  <2>3. \A g \in Linked : FlushOf(g) \in Frame /\ FlushOf(g).op = "flush"
    BY ListFacts, FlushOfFrame
  <2>. QED BY <1>1, <2>2, <2>3, LastOfPush DEF Emits
<1>4. ASSUME FlushSourceReturns PROVE FALSE
  <2>1. stack # <<>> /\ Top.held \in Nat /\ stack' = Pop(Top.held)
    BY <1>4, NextStream DEF FlushSourceReturns, Return
  <2>2. Len(stack') = Len(stack) - 1
    BY <1>1, <2>1, PopProperties
  <2>. QED BY <1>1, <2>2 DEF Emits
<1>. QED BY <1>2, <1>3, <1>4 DEF OwnStep

LEMMA HandsOnSingle ==
  ASSUME Inv, HandsOn
  PROVE  Single(Last(stack').entry)
<1>1. PICK key \in StreamKeys, raw \in Lines, when \in Time : HandOn(key, raw, when)
  BY DEF HandsOn
<1>2. PICK em \in EmitFrame :
        /\ stack' = Push(stack, em)
        /\ em.entry.lines = 1 /\ ~em.entry.truncated /\ em.entry.match = NoFormat
        /\ Len(em.entry.texts) = 1 /\ Whole(em.entry.texts[1])
  BY <1>1, HandedOn
<1>3. Last(stack') = em
  BY <1>2, LastOfPush DEF Frame, Inv, TypeOK
<1>4. PICK q \in Seq(RetainedLine) : q = em.entry.texts
  BY DEF EmitFrame, Entry
<1>5. q = <<q[1]>> /\ q[1] \in RetainedLine
  BY <1>2, <1>4
<1>. QED BY <1>2, <1>3, <1>4, <1>5 DEF Single

\* Whatever is handed on is a line on its own, or from the group being flushed.
LEMMA WhatIsHandedOn ==
  ASSUME Inv, [CriNext]_vars, Emits
  PROVE  LET e == Last(stack').entry
         IN  Single(e) \/ (Running("flush") /\ FromGroup(e, heap[Top.ref]))
BY CriSteps, WhatEmits, WhoHandsOn, HandsOnSingle

LEMMA MaxOfZero ==
  ASSUME NEW n \in Int
  PROVE  Max({0, n}) = IF n < 0 THEN 0 ELSE n
BY DEF Max

\* What the bytes kept of a raw line ship.
LEMMA ShippedText ==
  ASSUME NEW e, NEW i, i \in DOMAIN e.texts, e.texts[i] \in RetainedLine,
         e.texts[i].line # NotCri, e.texts[i].size <= Size(e.texts[i].line),
         Whole(e.texts[i]) \/ (e.truncated /\ i = Len(e.texts))
  PROVE  /\ ~Rejoined(e)[i].raw
         /\ Rejoined(e)[i].size <= e.texts[i].line.content
         /\ Rejoined(e)[i].size < e.texts[i].line.content => e.truncated /\ i = Len(e.texts)
<1>1. PICK raw : raw = e.texts[i].line
  OBVIOUS
<1>2. PICK n \in Nat : n = e.texts[i].size
  BY DEF RetainedLine
<1>3. raw \in CriLine /\ raw \in Lines /\ raw # NotCri
  BY <1>1, RawLines DEF RetainedLine
<1>4. PICK m \in Nat : m = raw.content
  BY <1>3, RawLines
<1>5. PICK tag \in Nat \ {0} : tag = TagEnd
  BY CriAssumption
<1>6. Size(raw) = tag + 1 + m
  BY <1>3, <1>4, <1>5, StageAssumption DEF CriSize, PrefixSize
<1>7. Rejoined(e)[i] = FragmentContent(e, i)
  BY DEF Rejoined
<1>8. Parses(e.texts[i]) <=> n >= tag
  BY <1>1, <1>2, <1>3, <1>5 DEF Parses
<1>9. n <= tag + 1 + m /\ (n = tag + 1 + m \/ (e.truncated /\ i = Len(e.texts)))
  BY <1>1, <1>2, <1>6 DEF Whole
<1>10. CASE n >= tag
  <2>1. FragmentContent(e, i) = [raw |-> FALSE, size |-> Max({0, n - (tag + 1)})]
    BY <1>2, <1>5, <1>8, <1>10 DEF FragmentContent, PrefixSize
  <2>2. Max({0, n - (tag + 1)}) = IF n - (tag + 1) < 0 THEN 0 ELSE n - (tag + 1)
    BY MaxOfZero
  <2>3. Rejoined(e)[i].size = IF n - (tag + 1) < 0 THEN 0 ELSE n - (tag + 1)
    BY <1>7, <2>1, <2>2
  <2>4. ~Rejoined(e)[i].raw
    BY <1>7, <2>1
  <2>. QED BY <1>1, <1>4, <1>9, <2>3, <2>4
<1>11. CASE ~(n >= tag)
  <2>1. e.truncated /\ i = Len(e.texts)
    BY <1>9, <1>11
  <2>2. FragmentContent(e, i) = [raw |-> FALSE, size |-> 0]
    BY <1>8, <1>11, <2>1 DEF FragmentContent
  <2>. QED BY <1>1, <1>4, <1>7, <2>1, <2>2
<1>. QED BY <1>10, <1>11

\* Neither a byte cap that cuts into a line, nor a group given up between two lines,
\* ever ships raw metadata, or loses content without a flag (fragmentContent, append).
THEOREM ContentIsShipped == CriSpec => ShipsContent
<1>1. ASSUME Inv, Inv', [CriNext]_vars, Emits
      PROVE  LET e == Last(stack').entry
             IN  \A i \in DOMAIN e.texts :
                   LET raw == e.texts[i].line
                   IN  raw # NotCri =>
                         /\ ~Rejoined(e)[i].raw
                         /\ Rejoined(e)[i].size <= raw.content
                         /\ Rejoined(e)[i].size < raw.content => e.truncated /\ i = Len(e.texts)
  <2>1. PICK e : e = Last(stack').entry
    OBVIOUS
  <2>2. \A i \in 1 .. Len(e.texts) :
          /\ e.texts[i] \in RetainedLine /\ e.texts[i].size <= Size(e.texts[i].line)
          /\ Whole(e.texts[i]) \/ (e.truncated /\ i = Len(e.texts))
    <3>1. CASE [Next]_vars
      BY <1>1, <2>1, <3>1, EntryOK
    <3>2. CASE Single(e)
      <4>1. PICK text \in RetainedLine : Whole(text) /\ e.texts = <<text>>
        BY <3>2 DEF Single
      <4>2. text.size <= Size(text.line)
        BY <4>1 DEF Whole, RetainedLine
      <4>. QED BY <4>1, <4>2
    <3>. QED BY <1>1, <2>1, <3>1, <3>2, CriSteps, WhoHandsOn, HandsOnSingle
  <2>3. DOMAIN e.texts = 1 .. Len(e.texts)
    <3>1. stack' \in Seq(Frame) /\ stack' # <<>>
      BY <1>1, LenOfEmpty, LenProperties DEF Inv, TypeOK, Emits
    <3>2. Last(stack') \in Frame /\ Last(stack').op = "emit"
      BY <1>1, <3>1, LastProperties DEF Emits
    <3>3. e \in Entry
      BY <2>1, <3>2, FrameKinds DEF EmitFrame
    <3>. QED BY <3>3, LenProperties DEF Entry
  <2>4. ASSUME NEW i \in DOMAIN e.texts, e.texts[i].line # NotCri
        PROVE  /\ ~Rejoined(e)[i].raw
               /\ Rejoined(e)[i].size <= e.texts[i].line.content
               /\ Rejoined(e)[i].size < e.texts[i].line.content =>
                    e.truncated /\ i = Len(e.texts)
    BY <2>2, <2>3, <2>4, ShippedText
  <2>. QED BY <2>1, <2>4
<1>2. Inv /\ Inv' /\ [CriNext]_vars =>
        [Emits =>
           LET e == Last(stack').entry
           IN  \A i \in DOMAIN e.texts :
                 LET raw == e.texts[i].line
                 IN  raw # NotCri =>
                       /\ ~Rejoined(e)[i].raw
                       /\ Rejoined(e)[i].size <= raw.content
                       /\ Rejoined(e)[i].size < raw.content =>
                            e.truncated /\ i = Len(e.texts)]_vars
  BY <1>1
<1>. QED BY <1>2, CriInvariance, PTL DEF CriSpec, ShipsContent

-----------------------------------------------------------------------------
(* The runs of fragments.                                                   *)

LEMMA OpenIsRun ==
  ASSUME NEW g \in Group, Open(g)
  PROVE  Run(g)
<1>1. Len(g.lines) \in Nat
  BY DEF Group
<1>2. \A i \in 1 .. Len(g.lines) - 1 : g.lines[i].line.partial
  BY <1>1 DEF Open
<1>. QED BY <1>2 DEF Open, Run

\* What the fragment matcher makes of a line of a stream.
LEMMA FragmentSteps ==
  ASSUME NEW raw \in CriLine
  PROVE  /\ raw.partial => /\ Step(raw, {StartState}).next = {"partial"}
                           /\ Step(raw, {"partial"}).next = {"partial"}
                           /\ Step(raw, {"partial"}).accepted = NoState
         /\ ~raw.partial => /\ Step(raw, {"partial"}).next = {"full"}
                            /\ Step(raw, {"partial"}).accepted # NoState
         /\ ~AllFinal({"partial"}) /\ AllFinal({"full"})
<1>1. raw \in CriLines /\ raw # NotCri
  BY RawLines, CriAssumption DEF CriLines, CriLine, NotCri
<1>2. /\ {"partial"} \in SUBSET CriStates /\ {"start"} \in SUBSET CriStates
      /\ "partial" \in CriStates /\ "full" \in CriStates
  BY DEF CriStates
<1>3. /\ Step(raw, {"start"}) = CriStep(raw, {"start"})
      /\ Step(raw, {"partial"}) = CriStep(raw, {"partial"})
      /\ StartState = "start" /\ NoState = "none"
  BY <1>1, <1>2, StageAssumption DEF CriNoState
<1>4. Final("partial") = FALSE /\ Final("full") = TRUE
  BY <1>2, StageAssumption DEF CriFinal
<1>5. raw.partial => /\ CriStep(raw, {"start"}) = [next |-> {"partial"}, accepted |-> "none"]
                     /\ CriStep(raw, {"partial"}) = [next |-> {"partial"}, accepted |-> "none"]
  BY <1>1 DEF CriStep, CriNoState
<1>6. ~raw.partial => CriStep(raw, {"partial"}) = [next |-> {"full"}, accepted |-> "full"]
  BY <1>1 DEF CriStep
<1>7. ~AllFinal({"partial"}) /\ AllFinal({"full"})
  BY <1>4 DEF AllFinal
<1>. QED BY <1>3, <1>5, <1>6, <1>7

\* append retains the line, or the group is flagged.
LEMMA AppendLines ==
  ASSUME NEW g \in Group, NEW l \in Lines, NEW when \in Time, NEW data \in Nat
  PROVE  LET h == AppendLine(g, l, when, data)
         IN  \/ h.lines = g.lines /\ h.capped
             \/ \E text : text.line = l /\ h.lines = Append(g.lines, text)
<1> DEFINE over == MaxBytes > 0 /\ Size(l) > Room(g)
           full == g.capped \/ (MaxLines > 0 /\ Len(g.lines) >= MaxLines)
           kept == IF over THEN CutAt(l, Room(g)) ELSE Size(l)
           gone == full \/ (over /\ kept = 0 /\ g.lines # <<>>)
           text == [line |-> l, size |-> kept, when |-> when, data |-> data]
           h    == AppendLine(g, l, when, data)
<1>1. /\ h.lines = IF gone THEN g.lines ELSE Append(g.lines, text)
      /\ h.capped = (full \/ over)
  BY DEF AppendLine, Group
<1>2. text.line = l
  OBVIOUS
<1>3. gone => full \/ over
  OBVIOUS
<1> HIDE DEF over, full, gone, text, h
<1>. QED BY <1>1, <1>2, <1>3 DEF h

\* The lines of an open run of a stream, and one more.
OpenLines(q, stream) ==
  \A i \in 1 .. Len(q) : q[i].line.stream = stream /\ q[i].line.partial

LEMMA OneMore ==
  ASSUME NEW q \in Seq(RetainedLine), NEW text, OpenLines(q, text.line.stream)
  PROVE  LET p == Append(q, text)
         IN  /\ Len(p) = Len(q) + 1 /\ Len(q) \in Nat /\ p[Len(p)] = text
             /\ \A i \in 1 .. Len(p) : p[i].line.stream = text.line.stream
             /\ \A i \in 1 .. Len(p) - 1 : p[i].line.partial
             /\ text.line.partial => OpenLines(p, text.line.stream)
<1>1. PICK p : p = Append(q, text)
  OBVIOUS
<1>2. q \in Seq(RetainedLine \union {text}) /\ Len(q) \in Nat
  BY LenProperties
<1>3. /\ Len(p) = Len(q) + 1 /\ p[Len(q) + 1] = text
      /\ \A i \in 1 .. Len(q) : p[i] = q[i]
  BY <1>1, <1>2, AppendProperties
<1>4. \A i \in 1 .. Len(p) : i \in 1 .. Len(q) \/ i = Len(q) + 1
  BY <1>2, <1>3
<1>5. \A i \in 1 .. Len(p) - 1 : i \in 1 .. Len(q)
  BY <1>2, <1>3
<1>. QED BY <1>1, <1>2, <1>3, <1>4, <1>5 DEF OpenLines

\* A fragment extends an open run, a full line closes it.
LEMMA GrownRuns ==
  ASSUME NEW g \in Group, Open(g), NEW l \in CriLine, l.stream = g.key[2],
         NEW when \in Time, NEW data \in Nat
  PROVE  LET h == Grown(g, l, when, data)
         IN  IF l.partial THEN Open(h) ELSE Run(h)
<1> DEFINE more == AppendLine(g, l, when, data)
           h    == Grown(g, l, when, data)
           step == Step(l, g.active)
<1>1. l \in Lines /\ l.stream \in Streams
  BY RawLines
<1>2. /\ more.key = g.key /\ more.acceptedLines = g.acceptedLines
      /\ \/ more.lines = g.lines /\ more.capped
         \/ \E text : text.line = l /\ more.lines = Append(g.lines, text)
  <2>1. more.key = g.key /\ more.acceptedLines = g.acceptedLines
    BY DEF AppendLine, Group
  <2>. QED BY <1>1, <2>1, AppendLines
<1>3. /\ h.key = g.key /\ h.lines = more.lines /\ h.capped = more.capped
      /\ h.active = step.next
      /\ h.acceptedLines = IF step.accepted # NoState THEN Len(more.lines) ELSE g.acceptedLines
  BY DEF Grown, AppendLine, Group
<1>4. g.active = {"partial"} /\ g.acceptedLines = 0 /\ OneStream(g)
  BY DEF Open
<1> HIDE DEF more, h, step
<1>5. g.lines \in Seq(RetainedLine) /\ Len(g.lines) \in Nat /\ OpenLines(g.lines, l.stream)
  BY LenProperties DEF Group, Open, OneStream, OpenLines
<1>6. /\ \A i \in 1 .. Len(more.lines) : more.lines[i].line.stream = l.stream
      /\ \A i \in 1 .. Len(more.lines) - 1 : more.lines[i].line.partial
      /\ l.partial => OpenLines(more.lines, l.stream)
      /\ more.capped \/ more.lines[Len(more.lines)].line = l
  <2>1. CASE more.lines = g.lines /\ more.capped
    BY <1>5, <2>1 DEF OpenLines
  <2>2. CASE \E text : text.line = l /\ more.lines = Append(g.lines, text)
    <3>1. PICK text : text.line = l /\ more.lines = Append(g.lines, text)
      BY <2>2
    <3>. QED BY <1>5, <3>1, OneMore
  <2>. QED BY <1>2, <2>1, <2>2
<1>7. OneStream(h)
  BY <1>3, <1>2, <1>4, <1>6 DEF OneStream
<1>8. CASE l.partial
  BY <1>3, <1>2, <1>4, <1>6, <1>7, <1>8, FragmentSteps DEF Open, OpenLines, h, step
<1>9. CASE ~l.partial
  <2>1. h.acceptedLines = Len(h.lines)
    BY <1>3, <1>4, <1>9, FragmentSteps DEF step
  <2>2. Run(h)
    BY <1>3, <1>6, <1>7, <1>9, <2>1 DEF Run
  <2>. QED BY <1>9, <2>2 DEF h
<1>. QED BY <1>8, <1>9 DEF h

\* A run starts with a fragment.
LEMMA NewRuns ==
  ASSUME NEW key \in Keys, NEW l \in CriLine, l.partial, l.stream = key[2],
         NEW when \in Time, NEW data \in Nat, clock \in 1 .. MaxTime
  PROVE  Open(NewGroup(key, l, when, data))
<1> DEFINE b == Opened(key, when, Step(l, {StartState}).next)
           h == NewGroup(key, l, when, data)
<1>1. l \in Lines /\ l.stream \in Streams
  BY RawLines
<1>2. b \in Group
  <2>1. Stamp(when) \in Time /\ Step(l, {StartState}).next \in SUBSET States
    BY SMTT(20), <1>1, BoundsAssumption, MatcherAssumption DEF Stamp, Time
  <2>2. <<>> \in Seq(RetainedLine) /\ 0 \in Nat /\ FALSE \in BOOLEAN
    OBVIOUS
  <2>. QED BY <2>1, <2>2 DEF Opened, Group, StreamKeys
<1>3. b.lines = <<>> /\ b.key = key /\ b.acceptedLines = 0 /\ b.active = {"partial"}
  BY FragmentSteps DEF Opened
<1>4. h = AppendLine(b, l, when, data)
  BY DEF NewGroup
<1> HIDE DEF b, h
<1>5. /\ h.key = key /\ h.acceptedLines = 0 /\ h.active = {"partial"}
      /\ h.lines = b.lines \/ \E text : text.line = l /\ h.lines = Append(b.lines, text)
  <2>1. h.key = b.key /\ h.acceptedLines = b.acceptedLines /\ h.active = b.active
    BY <1>2, <1>4 DEF AppendLine, Group
  <2>. QED BY <1>1, <1>2, <1>3, <1>4, <2>1, AppendLines
<1>6. OpenLines(h.lines, key[2])
  <2>1. b.lines \in Seq(RetainedLine) /\ OpenLines(b.lines, l.stream)
    BY <1>2, <1>3, LenOfEmpty DEF Group, OpenLines
  <2>2. CASE \E text : text.line = l /\ h.lines = Append(b.lines, text)
    <3>1. PICK text : text.line = l /\ h.lines = Append(b.lines, text)
      BY <2>2
    <3>. QED BY <2>1, <3>1, OneMore
  <2>. QED BY <1>5, <2>1, <2>2
<1>. QED BY <1>1, <1>5, <1>6 DEF Open, OneStream, OpenLines, h

\* A frame that stands for the same line, or the same group.
Alike(f, h) ==
  /\ f.op = h.op
  /\ f.op = "AddAt" => f.key = h.key /\ f.line = h.line /\ f.pc = h.pc
  /\ f.op = "flush" => f.ref = h.ref

\* A step after which no AddAt has just begun.
LEMMA RunsStep ==
  ASSUME Inv, Runs,
         \A g \in ToSet(order') : Open(heap[g])',
         \A i \in 1 .. Len(stack') :
           \/ /\ i \in 1 .. Len(stack) /\ ~Looking(stack[i]) /\ Alike(stack'[i], stack[i])
              /\ stack[i].op = "flush" => heap'[stack[i].ref] = heap[stack[i].ref]
           \/ ~Looking(stack'[i]) /\ FrameRuns(stack[i])'
  PROVE  Runs'
<1>1. ASSUME NEW i \in 1 .. Len(stack') PROVE ~Looking(stack'[i]) /\ FrameRuns(stack[i])'
  <2>1. CASE /\ i \in 1 .. Len(stack) /\ ~Looking(stack[i]) /\ Alike(stack'[i], stack[i])
             /\ stack[i].op = "flush" => heap'[stack[i].ref] = heap[stack[i].ref]
    <3>1. PICK f, h : f = stack'[i] /\ h = stack[i] /\ Alike(f, h) /\ ~Looking(h) /\ FrameRuns(h)
      BY <2>1 DEF Runs
    <3>2. f.op = "flush" => heap'[f.ref] = heap[h.ref]
      BY <2>1, <3>1 DEF Alike
    <3>3. FrameRuns(f)'
      <4>1. f.op = "AddAt" => /\ f.key[2] \in Streams /\ f.line.stream = f.key[2]
                              /\ f.pc \in {"start", "drain"} => f.line.partial
        BY <3>1 DEF Alike, FrameRuns
      <4>2. f.op = "flush" => Run(heap'[f.ref])
        BY <3>1, <3>2 DEF Alike, FrameRuns
      <4>. QED BY <4>1, <4>2 DEF FrameRuns, Run, OneStream
    <3>4. ~Looking(f)
      BY <3>1 DEF Alike, Looking
    <3>5. FrameRuns(stack[i])'
      BY <3>1, <3>3 DEF FrameRuns
    <3>. QED BY <3>1, <3>4, <3>5
  <2>. QED BY <1>1, <2>1
<1>. QED BY <1>1 DEF Runs, Linked

\* The frames of the stack, when an AddAt on top has looked up its group.
LEMMA SettledFrames ==
  ASSUME Inv, Runs, stack # <<>> => ~Looking(Top)
  PROVE  /\ Len(stack) \in Nat /\ stack \in Seq(Frame)
         /\ \A i \in 1 .. Len(stack) : stack[i] \in Frame /\ ~Looking(stack[i])
<1>1. stack \in Seq(Frame) /\ Len(stack) \in Nat
  BY LenProperties DEF Inv, TypeOK
<1>2. ASSUME NEW i \in 1 .. Len(stack) PROVE ~Looking(stack[i])
  <2>1. CASE i = Len(stack)
    <3>1. stack # <<>>
      BY <1>1, LenOfEmpty
    <3>. QED BY <1>1, <2>1, <3>1, TopFrame
  <2>. QED BY <2>1 DEF Runs
<1>. QED BY <1>1, <1>2, ElementOfSeq

LEMMA AlikeIsReflexive ==
  ASSUME NEW f
  PROVE  Alike(f, f)
BY DEF Alike

\* The groups and the list stay, or a group has left the list.
LEMMA FewerRuns ==
  ASSUME Inv, Runs, UNCHANGED heap, ToSet(order') \subseteq Linked
  PROVE  \A g \in ToSet(order') : Open(heap[g])'
<1>1. \A g \in Linked : Open(heap[g])
  BY DEF Runs
<1>. QED BY <1>1 DEF Open, OneStream

\* An activation is entered, that of AddAt apart.
LEMMA PushedRuns ==
  ASSUME Inv, Runs, stack # <<>> => ~Looking(Top), UNCHANGED heap,
         ToSet(order') \subseteq Linked,
         NEW st \in Seq(Frame), Len(st) = Len(stack),
         \A i \in 1 .. Len(stack) : Alike(st[i], stack[i]),
         NEW f \in Frame, f.op # "AddAt", f.op = "flush" => f.ref \in Linked,
         stack' = Push(st, f)
  PROVE  Runs'
<1>1. /\ Len(stack') = Len(stack) + 1 /\ stack'[Len(stack) + 1] = f
      /\ \A i \in 1 .. Len(stack) : stack'[i] = st[i]
  <2>1. /\ Len(Push(st, f)) = Len(st) + 1 /\ Push(st, f)[Len(st) + 1] = f
        /\ \A i \in 1 .. Len(st) : Push(st, f)[i] = st[i]
    BY PushProperties
  <2>. QED BY <2>1
<1>2. Len(stack) \in Nat /\ \A i \in 1 .. Len(stack) : ~Looking(stack[i])
  BY SettledFrames
<1>3. f.op = "flush" => Run(heap[f.ref])
  BY ListFacts, OpenIsRun DEF Runs, Inv, TypeOK
<1>4. ~Looking(f) /\ FrameRuns(f)'
  BY <1>3 DEF Looking, FrameRuns, Run, OneStream
<1>5. \A i \in 1 .. Len(stack') : i \in 1 .. Len(stack) \/ i = Len(stack) + 1
  BY <1>1, <1>2
<1>6. ASSUME NEW i \in 1 .. Len(stack')
      PROVE  \/ /\ i \in 1 .. Len(stack) /\ ~Looking(stack[i]) /\ Alike(stack'[i], stack[i])
                /\ stack[i].op = "flush" => heap'[stack[i].ref] = heap[stack[i].ref]
             \/ ~Looking(stack'[i]) /\ FrameRuns(stack[i])'
  <2>1. CASE i \in 1 .. Len(stack)
    BY <1>1, <1>2, <2>1
  <2>2. CASE i = Len(stack) + 1
    <3>1. stack'[i] = f
      BY <1>1, <2>2
    <3>. QED BY <1>4, <3>1 DEF FrameRuns, Run, OneStream
  <2>. QED BY <1>5, <2>1, <2>2
<1>. QED BY <1>6, FewerRuns, RunsStep

\* The same on top of the stack as it is.
LEMMA EnteredRuns ==
  ASSUME Inv, Runs, stack # <<>> => ~Looking(Top), UNCHANGED heap,
         ToSet(order') \subseteq Linked,
         NEW f \in Frame, f.op # "AddAt", f.op = "flush" => f.ref \in Linked,
         stack' = Push(stack, f)
  PROVE  Runs'
<1>1. \A i \in 1 .. Len(stack) : Alike(stack[i], stack[i])
  BY AlikeIsReflexive
<1>2. stack \in Seq(Frame)
  BY DEF Inv, TypeOK
<1>. QED BY <1>1, <1>2, PushedRuns

\* The top activation goes on.
LEMMA MovedRuns ==
  ASSUME Inv, Runs, stack # <<>>, UNCHANGED <<heap, order>>,
         NEW f \in Frame, ~Looking(f), FrameRuns(f), stack' = SetTop(f)
  PROVE  Runs'
<1>1. /\ Len(stack') = Len(stack) /\ stack'[Len(stack)] = f
      /\ \A i \in 1 .. Len(stack) - 1 : stack'[i] = stack[i]
  BY SetTopProperties DEF Inv, TypeOK
<1>2. Len(stack) \in Nat /\ \A i \in 1 .. Len(stack) - 1 : ~Looking(stack[i])
  BY LenProperties DEF Inv, TypeOK, Runs
<1>3. FrameRuns(f)'
  BY DEF FrameRuns, Run, OneStream
<1>4. ASSUME NEW i \in 1 .. Len(stack')
      PROVE  \/ /\ i \in 1 .. Len(stack) /\ ~Looking(stack[i]) /\ Alike(stack'[i], stack[i])
                /\ stack[i].op = "flush" => heap'[stack[i].ref] = heap[stack[i].ref]
             \/ ~Looking(stack'[i]) /\ FrameRuns(stack[i])'
  <2>1. CASE i = Len(stack)
    <3>1. stack'[i] = f
      BY <1>1, <2>1
    <3>. QED BY <1>3, <3>1 DEF FrameRuns, Run, OneStream
  <2>2. CASE i # Len(stack)
    <3>1. i \in 1 .. Len(stack) - 1
      BY <1>1, <1>2, <2>2
    <3>2. stack'[i] = stack[i] /\ ~Looking(stack[i]) /\ i \in 1 .. Len(stack)
      BY <1>1, <1>2, <3>1
    <3>. QED BY <3>2, AlikeIsReflexive
  <2>. QED BY <2>1, <2>2
<1>5. ToSet(order') \subseteq Linked
  BY DEF Linked
<1>. QED BY <1>4, <1>5, FewerRuns, RunsStep

\* The top activation returns, its group, if it flushed one, given up.
LEMMA ReturnRuns ==
  ASSUME Inv, Runs, stack # <<>>, ~Looking(Top), UNCHANGED order,
         \/ UNCHANGED heap
         \/ Running("flush") /\ heap' = [heap EXCEPT ![Top.ref] = Blank],
         NEW err \in Nat, stack' = Pop(err)
  PROVE  Runs'
<1>1. /\ Len(stack) \in Nat /\ Top = stack[Len(stack)] /\ stack \in Seq(Frame)
      /\ Len(stack) \in 1 .. Len(stack)
      /\ Len(stack') = Len(stack) - 1
      /\ \A i \in 1 .. Len(stack) - 1 : stack'[i] =
           IF i = Len(stack) - 1 /\ stack[Len(stack) - 1].op # "emit"
           THEN [stack[Len(stack) - 1] EXCEPT !.held = FirstErr(@, err)] ELSE stack[i]
  BY PopExact, TopFrame DEF Inv, TypeOK
<1>2. \A r \in Refs : heap'[r] = heap[r] \/ (Running("flush") /\ r = Top.ref)
  BY DEF Inv, TypeOK
<1>3. \A g \in ToSet(order') : Open(heap[g])'
  <2>1. ASSUME NEW g \in Linked PROVE heap'[g] = heap[g]
    <3>1. Running("flush") => Top.ref # g
      BY <1>1 DEF Inv, Flushing, FlushOK, Running
    <3>. QED BY <1>2, <3>1, ListFacts
  <2>2. \A g \in Linked : Open(heap[g])
    BY DEF Runs
  <2>3. ToSet(order') = Linked
    BY DEF Linked
  <2>. QED BY <2>1, <2>2, <2>3 DEF Open, OneStream
<1>4. ASSUME NEW i \in 1 .. Len(stack')
      PROVE  /\ i \in 1 .. Len(stack) /\ ~Looking(stack[i]) /\ Alike(stack'[i], stack[i])
             /\ stack[i].op = "flush" => heap'[stack[i].ref] = heap[stack[i].ref]
  <2>1. i \in 1 .. Len(stack) /\ i \in 1 .. Len(stack) - 1 /\ i # Len(stack)
    BY <1>1
  <2>2. PICK f \in Frame : f = stack[i] /\ ~Looking(f)
    BY <1>1, <2>1, ElementOfSeq DEF Runs
  <2>3. Alike(stack'[i], f)
    <3>1. PICK h : h = [f EXCEPT !.held = FirstErr(@, err)]
      OBVIOUS
    <3>2. f.op # "emit" => Alike(h, f)
      BY <3>1, HeldFields DEF Alike
    <3>3. stack'[i] = f \/ (f.op # "emit" /\ stack'[i] = h)
      BY <1>1, <2>1, <2>2, <3>1
    <3>. QED BY <3>2, <3>3, AlikeIsReflexive
  <2>4. ASSUME f.op = "flush" PROVE heap'[f.ref] = heap[f.ref]
    <3>1. f.ref \in Refs
      BY <2>4, FrameKinds DEF FlushFrame
    <3>2. Running("flush") => f.ref # Top.ref
      BY <1>1, <2>1, <2>2, <2>4 DEF Inv, Flushing, Running
    <3>. QED BY <1>2, <3>1, <3>2
  <2>. QED BY <2>1, <2>2, <2>3, <2>4
<1>. QED BY <1>3, <1>4, RunsStep

\* The outside world has the turn, not an AddAt.
LEMMA CallsRuns ==
  ASSUME Inv, Runs,
         \/ HandsOn \/ CallStop
         \/ \E s \in Sources : CallFlushSource(s)
         \/ \E t \in 1 .. MaxTime + 1 : CallFlushBefore(t)
         \/ \E l \in Lines, timed \in TimeModes : CallAddBypass(l, timed)
  PROVE  Runs'
<1>1. ASSUME MayCall, UNCHANGED aggregator, NEW f \in Frame, f.op \notin {"AddAt", "flush"},
             stack' = Push(stack, f)
      PROVE  Runs'
  <2>1. stack # <<>> => ~Looking(Top)
    BY <1>1 DEF MayCall, Outside, Looking
  <2>2. UNCHANGED heap /\ ToSet(order') \subseteq Linked
    BY <1>1 DEF aggregator, Linked
  <2>. QED BY <1>1, <2>1, <2>2, EnteredRuns
<1>2. ASSUME HandsOn PROVE Runs'
  <2>1. PICK key \in StreamKeys, raw \in Lines, when \in Time : HandOn(key, raw, when)
    BY <1>2 DEF HandsOn
  <2>2. PICK em \in EmitFrame : stack' = Push(stack, em) /\ em.op = "emit"
    BY <2>1, HandedOn
  <2>3. MayCall /\ UNCHANGED aggregator /\ em \in Frame
    BY <1>2, <2>1 DEF HandsOn, HandOn, Frame
  <2>. QED BY <1>1, <2>2, <2>3
<1>3. ASSUME NEW s \in Sources, CallFlushSource(s) PROVE Runs'
  <2>1. PICK f \in Frame : f.op = "FlushKeys" /\ stack' = Push(stack, f)
    BY <1>3, FlushSourceEnters
  <2>2. MayCall /\ UNCHANGED aggregator
    BY <1>3 DEF CallFlushSource
  <2>. QED BY <1>1, <2>1, <2>2
<1>4. ASSUME NEW t \in 1 .. MaxTime + 1, CallFlushBefore(t) PROVE Runs'
  <2>1. PICK f : f = [op |-> "FlushBefore", before |-> t, held |-> NoError]
    OBVIOUS
  <2>2. f \in LoopFrame /\ f.op = "FlushBefore"
    BY <2>1, BoundsAssumption DEF LoopFrame, NoError
  <2>3. MayCall /\ UNCHANGED aggregator /\ stack' = Push(stack, f)
    BY <1>4, <2>1 DEF CallFlushBefore
  <2>. QED BY <1>1, <2>2, <2>3 DEF Frame
<1>5. ASSUME CallStop PROVE Runs'
  <2>1. PICK f : f = [op |-> "Stop", before |-> Forever, held |-> NoError]
    OBVIOUS
  <2>2. f \in LoopFrame /\ f.op = "Stop"
    BY <2>1, BoundsAssumption DEF LoopFrame, NoError, Forever
  <2>3. MayCall /\ UNCHANGED aggregator /\ stack' = Push(stack, f)
    BY <1>5, <2>1 DEF CallStop
  <2>. QED BY <1>1, <2>2, <2>3 DEF Frame
<1>6. ASSUME NEW l \in Lines, NEW timed \in TimeModes, CallAddBypass(l, timed) PROVE Runs'
  <2>1. /\ MayCall /\ UNCHANGED aggregator
        /\ EmitLine(stack, NoKey, l, When(timed), fed[NoKey] + 1)
    BY <1>6 DEF CallAddBypass, CallAddAtBypass
  <2>2. NoKey \in StreamKeys /\ When(timed) \in Time /\ fed[NoKey] + 1 \in Nat
    BY BoundsAssumption DEF Inv, TypeOK, StreamKeys, When, ZeroTime, Time
  <2> DEFINE text == [line |-> l, size |-> Size(l), when |-> When(timed), data |-> fed[NoKey] + 1]
             e == [key |-> NoKey, match |-> NoFormat, when |-> When(timed), data |-> fed[NoKey] + 1,
                   lines |-> 1, truncated |-> FALSE, texts |-> <<text>>]
             em == EmitOf(e, Slot)
  <2>3. stack' = Push(stack, em)
    BY <2>1 DEF EmitLine
  <2>4. text \in RetainedLine
    BY <2>2, LineAssumption DEF RetainedLine
  <2>5. e \in Entry
    BY <2>2, <2>4 DEF Entry
  <2>6. Slot \in Nat
    BY LenProperties DEF Slot, Inv, TypeOK
  <2>7. em \in EmitFrame /\ em.op = "emit"
    BY <2>5, <2>6 DEF EmitOf, EmitFrame
  <2> HIDE DEF em
  <2>. QED BY <1>1, <2>1, <2>3, <2>7 DEF Frame
<1>. QED BY <1>2, <1>3, <1>4, <1>5, <1>6

\* A line is buffered: a fragment, or a full line that has a run to close.
LEMMA BufferedRuns ==
  ASSUME Inv, Runs, NEW s \in Sources, NEW raw \in CriLine, AddBuffered(s, raw)
  PROVE  Runs'
<1> DEFINE key == StreamKey(s, raw.stream)
<1>0. PICK f : f = [op |-> "AddAt", pc |-> "lookup", key |-> key, line |-> raw,
                    when |-> clock, data |-> fed[key] + 1, held |-> NoError]
  OBVIOUS
<1>1. raw.stream \in Streams /\ raw \in Lines /\ key \in Keys /\ key \in StreamKeys
      /\ key[2] = raw.stream
  BY RawLines, StreamKeysOK
<1>2. /\ MayCall /\ UNCHANGED aggregator /\ stack' = Push(stack, f)
      /\ raw.partial \/ groups[key] # Nil
  BY <1>0 DEF AddBuffered, Straight, CallAdd, CallAddAt, When
<1>3. clock \in Time /\ fed[key] + 1 \in Nat
  BY <1>1 DEF Inv, TypeOK, Time
<1>4. f \in AddFrame
  BY <1>0, <1>1, <1>3 DEF AddFrame, NoError
<1>5. Looking(f) /\ FrameRuns(f)' /\ (f.line.partial \/ groups[f.key] # Nil)
  BY <1>0, <1>1, <1>2 DEF Looking, FrameRuns
<1> HIDE DEF key
<1>6. /\ Len(stack') = Len(stack) + 1 /\ stack'[Len(stack) + 1] = f
      /\ \A i \in 1 .. Len(stack) : stack'[i] = stack[i]
  <2>1. stack \in Seq(Frame)
    BY DEF Inv, TypeOK
  <2>2. f \in Frame
    BY <1>4 DEF Frame
  <2>. QED BY ONLY <1>2, <2>1, <2>2, PushProperties
<1>7. stack # <<>> => ~Looking(Top)
  BY <1>2 DEF MayCall, Outside, Looking
<1>8. Len(stack) \in Nat /\ \A i \in 1 .. Len(stack) : ~Looking(stack[i]) /\ FrameRuns(stack[i])
  BY <1>7, SettledFrames DEF Runs
<1>9. heap' = heap /\ Linked' = Linked /\ groups' = groups
  BY <1>2 DEF aggregator, Linked
<1>10. ASSUME NEW i \in 1 .. Len(stack')
       PROVE  /\ FrameRuns(stack[i])'
              /\ Looking(stack'[i]) => /\ i = Len(stack')
                                       /\ stack'[i].line.partial \/ groups'[stack'[i].key] # Nil
  <2>1. CASE i = Len(stack) + 1
    <3>1. stack'[i] = f /\ i = Len(stack')
      BY <2>1, <1>6
    <3>2. FrameRuns(stack[i])'
      BY <1>5, <3>1 DEF FrameRuns, Run, OneStream
    <3>. QED BY <1>5, <1>9, <3>1, <3>2
  <2>2. CASE i # Len(stack) + 1
    <3>1. i \in 1 .. Len(stack)
      BY <2>2, <1>6, <1>8
    <3>2. stack'[i] = stack[i] /\ ~Looking(stack[i]) /\ FrameRuns(stack[i])
      BY <3>1, <1>6, <1>8
    <3>3. FrameRuns(stack[i])'
      BY <1>9, <3>2 DEF FrameRuns, Run, OneStream
    <3>. QED BY <3>2, <3>3
  <2>. QED BY <2>1, <2>2
<1>11. \A g \in Linked' : Open(heap'[g])
  BY <1>9 DEF Runs
<1>. QED BY <1>10, <1>11 DEF Runs, Looking, Open, OneStream

\* A call, or an activation of the emitter, returns.
LEMMA ReturnsRuns ==
  ASSUME Inv, Runs,
         AddReturns \/ LoopReturns \/ FlushSourceReturns \/ FlushDone \/ FlushAborts \/ Emitter
  PROVE  Runs'
<1>1. ASSUME Emitter PROVE Runs'
  <2>1. PICK err \in Nat : EmitterReturns(err)
    BY <1>1 DEF Emitter, EmitterSucceeds, EmitterFails, NoError, Inv, TypeOK
  <2>2. /\ stack # <<>> /\ ~Looking(Top) /\ UNCHANGED order /\ UNCHANGED heap
        /\ stack' = Pop(err)
    BY <2>1 DEF EmitterReturns, Running, Looking, Return, aggregator
  <2>. QED BY <2>2, ReturnRuns
<1>2. ASSUME AddReturns PROVE Runs'
  <2>1. /\ stack # <<>> /\ ~Looking(Top) /\ UNCHANGED order /\ UNCHANGED heap
        /\ stack' = Pop(Top.held) /\ Top.op = "AddAt"
    BY <1>2 DEF AddReturns, At, Running, Looking, Return, aggregator
  <2>2. Top.held \in Nat
    BY <2>1, TopFrame, AddFields DEF Inv, TypeOK
  <2>. QED BY <2>1, <2>2, ReturnRuns
<1>3. ASSUME LoopReturns PROVE Runs'
  <2>1. /\ stack # <<>> /\ ~Looking(Top) /\ UNCHANGED order /\ UNCHANGED heap
        /\ stack' = Pop(Top.held) /\ Top.op \in {"FlushBefore", "Stop"}
    BY <1>3 DEF LoopReturns, Looping, Running, Looking, Return, aggregator
  <2>2. Top.held \in Nat
    BY <2>1, TopFrame, FrameKinds DEF Inv, TypeOK, LoopFrame
  <2>. QED BY <2>1, <2>2, ReturnRuns
<1>4. ASSUME FlushSourceReturns PROVE Runs'
  <2>1. /\ stack # <<>> /\ ~Looking(Top) /\ UNCHANGED order /\ UNCHANGED heap
        /\ stack' = Pop(Top.held)
    BY <1>4 DEF FlushSourceReturns, Running, Looking, Return, aggregator
  <2>2. Top.held \in Nat
    BY <1>4, NextStream DEF FlushSourceReturns
  <2>. QED BY <2>1, <2>2, ReturnRuns
<1>5. ASSUME FlushDone \/ FlushAborts PROVE Runs'
  <2>1. /\ Running("flush") /\ UNCHANGED order /\ heap' = [heap EXCEPT ![Top.ref] = Blank]
        /\ stack' = Pop(Top.held)
    BY <1>5 DEF FlushDone, FlushAborts, Return, NoError
  <2>2. stack # <<>> /\ ~Looking(Top)
    BY <2>1 DEF Running, Looking
  <2>3. Top.held \in Nat
    BY <2>1, FlushingTop
  <2>. QED BY <2>1, <2>2, <2>3, ReturnRuns
<1>. QED BY <1>1, <1>2, <1>3, <1>4, <1>5

\* A pending group is taken out of the list to be flushed, by an AddAt past its first
\* block or by another operation.
LEMMA UnlinkedRuns ==
  ASSUME Inv, Runs, Drain \/ Evict \/ FlushFirst \/ FlushStream
  PROVE  Runs'
<1>1. ASSUME stack # <<>>, ~Looking(Top), UNCHANGED heap, NEW g \in Linked, Unlink(g),
             NEW st \in Seq(Frame), Len(st) = Len(stack),
             \A i \in 1 .. Len(stack) : Alike(st[i], stack[i]),
             stack' = Push(st, FlushOf(g))
      PROVE  Runs'
  <2>1. ToSet(order') \subseteq Linked /\ g \in Refs
    BY <1>1, UnlinkProperties
  <2>2. FlushOf(g) \in Frame /\ FlushOf(g).op = "flush" /\ FlushOf(g).ref = g
    BY <2>1, FlushOfFrame
  <2>. QED BY <1>1, <2>1, <2>2, PushedRuns
<1>2. stack \in Seq(Frame) /\ \A i \in 1 .. Len(stack) : Alike(stack[i], stack[i])
  BY AlikeIsReflexive DEF Inv, TypeOK
<1>3. ASSUME Drain PROVE Runs'
  <2>1. /\ stack # <<>> /\ Top.op = "AddAt" /\ ~Looking(Top) /\ UNCHANGED heap
        /\ groups[Top.key] # Nil
        /\ Unlink(groups[Top.key]) /\ stack' = Push(stack, FlushOf(groups[Top.key]))
    BY <1>3 DEF Drain, At, Running, KeyIsFree, Looking
  <2>2. Top.key \in Keys
    BY <2>1, TopFrame, AddFields DEF Inv, TypeOK
  <2>. QED BY <1>1, <1>2, <2>1, <2>2, PendingGroups
<1>4. ASSUME Evict PROVE Runs'
  <2>1. /\ stack # <<>> /\ ~Looking(Top) /\ UNCHANGED heap /\ order # <<>>
        /\ Unlink(Head(order)) /\ stack' = Push(stack, FlushOf(Head(order)))
    BY <1>4, LenOfEmpty DEF Evict, At, Running, OverCaps, Looking
  <2>. QED BY <1>1, <1>2, <2>1, PendingGroups
<1>5. ASSUME FlushFirst PROVE Runs'
  <2>1. /\ stack # <<>> /\ ~Looking(Top) /\ UNCHANGED heap /\ order # <<>>
        /\ Unlink(Head(order)) /\ stack' = Push(stack, FlushOf(Head(order)))
    BY <1>5 DEF FlushFirst, Looping, Running, Stale, Looking
  <2>. QED BY <1>1, <1>2, <2>1, PendingGroups
<1>6. ASSUME FlushStream PROVE Runs'
  <2> DEFINE f == [Top EXCEPT !.left = Tail(@)]
             g == groups[Head(Top.left)]
  <2>1. /\ Running("FlushKeys") /\ UNCHANGED heap /\ Top.left # <<>>
        /\ \/ stack' = SetTop(f) /\ UNCHANGED aggregator
           \/ g \in Linked /\ Unlink(g) /\ stack' = Push(SetTop(f), FlushOf(g))
    BY <1>6, FlushStreamCases
  <2>2. /\ SetTop(f) \in Seq(Frame) /\ Len(SetTop(f)) = Len(stack) /\ Len(stack) \in Nat
        /\ SetTop(f)[Len(stack)] = f /\ Top = stack[Len(stack)]
        /\ \A i \in 1 .. Len(stack) - 1 : SetTop(f)[i] = stack[i]
    BY <2>1, StreamStack
  <2>3. /\ stack # <<>> /\ Top.op = "FlushKeys" /\ f \in Frame /\ f.op = "FlushKeys"
    BY <2>1, NextStream
  <2>4. ~Looking(Top) /\ ~Looking(f) /\ FrameRuns(f) /\ Alike(f, Top)
    BY <2>3 DEF Looking, FrameRuns, Alike
  <2> HIDE DEF f, g
  <2>5. ASSUME NEW i \in 1 .. Len(stack) PROVE Alike(SetTop(f)[i], stack[i])
    <3>1. CASE i = Len(stack)
      BY <3>1, <2>2, <2>4
    <3>2. CASE i # Len(stack)
      BY <3>2, <2>2, AlikeIsReflexive
    <3>. QED BY <3>1, <3>2
  <2>6. CASE stack' = SetTop(f) /\ UNCHANGED aggregator
    BY <2>3, <2>4, <2>6, MovedRuns DEF aggregator
  <2>7. CASE g \in Linked /\ Unlink(g) /\ stack' = Push(SetTop(f), FlushOf(g))
    BY <1>1, <2>1, <2>2, <2>3, <2>4, <2>5, <2>7
  <2>. QED BY <2>1, <2>6, <2>7
<1>. QED BY <1>3, <1>4, <1>5, <1>6

\* An AddAt on top: its line is of the stream of its key.
LEMMA LineRuns ==
  ASSUME Inv, Runs, Running("AddAt")
  PROVE  /\ stack # <<>> /\ stack \in Seq(Frame) /\ Len(stack) \in 1 .. Len(stack)
         /\ Len(stack) \in Nat /\ Top = stack[Len(stack)]
         /\ Top \in Frame /\ Top.op = "AddAt"
         /\ Top.key \in Keys /\ Top.when \in Time /\ Top.data \in Nat
         /\ Top.line \in CriLine /\ Top.key[2] \in Streams /\ Top.line.stream = Top.key[2]
         /\ Top.pc \in {"start", "drain"} => Top.line.partial
         /\ Looking(Top) => Top.line.partial \/ groups[Top.key] # Nil
<1>1. /\ stack # <<>> /\ stack \in Seq(Frame) /\ Len(stack) \in 1 .. Len(stack)
      /\ Len(stack) \in Nat /\ Top = stack[Len(stack)] /\ Top \in Frame /\ Top.op = "AddAt"
  BY TopFrame DEF Running, Inv, TypeOK
<1>2. Top.key \in Keys /\ Top.when \in Time /\ Top.data \in Nat /\ Top.line \in Lines
  BY <1>1, AddFields
<1>3. /\ Top.key[2] \in Streams /\ Top.line.stream = Top.key[2]
      /\ Top.pc \in {"start", "drain"} => Top.line.partial
      /\ Looking(Top) => Top.line.partial \/ groups[Top.key] # Nil
  BY <1>1 DEF Runs, FrameRuns
<1>4. Top.line # NotCri
  BY <1>3, RawLines, CriAssumption
<1>. QED BY <1>1, <1>2, <1>3, <1>4, RawLines

\* The line finds no group, or starts one.
LEMMA MissedRuns ==
  ASSUME Inv, Runs, Miss \/ Starts
  PROVE  Runs'
<1>1. Running("AddAt") /\ UNCHANGED <<heap, order>>
  BY DEF Miss, Starts, At, aggregator
<1>2. PICK pc \in {"start", "drain"} : stack' = SetTop([Top EXCEPT !.pc = pc])
  BY DEF Miss, Starts
<1>3. Top.line.partial
  <2>1. CASE Miss
    BY <1>1, <2>1, LineRuns DEF Miss, At, Looking, Running
  <2>2. CASE Starts
    BY <1>1, <2>2, LineRuns DEF Starts, At
  <2>. QED BY <2>1, <2>2
<1>4. PICK f : f = [Top EXCEPT !.pc = pc]
  OBVIOUS
<1>5. f \in Frame /\ f.op = "AddAt" /\ f.pc = pc /\ f.key = Top.key /\ f.line = Top.line
  <2>1. Top \in Frame /\ Top.op = "AddAt" /\ pc \in {"lookup", "start", "drain", "evict", "return"}
    BY <1>1, LineRuns
  <2>. QED BY ZenonT(30), <1>4, <2>1, PcFields
<1>6. ~Looking(f) /\ FrameRuns(f)
  BY <1>1, <1>3, <1>5, LineRuns DEF Looking, FrameRuns
<1>. QED BY <1>1, <1>2, <1>4, <1>5, <1>6, LineRuns, MovedRuns

\* A line of the stream always continues the run pending under its key, and a fragment
\* always starts one.
LEMMA NeverBreaks ==
  ASSUME Inv, Runs
  PROVE  ~Break /\ ~PassThrough
<1>1. ASSUME Break PROVE FALSE
  <2>1. /\ Running("AddAt") /\ groups[Top.key] # Nil
        /\ Step(Top.line, heap[groups[Top.key]].active).next = {}
    BY <1>1 DEF Break, At
  <2>2. Top.line \in CriLine /\ Top.key \in Keys /\ Top.line.partial \in BOOLEAN
    BY <2>1, LineRuns, RawLines
  <2>3. heap[groups[Top.key]].active = {"partial"}
    BY <2>1, <2>2, PendingGroups DEF Runs, Open
  <2>. QED BY <2>1, <2>2, <2>3, FragmentSteps
<1>2. ASSUME PassThrough PROVE FALSE
  <2>1. Running("AddAt") /\ Top.pc = "start" /\ Step(Top.line, {StartState}).next = {}
    BY <1>2 DEF PassThrough, At
  <2>2. Top.line \in CriLine /\ Top.line.partial
    BY <2>1, LineRuns
  <2>. QED BY <2>1, <2>2, FragmentSteps
<1>. QED BY <1>1, <1>2

\* The top activation of AddAt moves on, having changed one group that no flush has, and
\* perhaps flushes it.
LEMMA PlacedRuns ==
  ASSUME Inv, Runs, Running("AddAt"), NEW g \in Refs, NEW h,
         heap' = [heap EXCEPT ![g] = h],
         \A i \in 1 .. Len(stack) : stack[i].op = "flush" => stack[i].ref # g,
         ToSet(order') \subseteq Linked \union {g},
         NEW pc \in {"evict", "return"},
         \/ stack' = SetTop([Top EXCEPT !.pc = pc]) /\ Open(h)
         \/ /\ stack' = Push(SetTop([Top EXCEPT !.pc = pc]), FlushOf(g))
            /\ g \notin ToSet(order') /\ Run(h)
  PROVE  Runs'
<1>1. PICK f : f = [Top EXCEPT !.pc = pc]
  OBVIOUS
<1>2. f \in Frame /\ f.op = "AddAt" /\ f.pc = pc /\ f.key = Top.key /\ f.line = Top.line
  <2>1. Top \in Frame /\ Top.op = "AddAt" /\ pc \in {"lookup", "start", "drain", "evict", "return"}
    BY LineRuns
  <2>. QED BY <1>1, <2>1, PcFields
<1>3. /\ stack # <<>> /\ stack \in Seq(Frame) /\ Len(stack) \in Nat /\ Len(stack) \in 1 .. Len(stack)
      /\ Top.key[2] \in Streams /\ Top.line.stream = Top.key[2]
  BY LineRuns
<1>4. ~Looking(f) /\ FrameRuns(f)'
  BY <1>2, <1>3 DEF Looking, FrameRuns
<1>5. /\ SetTop(f) \in Seq(Frame) /\ Len(SetTop(f)) = Len(stack) /\ SetTop(f)[Len(stack)] = f
      /\ \A i \in 1 .. Len(stack) - 1 : SetTop(f)[i] = stack[i]
  BY <1>2, <1>3, SetTopProperties
<1>6. heap'[g] = h /\ \A r \in Refs : r # g => heap'[r] = heap[r]
  BY DEF Inv, TypeOK
<1>7. \A r \in ToSet(order') : Open(heap[r])'
  <2>1. ASSUME NEW r \in ToSet(order') PROVE Open(heap'[r])
    <3>1. CASE r = g
      BY <2>1, <3>1, <1>6
    <3>2. CASE r # g
      BY <2>1, <3>2, <1>6, ListFacts DEF Runs
    <3>. QED BY <3>1, <3>2
  <2>. QED BY <2>1 DEF Open, OneStream
<1>8. ASSUME NEW i \in 1 .. Len(stack) - 1, stack'[i] = stack[i]
      PROVE  /\ i \in 1 .. Len(stack) /\ ~Looking(stack[i]) /\ Alike(stack'[i], stack[i])
             /\ stack[i].op = "flush" => heap'[stack[i].ref] = heap[stack[i].ref]
  <2>1. i \in 1 .. Len(stack) /\ i # Len(stack)
    BY <1>3
  <2>2. ~Looking(stack[i])
    BY <2>1 DEF Runs
  <2>3. stack[i].op = "flush" => stack[i].ref \in Refs
    BY <1>3, <2>1, ElementOfSeq, FrameKinds DEF FlushFrame
  <2>. QED BY <1>6, <1>8, <2>1, <2>2, <2>3, AlikeIsReflexive
<1>9. ASSUME NEW i \in 1 .. Len(stack'), stack'[i] = f
      PROVE  ~Looking(stack'[i]) /\ FrameRuns(stack[i])'
  BY <1>4, <1>9 DEF FrameRuns, Run, OneStream
<1>10. CASE stack' = SetTop(f)
  <2>1. ASSUME NEW i \in 1 .. Len(stack')
        PROVE  \/ /\ i \in 1 .. Len(stack) /\ ~Looking(stack[i]) /\ Alike(stack'[i], stack[i])
                  /\ stack[i].op = "flush" => heap'[stack[i].ref] = heap[stack[i].ref]
               \/ ~Looking(stack'[i]) /\ FrameRuns(stack[i])'
    <3>1. i = Len(stack) \/ i \in 1 .. Len(stack) - 1
      BY <1>3, <1>5, <1>10
    <3>. QED BY <3>1, <1>5, <1>8, <1>9, <1>10
  <2>. QED BY <2>1, <1>7, RunsStep
<1>11. CASE /\ stack' = Push(SetTop(f), FlushOf(g)) /\ Run(h)
  <2>1. PICK u : u = FlushOf(g)
    OBVIOUS
  <2>2. u \in Frame /\ u.op = "flush" /\ u.ref = g
    BY <2>1, FlushOfFrame
  <2>3. /\ Len(stack') = Len(stack) + 1 /\ stack'[Len(stack) + 1] = u
        /\ \A i \in 1 .. Len(stack) : stack'[i] = SetTop(f)[i]
    <3>1. PICK st \in Seq(Frame) : st = SetTop(f) /\ Len(st) = Len(stack)
      BY <1>5
    <3>2. /\ Len(Push(st, u)) = Len(st) + 1 /\ Push(st, u)[Len(st) + 1] = u
          /\ \A i \in 1 .. Len(st) : Push(st, u)[i] = st[i]
      BY <2>2, PushProperties
    <3>. QED BY <1>11, <2>1, <3>1, <3>2
  <2>4. ASSUME NEW i \in 1 .. Len(stack'), i = Len(stack) + 1
        PROVE  ~Looking(stack'[i]) /\ FrameRuns(stack[i])'
    <3>1. stack'[i] = u /\ Run(heap'[u.ref])
      BY <2>2, <2>3, <2>4, <1>6, <1>11
    <3>. QED BY <2>2, <3>1 DEF Looking, FrameRuns, Run, OneStream
  <2>5. ASSUME NEW i \in 1 .. Len(stack')
        PROVE  \/ /\ i \in 1 .. Len(stack) /\ ~Looking(stack[i]) /\ Alike(stack'[i], stack[i])
                  /\ stack[i].op = "flush" => heap'[stack[i].ref] = heap[stack[i].ref]
               \/ ~Looking(stack'[i]) /\ FrameRuns(stack[i])'
    <3>1. CASE i = Len(stack) + 1
      BY <3>1, <2>4
    <3>2. CASE i = Len(stack)
      BY <3>2, <1>3, <1>5, <2>3, <1>9
    <3>3. CASE i \in 1 .. Len(stack) - 1
      <4>1. i \in 1 .. Len(stack) /\ stack'[i] = stack[i]
        BY <3>3, <1>3, <1>5, <2>3
      <4>. QED BY <3>3, <4>1, <1>8
    <3>4. i = Len(stack) + 1 \/ i = Len(stack) \/ i \in 1 .. Len(stack) - 1
      BY <1>3, <2>3
    <3>. QED BY <3>1, <3>2, <3>3, <3>4
  <2>. QED BY <2>5, <1>7, RunsStep
<1>. QED BY <1>1, <1>10, <1>11

\* A line continues the run of its stream, and perhaps closes it.
LEMMA ContinuedRuns ==
  ASSUME Inv, Runs, Continue
  PROVE  Runs'
<1> DEFINE g    == groups[Top.key]
           next == Step(Top.line, heap[g].active).next
           h    == Grown(heap[g], Top.line, Top.when, Top.data)
<1>1. Running("AddAt") /\ g # Nil /\ heap' = [heap EXCEPT ![g] = h]
  BY DEF Continue, At
<1>2. /\ Top.key \in Keys /\ Top.when \in Time /\ Top.data \in Nat /\ Top.line \in CriLine
      /\ Top.line.stream = Top.key[2] /\ Top.line.partial \in BOOLEAN
  BY <1>1, LineRuns, RawLines
<1>3. g \in Linked /\ g \in Refs /\ heap[g] \in Group /\ heap[g].key = Top.key
  <2>1. g \in Linked
    BY <1>1, <1>2, PendingGroups
  <2>2. g \in Refs
    BY <2>1, ListFacts
  <2>. QED BY <1>1, <1>2, <2>1, <2>2 DEF Inv, TypeOK, Mapped
<1>4. Open(heap[g]) /\ heap[g].active = {"partial"}
  BY <1>3 DEF Runs, Open
<1>5. IF Top.line.partial THEN Open(h) ELSE Run(h)
  BY <1>2, <1>3, <1>4, GrownRuns
<1>6. \A i \in 1 .. Len(stack) : stack[i].op = "flush" => stack[i].ref # g
  BY <1>3 DEF Inv, Flushing, FlushOK
<1>7. /\ Detached(g) \in Seq(Refs) /\ IsInjective(Detached(g))
      /\ ToSet(Detached(g)) = Linked \ {g}
  BY <1>3, RemoveFirstSet, ListFacts DEF Detached, Linked
<1>8. /\ AllFinal(next) => ~Top.line.partial
      /\ ~AllFinal(next) => Top.line.partial
  BY <1>2, <1>4, FragmentSteps
<1> HIDE DEF g, h
<1>9. CASE AllFinal(next)
  <2>1. /\ order' = Detached(g)
        /\ stack' = Push(SetTop([Top EXCEPT !.pc = "return"]), FlushOf(g))
    BY <1>9 DEF Continue, g
  <2>2. ToSet(order') \subseteq Linked \union {g} /\ g \notin ToSet(order') /\ Run(h)
    BY <1>5, <1>7, <1>8, <1>9, <2>1
  <2>3. heap' = [heap EXCEPT ![g] = h]
    BY <1>1 DEF g, h
  <2>. QED BY <1>1, <1>3, <1>6, <2>1, <2>2, <2>3, PlacedRuns
<1>10. CASE ~AllFinal(next)
  <2>1. /\ order' = Append(Detached(g), g)
        /\ \E pc \in {"evict", "return"} : stack' = SetTop([Top EXCEPT !.pc = pc])
    BY <1>10 DEF Continue, MovedLast, g
  <2>2. ToSet(Append(Detached(g), g)) = (Linked \ {g}) \union {g}
    BY <1>3, <1>7, AppendSet
  <2>3. ToSet(order') \subseteq Linked \union {g} /\ Open(h)
    BY <1>5, <1>8, <1>10, <2>1, <2>2
  <2>4. heap' = [heap EXCEPT ![g] = h]
    BY <1>1 DEF g, h
  <2>. QED BY <1>1, <1>3, <1>6, <2>1, <2>3, <2>4, PlacedRuns
<1>. QED BY <1>9, <1>10

\* A fragment becomes the first of a run.
LEMMA ClaimedRuns ==
  ASSUME Inv, Runs, Claim
  PROVE  Runs'
<1> DEFINE next == Step(Top.line, {StartState}).next
           h    == NewGroup(Top.key, Top.line, Top.when, Top.data)
<1>1. Running("AddAt") /\ Top.pc = "drain"
  BY DEF Claim, At
<1>2. /\ Top.key \in Keys /\ Top.when \in Time /\ Top.data \in Nat /\ Top.line \in CriLine
      /\ Top.line.stream = Top.key[2] /\ Top.line.partial
  BY <1>1, LineRuns
<1>3. ~AllFinal(next)
  BY <1>2, FragmentSteps
<1>4. Open(h)
  <2>1. clock \in 1 .. MaxTime
    BY DEF Inv, TypeOK
  <2>. QED BY <1>2, <2>1, NewRuns
<1> HIDE DEF h
<1>5. PICK g \in Refs :
        /\ Allocates(g) /\ heap' = [heap EXCEPT ![g] = h]
        /\ order' = Append(order, g) /\ stack' = SetTop([Top EXCEPT !.pc = "evict"])
  BY <1>3 DEF Claim, h
<1>6. g \notin Linked /\ \A i \in 1 .. Len(stack) : stack[i].op = "flush" => stack[i].ref # g
  BY <1>5, AllocatesProperties
<1>7. ToSet(order') \subseteq Linked \union {g}
  <2>1. order \in Seq(Refs) /\ IsInjective(order) /\ g \notin ToSet(order)
    BY <1>6, ListFacts DEF Linked
  <2>. QED BY <1>5, <2>1, AppendSet DEF Linked
<1>. QED BY <1>1, <1>4, <1>5, <1>6, <1>7, PlacedRuns

\* The flush on top enters the emitter.
LEMMA EmittedRuns ==
  ASSUME Inv, Runs, FlushPrefix \/ FlushLine
  PROVE  Runs'
<1> DEFINE g == heap[Top.ref]
<1>1. Running("flush") /\ Top.at \in Nat /\ stack # <<>> /\ Top \in FlushFrame
      /\ g \in Group /\ GroupOK(g) /\ TextsOK(g)
  BY FlushingTop DEF FlushPrefix, FlushLine
<1>2. \E at \in Nat, e \in Entry : EmitFromGroup(e, at)
  <2>1. CASE FlushPrefix
    <3>1. g.acceptedLines > 0 /\ EmitFromGroup(PrefixEntry(g), g.acceptedLines)
      BY <2>1 DEF FlushPrefix
    <3>2. PrefixEntry(g) \in Entry /\ g.acceptedLines \in Nat
      BY <1>1, <3>1, PrefixEntryOK DEF Group
    <3>. QED BY <3>1, <3>2
  <2>2. CASE FlushLine
    <3>1. PICK i : i = Top.at + 1
      OBVIOUS
    <3>2. /\ Top.at >= g.acceptedLines /\ Top.at < Len(g.lines)
          /\ EmitFromGroup(LineEntry(g, i), i)
      BY <2>2, <3>1 DEF FlushLine
    <3>3. g.acceptedLines \in Nat /\ Len(g.lines) \in Nat
      BY <1>1, LenProperties DEF Group
    <3>4. i \in 1 .. Len(g.lines) /\ i > g.acceptedLines /\ i \in Nat
      BY <1>1, <3>1, <3>2, <3>3
    <3>5. LineEntry(g, i) \in Entry
      BY <1>1, <3>4, LineEntryOK
    <3>. QED BY <3>2, <3>4, <3>5
  <2>. QED BY <2>1, <2>2
<1>3. PICK at \in Nat, e \in Entry : EmitFromGroup(e, at)
  BY <1>2
<1>4. PICK f : f = [Top EXCEPT !.at = at, !.sent = @ + e.lines]
  OBVIOUS
<1>5. f \in FlushFrame /\ f.op = "flush" /\ f.ref = Top.ref
  <2>1. PICK n \in Int : n = e.lines
    BY DEF Entry
  <2>2. PICK t \in FlushFrame : t = Top
    BY <1>1
  <2>3. PICK sent \in Int : sent = t.sent + n
    BY <2>1 DEF FlushFrame
  <2>4. f = [t EXCEPT !.at = at, !.sent = sent]
    BY <1>4, <2>1, <2>2, <2>3
  <2>. QED BY <2>2, <2>4 DEF FlushFrame
<1>6. /\ EmitOf(e, 0) \in Frame /\ EmitOf(e, 0).op = "emit"
      /\ stack' = Push(SetTop(f), EmitOf(e, 0)) /\ UNCHANGED aggregator
  BY <1>3, <1>4 DEF EmitFromGroup, EmitOf, EmitFrame, Frame
<1>7. UNCHANGED heap /\ ToSet(order') \subseteq Linked
  BY <1>6 DEF aggregator, Linked
<1>8. /\ SetTop(f) \in Seq(Frame) /\ Len(SetTop(f)) = Len(stack) /\ Len(stack) \in Nat
      /\ SetTop(f)[Len(stack)] = f /\ Top = stack[Len(stack)]
      /\ \A i \in 1 .. Len(stack) - 1 : SetTop(f)[i] = stack[i]
  BY <1>1, <1>5, SetTopProperties, TopFrame DEF Frame, Inv, TypeOK
<1>9. Alike(f, Top) /\ ~Looking(Top)
  BY <1>1, <1>5 DEF Alike, Looking, Running
<1>10. ASSUME NEW i \in 1 .. Len(stack) PROVE Alike(SetTop(f)[i], stack[i])
  <2>1. CASE i = Len(stack)
    BY <2>1, <1>8, <1>9
  <2>2. CASE i # Len(stack)
    BY <2>2, <1>8, AlikeIsReflexive
  <2>. QED BY <2>1, <2>2
<1>. QED BY <1>6, <1>7, <1>8, <1>9, <1>10, PushedRuns

LEMMA NextRuns ==
  ASSUME Inv, Runs, [CriNext]_vars
  PROVE  Runs'
<1>1. CASE UNCHANGED vars \/ Tick
  <2>1. UNCHANGED <<heap, order, groups, stack>>
    BY <1>1 DEF vars, Tick, aggregator
  <2>2. Linked' = Linked
    BY <2>1 DEF Linked
  <2>3. (\A g \in Linked : Open(heap[g]))'
    BY <2>1, <2>2 DEF Runs, Open, OneStream
  <2>4. (\A i \in 1 .. Len(stack) : FrameRuns(stack[i]))'
    <3>1. ASSUME NEW i \in 1 .. Len(stack) PROVE FrameRuns(stack[i])'
      <4>1. FrameRuns(stack[i])
        BY DEF Runs
      <4>. QED BY <4>1, <2>1 DEF FrameRuns, Run, OneStream
    <3>. QED BY <3>1, <2>1
  <2>5. (\A i \in 1 .. Len(stack) : Looking(stack[i]) =>
           i = Len(stack) /\ (stack[i].line.partial \/ groups[stack[i].key] # Nil))'
    BY <2>1 DEF Runs, Looking
  <2>. QED BY <2>3, <2>4, <2>5 DEF Runs
<1>2. CASE CriCalls
  <2>1. ASSUME NEW s \in Sources, NEW raw \in CriLine, AddBuffered(s, raw) PROVE Runs'
    BY <2>1, BufferedRuns
  <2>2. ASSUME NEW key \in StreamKeys, NEW raw \in Lines, NEW when \in Time,
               Free(key), MayCall, HandOn(key, raw, when)
        PROVE  Runs'
    BY <2>2, CallsRuns DEF HandsOn
  <2>3. clock \in Time /\ ZeroTime \in Time
    BY BoundsAssumption DEF Inv, TypeOK, Time, ZeroTime
  <2>4. ASSUME NEW s \in Sources, AddNotCri(s) PROVE Runs'
    <3>1. PICK key \in Keys : key = StreamKey(s, Bare) /\ key \in StreamKeys /\ key[2] = Bare
      BY StreamKeysOK
    <3>2. Free(key) /\ MayCall /\ HandOn(key, NotCri, ZeroTime)
      BY <2>4, <3>1 DEF AddNotCri, Free
    <3>. QED BY <2>2, <2>3, <3>1, <3>2, RawLines
  <2>5. ASSUME NEW s \in Sources, NEW raw \in CriLine, AddStraight(s, raw) PROVE Runs'
    <3>1. PICK key \in Keys : key = StreamKey(s, raw.stream) /\ key \in StreamKeys
      BY StreamKeysOK, RawLines
    <3>2. Free(key) /\ MayCall /\ HandOn(key, raw, clock)
      BY <2>5, <3>1 DEF AddStraight, Straight, Free
    <3>. QED BY <2>2, <2>3, <3>1, <3>2, RawLines
  <2>6. ASSUME NEW raw \in CriLines, AddUnkeyed(raw) PROVE Runs'
    <3>1. raw \in Lines /\ NoKey \in StreamKeys /\ Free(NoKey) /\ TRUE \in TimeModes
      BY StageAssumption DEF StreamKeys, Free
    <3>2. CASE CallAddBypass(raw, TRUE)
      BY <3>1, <3>2, CallsRuns
    <3>3. CASE MayCall /\ HandOn(NoKey, raw, IF raw = NotCri THEN ZeroTime ELSE clock)
      <4>1. PICK when \in Time : when = IF raw = NotCri THEN ZeroTime ELSE clock
        BY <2>3
      <4>. QED BY <2>2, <3>1, <3>3, <4>1
    <3>. QED BY <2>6, <3>2, <3>3 DEF AddUnkeyed
  <2>7. CASE \/ \E s \in Sources : CallFlushSource(s)
             \/ \E t \in 1 .. MaxTime + 1 : CallFlushBefore(t)
             \/ CallStop
    BY <2>7, CallsRuns
  <2>. QED BY <1>2, <2>1, <2>4, <2>5, <2>6, <2>7 DEF CriCalls
<1>3. CASE Emitter \/ FlushSourceReturns \/ AddReturns \/ LoopReturns \/ FlushDone \/ FlushAborts
  BY <1>3, ReturnsRuns
<1>4. CASE FlushStream \/ Drain \/ Evict \/ FlushFirst
  BY <1>4, UnlinkedRuns
<1>5. CASE Break \/ PassThrough
  BY <1>5, NeverBreaks
<1>6. CASE Continue \/ Claim
  BY <1>6, ContinuedRuns, ClaimedRuns
<1>7. CASE Miss \/ Starts
  BY <1>7, MissedRuns
<1>8. CASE FlushPrefix \/ FlushLine
  BY <1>8, EmittedRuns
<1>. QED BY <1>1, <1>2, <1>3, <1>4, <1>5, <1>6, <1>7, <1>8
         DEF CriNext, Machine, AddAt, FlushLoop, Flush

LEMMA InitRuns == Init => Runs
<1>1. ASSUME Init PROVE Runs
  <2>1. order = <<>> /\ stack = <<>>
    BY <1>1 DEF Init
  <2>2. Linked = {} /\ \A i \in 1 .. Len(stack) : FALSE
    BY <2>1 DEF Linked, ToSet
  <2>. QED BY <2>2 DEF Runs
<1>. QED BY <1>1

\* The groups of the inner aggregator are runs of fragments of one stream, and an AddAt
\* has a full line only to close one (AddParsed, Step, Final).
THEOREM RunsInvariance == CriSpec => []Runs
<1>1. Inv /\ Runs /\ [CriNext]_vars => Runs'
  BY NextRuns
<1>. QED BY <1>1, InitRuns, CriInvariance, PTL DEF CriSpec

\* A full line that finds nothing pending under its stream is right to go around the
\* buffer: what is pending is always a run still open (AddParsed).
THEOREM OpenRuns == CriSpec => []OnlyOpenRunsPending
<1>1. ASSUME Inv, Runs PROVE OnlyOpenRunsPending
  <2>1. ASSUME NEW g \in Linked
        PROVE  /\ heap[g].key[2] \in Streams
               /\ heap[g].active = {"partial"}
               /\ \A i \in DOMAIN heap[g].lines :
                    heap[g].lines[i].line.partial /\ heap[g].lines[i].line.stream = heap[g].key[2]
    <3>1. Open(heap[g])
      BY <1>1 DEF Runs
    <3>2. heap[g] \in Group
      BY <1>1, ListFacts DEF Inv, TypeOK
    <3>3. DOMAIN heap[g].lines = 1 .. Len(heap[g].lines)
      BY <3>2, LenProperties DEF Group
    <3>. QED BY <3>1, <3>3 DEF Open, OneStream
  <2>. QED BY <2>1 DEF OnlyOpenRunsPending
<1>. QED BY <1>1, CriInvariance, RunsInvariance, PTL

\* The entry of a run.
LEMMA RunEntry ==
  ASSUME NEW g \in Group, GroupOK(g), TextsOK(g), Run(g), NEW e, FromGroup(e, g)
  PROVE  LET n == Len(e.texts)
         IN  /\ \A i \in 1 .. n - 1 : e.texts[i].line.partial
             /\ n > 1 => e.truncated \/ ~e.texts[n].line.partial
<1>1. CASE \E i \in 1 .. Len(g.lines) : i > g.acceptedLines /\ e = LineEntry(g, i)
  <2>1. PICK i \in 1 .. Len(g.lines) : i > g.acceptedLines /\ e = LineEntry(g, i)
    BY <1>1
  <2>2. e.texts = <<g.lines[i]>>
    BY <2>1, LineEntryOK
  <2>3. Len(e.texts) = 1
    BY <2>2
  <2>. QED BY <2>3
<1>2. CASE g.acceptedLines > 0 /\ e = PrefixEntry(g)
  <2>1. /\ e.texts = SubSeq(g.lines, 1, g.acceptedLines)
        /\ Len(e.texts) = g.acceptedLines
    BY <1>2, PrefixEntryOK
  <2>2. PICK n \in Nat : n = Len(g.lines)
    BY LenProperties DEF Group
  <2>3. g.acceptedLines = n /\ e.truncated = g.capped
    BY <1>2, <2>2 DEF Run, PrefixEntry, Group
  <2>4. g.lines \in Seq(RetainedLine)
    BY DEF Group
  <2>5. \A i \in 1 .. n : e.texts[i] = g.lines[i]
    BY <2>1, <2>2, <2>3, <2>4
  <2>6. \A i \in 1 .. n - 1 : i \in 1 .. n
    OBVIOUS
  <2>7. \A i \in 1 .. n - 1 : e.texts[i].line.partial
    BY <2>2, <2>5, <2>6 DEF Run
  <2>8. n > 1 => n \in 1 .. n /\ (g.capped \/ ~g.lines[n].line.partial)
    BY <1>2, <2>2 DEF Run
  <2>. QED BY <2>1, <2>3, <2>5, <2>7, <2>8
<1>. QED BY <1>1, <1>2 DEF FromGroup

\* Fragments are put together only as one application line, which is complete unless it
\* is flagged as truncated (Step, rejoin).
THEOREM OneLineJoined == CriSpec => JoinsOneLine
<1>1. ASSUME Inv, Runs, [CriNext]_vars, Emits
      PROVE  LET e == Last(stack').entry
                 n == Len(e.texts)
             IN  /\ \A i \in 1 .. n - 1 : e.texts[i].line.partial
                 /\ n > 1 => e.truncated \/ ~e.texts[n].line.partial
  <2>1. PICK e : e = Last(stack').entry
    OBVIOUS
  <2>2. CASE Single(e)
    <3>1. Len(e.texts) = 1
      BY <2>2 DEF Single
    <3>. QED BY <2>1, <3>1
  <2>3. CASE Running("flush") /\ FromGroup(e, heap[Top.ref])
    <3>1. /\ heap[Top.ref] \in Group /\ GroupOK(heap[Top.ref]) /\ TextsOK(heap[Top.ref])
          /\ Top = stack[Len(stack)] /\ Len(stack) \in 1 .. Len(stack) /\ Top.op = "flush"
      BY <1>1, <2>3, FlushingTop
    <3>2. Run(heap[Top.ref])
      BY <1>1, <3>1 DEF Runs, FrameRuns
    <3>. QED BY <2>1, <2>3, <3>1, <3>2, RunEntry
  <2>. QED BY <1>1, <2>1, <2>2, <2>3, WhatIsHandedOn
<1>2. Inv /\ Runs /\ [CriNext]_vars =>
        [Emits => LET e == Last(stack').entry
                      n == Len(e.texts)
                  IN  /\ \A i \in 1 .. n - 1 : e.texts[i].line.partial
                      /\ n > 1 => e.truncated \/ ~e.texts[n].line.partial]_vars
  BY <1>1
<1>. QED BY <1>2, CriInvariance, RunsInvariance, PTL DEF CriSpec, JoinsOneLine

-----------------------------------------------------------------------------
(* A next stage that does not call back.                                    *)

\* Nothing is pending under a key whose line is handed on unbuffered.
LEMMA FreeKeys ==
  ASSUME Inv, Runs, NEW key \in Keys, Free(key)
  PROVE  groups[key] = Nil
<1>1. ASSUME groups[key] # Nil PROVE FALSE
  <2>1. /\ groups[key] \in Linked /\ heap[groups[key]].key = key
    BY <1>1 DEF Inv, Mapped
  <2>2. key[2] \in Streams
    BY <2>1 DEF Runs, Open, OneStream
  <2>. QED BY <1>1, <2>2, NamesAssumption, CriAssumption DEF Free
<1>. QED BY <1>1

\* A line handed on unbuffered is settled on the spot.
LEMMA HandsOnSerial ==
  ASSUME Inv, Runs, Serial, MaxDepth = 0, HandsOn
  PROVE  Serial'
<1>1. PICK key \in StreamKeys, raw \in Lines, when \in Time : Free(key) /\ HandOn(key, raw, when)
  BY DEF HandsOn
<1>2. /\ stack = <<>> /\ raised' = NoError /\ Len(stack) + 1 = 1
      /\ UNCHANGED <<heap, groups, order, lost, clock>>
  BY <1>1, NoReentry DEF HandsOn, HandOn, BeginCall, aggregator
<1>3. PICK em \in EmitFrame :
        /\ stack' = Push(stack, em) /\ em.op = "emit"
        /\ em.entry.key = key /\ em.entry.lines = 1 /\ em.entry.data = fed[key] + 1
        /\ fed' = [fed EXCEPT ![key] = @ + 1]
        /\ delivered' = [delivered EXCEPT ![key] = @ + 1]
  BY <1>1, HandedOn
<1>4. Len(stack') = 1 /\ stack'[1] = em /\ \A i \in 1 .. Len(stack') : i = 1
  BY <1>2, <1>3, PushProperties DEF Push
<1>5. stack' # <<>>
  <2>1. Len(stack') # 0
    BY <1>4
  <2>. QED BY <2>1, LenOfEmpty
<1>6. OneCall'
  BY <1>4, OneFrame
<1>7. ErrorsHeld'
  <2>1. HeldAt(1)' = NoError /\ HeldAt(2)' = NoError
    BY <1>3, <1>4 DEF HeldAt
  <2>. QED BY <2>1, <1>2, <1>5 DEF ErrorsHeld, FirstErr
<1>8. /\ \A k \in StreamKeys : /\ fed'[k] = fed[k] + (IF k = key THEN 1 ELSE 0)
                               /\ Settled(k)' = Settled(k) + (IF k = key THEN 1 ELSE 0)
                               /\ Settled(k) \in Int /\ fed[k] \in Nat
      /\ \A k \in Keys : PendingLines(k)' = PendingLines(k) /\ PendingLines(k) \in Nat
                         /\ k \in StreamKeys /\ k # NoKey
      /\ NoKey \in StreamKeys
  <2>1. \A k \in StreamKeys : fed'[k] = fed[k] + (IF k = key THEN 1 ELSE 0)
    BY <1>3 DEF Inv, TypeOK
  <2>2. \A k \in StreamKeys : delivered'[k] = delivered[k] + (IF k = key THEN 1 ELSE 0)
    BY <1>3 DEF Inv, TypeOK
  <2>3. \A k \in StreamKeys : Settled(k)' = Settled(k) + (IF k = key THEN 1 ELSE 0)
    <3>1. ASSUME NEW k \in StreamKeys
          PROVE  Settled(k)' = Settled(k) + (IF k = key THEN 1 ELSE 0)
      <4>1. delivered[k] \in Int /\ lost[k] \in Int
        BY DEF Inv, TypeOK
      <4>2. delivered'[k] = delivered[k] + (IF k = key THEN 1 ELSE 0) /\ lost'[k] = lost[k]
        BY <1>2, <2>2
      <4>. QED BY <4>1, <4>2 DEF Settled
    <3>. QED BY <3>1
  <2>4. \A k \in Keys : PendingLines(k)' = PendingLines(k)
    BY <1>2 DEF PendingLines
  <2>. QED BY <2>1, <2>3, <2>4, LineCounts DEF StreamKeys
<1>9. \A k \in Keys : fed[k] = Settled(k) + PendingLines(k)
  <2>1. \A k \in Keys : OwedAt(1, k) = 0 /\ OwedAt(2, k) = 0
    BY <1>2 DEF OwedAt
  <2>. QED BY <2>1, <1>8 DEF Serial, Accounted
<1>10. fed[NoKey] = Settled(NoKey)
  BY DEF Serial, Accounted
<1>11. key \in Keys => groups[key] = Nil /\ PendingLines(key) = 0
  BY <1>1, FreeKeys DEF PendingLines
<1>12. Accounted'
  <2>1. \A k \in Keys : OwedAt(1, k)' = 0 /\ OwedAt(2, k)' = 0
    BY <1>3, <1>4 DEF OwedAt, Owed
  <2>. QED BY <2>1, <1>8, <1>9, <1>10 DEF Accounted
<1>13. Numbered'
  <2>1. ASSUME NEW k \in Keys, groups'[k] # Nil PROVE Follows(heap[groups[k]], Settled(k))'
    <3>1. groups[k] # Nil /\ k # key
      BY <2>1, <1>2, <1>11
    <3>2. Settled(k)' = Settled(k)
      BY <3>1, <1>8
    <3>. QED BY <3>1, <3>2, <1>2 DEF Serial, Numbered, Follows
  <2>2. fed[key] = Settled(key)
    BY <1>8, <1>9, <1>10, <1>11 DEF StreamKeys
  <2>3. em.entry.data + em.entry.lines = Settled(key)' + 1
    BY <2>2, <1>3, <1>8
  <2>4. FrameNumbered(stack[1])'
    <3>1. Settled(em.entry.key)' = Settled(key)'
      BY <1>3 DEF Settled
    <3>. QED BY <2>3, <3>1, <1>3, <1>4 DEF FrameNumbered, Settled
  <2>. QED BY <2>1, <2>4, <1>4 DEF Numbered
<1>14. Timely'
  BY <1>2, <1>3, <1>4 DEF Serial, Timely, SortedByTime, Linked, FrameTimely
<1>. QED BY <1>6, <1>7, <1>12, <1>13, <1>14 DEF Serial

\* The Flush of a source, called when no call is in progress.
LEMMA CallFlushSourceSerial ==
  ASSUME Inv, Serial, MaxDepth = 0, NEW s \in Sources, CallFlushSource(s)
  PROVE  Serial'
<1>1. PICK f \in Frame : f.op = "FlushKeys" /\ f.held = NoError /\ stack' = Push(stack, f)
  BY FlushSourceEnters
<1>2. /\ stack = <<>> /\ raised' = NoError
      /\ UNCHANGED <<heap, groups, order, fed, delivered, lost, clock>>
  BY NoReentry DEF CallFlushSource, BeginCall, aggregator, history
<1>3. Len(stack') = 1 /\ stack'[1] = f /\ OneCall' /\ ErrorsHeld'
  BY <1>1, <1>2, EnterSerial
<1>4. \A j : Settled(j)' = Settled(j) /\ PendingLines(j)' = PendingLines(j)
  BY <1>2 DEF Settled, PendingLines
<1>5. Accounted'
  <2>1. \A j : OwedAt(1, j) = 0 /\ OwedAt(2, j) = 0
    BY <1>2 DEF OwedAt
  <2>2. \A j : OwedAt(1, j)' = 0 /\ OwedAt(2, j)' = 0
    BY <1>1, <1>3 DEF OwedAt, Owed
  <2>. QED BY <2>1, <2>2, <1>2, <1>4 DEF Serial, Accounted
<1>6. Numbered'
  BY <1>1, <1>2, <1>3, <1>4 DEF Serial, Numbered, Follows, FrameNumbered
<1>7. Timely'
  BY <1>1, <1>2, <1>3 DEF Serial, Timely, SortedByTime, Linked, FrameTimely
<1>. QED BY <1>3, <1>5, <1>6, <1>7 DEF Serial

\* The Flush of a source is the only activation.
LEMMA AloneSource ==
  ASSUME Inv, OneCall, Running("FlushKeys")
  PROVE  Len(stack) = 1 /\ stack # <<>> /\ Top = stack[1] /\ Top.op = "FlushKeys" /\ Top.held \in Nat
<1>1. stack # <<>> /\ Top.op = "FlushKeys" /\ Top.held \in Nat
  BY NextStream
<1>2. Len(stack) = 1 /\ Top = stack[Len(stack)]
  BY <1>1, Shape
<1>. QED BY <1>1, <1>2

LEMMA FlushStreamSerial ==
  ASSUME Inv, Serial, FlushStream
  PROVE  Serial'
<1> DEFINE f == [Top EXCEPT !.left = Tail(@)]
           g == groups[Head(Top.left)]
<1>1. /\ Running("FlushKeys") /\ Top.held = NoError /\ Top.left # <<>>
      /\ UNCHANGED <<heap, clock, raised, fed, delivered, lost>>
      /\ \/ stack' = SetTop(f) /\ UNCHANGED aggregator
         \/ g \in Linked /\ Unlink(g) /\ stack' = Push(SetTop(f), FlushOf(g))
  BY FlushStreamCases DEF history
<1>2. Len(stack) = 1 /\ Top = stack[1] /\ stack # <<>>
  BY <1>1, AloneSource DEF Serial
<1>3. f \in Frame /\ f.op = "FlushKeys" /\ f.held = Top.held /\ Top.op = "FlushKeys"
  BY <1>1, NextStream
<1>4. Len(SetTop(f)) = 1 /\ SetTop(f)[1] = f
  BY <1>1, <1>2, StreamStack
<1> HIDE DEF f, g
<1>5. CASE stack' = SetTop(f) /\ UNCHANGED aggregator
  <2>1. Len(stack') = 1 /\ stack'[1] = f
    BY <1>4, <1>5
  <2>2. OneCall' /\ stack' # <<>> /\ \A i \in 1 .. Len(stack') : i = 1
    BY <2>1, OneFrame
  <2>3. ErrorsHeld'
    <3>1. HeldAt(1)' = HeldAt(1) /\ HeldAt(2)' = HeldAt(2)
      BY <1>2, <1>3, <2>1 DEF HeldAt
    <3>. QED BY <3>1, <2>2, <1>1, <1>2 DEF Serial, ErrorsHeld
  <2>4. (Accounted /\ Numbered /\ Timely)'
    <3>1. clock \in Int /\ clock' \in Int /\ clock <= clock'
      BY <1>1 DEF Inv, TypeOK
    <3>2. UNCHANGED <<heap, groups, order, fed, delivered, lost>>
      BY <1>1, <1>5 DEF aggregator
    <3>3. /\ Len(stack) \in Nat /\ Len(stack') \in Nat /\ Len(stack') <= Len(stack)
          /\ \A i \in 1 .. Len(stack) : ~(i > Len(stack'))
      BY <1>2, <2>1
    <3>4. ASSUME NEW i \in 1 .. Len(stack')
          PROVE  stack'[i].op = "FlushKeys" /\ stack[i].op = "FlushKeys"
      BY <2>1, <2>2, <1>2, <1>3
    <3>. QED BY <3>1, <3>2, <3>3, <3>4, QuietLines
  <2>. QED BY <2>2, <2>3, <2>4 DEF Serial
<1>6. CASE g \in Linked /\ Unlink(g) /\ stack' = Push(SetTop(f), FlushOf(g))
  <2>1. \E h \in Frame :
          /\ Len(stack) = 1 /\ h.op = stack[1].op
          /\ h.op \in {"AddAt", "FlushBefore", "Stop", "FlushKeys"}
          /\ h.held = stack[1].held
          /\ h.op # "AddAt" => h.held = NoError
          /\ h.op = "AddAt" =>
               /\ h.key = stack[1].key /\ h.when = stack[1].when /\ h.data = stack[1].data
               /\ h.pc \in Unplaced <=> stack[1].pc \in Unplaced
               /\ h.pc # "lookup"
               /\ h.pc \in {"start", "drain"} => groups'[h.key] = Nil
          /\ stack' = Push(SetTop(h), FlushOf(g))
          /\ raised' = raised
    <3>. USE <1>3
    <3>. WITNESS f \in Frame
    <3>. QED BY <1>1, <1>2, <1>6
  <2>. QED BY <1>1, <1>6, <2>1, StartFlushSerial
<1>. QED BY <1>1, <1>5, <1>6 DEF f, g

LEMMA FlushSourceReturnsSerial ==
  ASSUME Inv, Serial, FlushSourceReturns
  PROVE  Serial'
<1>1. /\ stack # <<>> /\ Top.op = "FlushKeys" /\ Return(Top.held)
      /\ UNCHANGED <<heap, groups, order, fed, delivered, lost, clock, raised>>
  BY DEF FlushSourceReturns, Running, KeepOutside, aggregator, history
<1>. QED BY <1>1, ReturnedSerial

\* What one call in progress makes of the errors, the numbers of the lines and the times
\* holds of the stage as it does of its inner aggregator (AddParsed, Flush).
THEOREM CriSerial ==
  ASSUME MaxDepth = 0
  PROVE  CriSpec => []Serial
<1>1. Inv /\ Runs /\ Serial /\ [CriNext]_vars => Serial'
  BY CriSteps, NextSerial, HandsOnSerial, CallFlushSourceSerial, FlushStreamSerial,
     FlushSourceReturnsSerial DEF OwnStep
<1>. QED BY <1>1, InitSerial, CriInvariance, RunsInvariance, PTL DEF CriSpec

\* When no call is in progress every line the stage was given was handed on, lost with a
\* run the next stage failed on, or is pending, those that never entered the inner
\* aggregator included, and the call returned the first error of the next stage.
THEOREM CriNothingIsMissing ==
  ASSUME MaxDepth = 0
  PROVE  CriSpec => [](NothingMissing /\ FirstErrorReturned)
<1>1. Serial => FirstErrorReturned
  BY DEF Serial, ErrorsHeld, FirstErrorReturned, Quiet
<1>. QED BY <1>1, AllAccountedFor, CriSerial, CriInvariance, PTL

\* What the stage hands on is counted as handed over.
LEMMA CriEmitsDeliver ==
  ASSUME Inv, [CriNext]_vars, Emits
  PROVE  LET e == Last(stack').entry
         IN  /\ e.key \in StreamKeys /\ e.lines \in Int
             /\ delivered' = [delivered EXCEPT ![e.key] = @ + e.lines]
             /\ lost' = lost
<1>1. CASE [Next]_vars
  BY <1>1, EmitsDeliver
<1>2. CASE HandsOn
  <2>1. PICK key \in StreamKeys, raw \in Lines, when \in Time : HandOn(key, raw, when)
    BY <1>2 DEF HandsOn
  <2>2. PICK em \in EmitFrame :
          /\ stack' = Push(stack, em) /\ em.entry.key = key /\ em.entry.lines = 1
          /\ delivered' = [delivered EXCEPT ![key] = @ + 1]
    BY <2>1, HandedOn
  <2>3. Last(stack') = em
    BY <2>2, LastOfPush DEF Frame, Inv, TypeOK
  <2>4. lost' = lost
    BY <2>1 DEF HandOn
  <2>5. PICK e : e = em.entry
    OBVIOUS
  <2>6. e = Last(stack').entry
    BY <2>3, <2>5
  <2>7. e.key \in StreamKeys /\ e.lines \in Int
    BY <2>2, <2>5
  <2>8. delivered' = [delivered EXCEPT ![e.key] = @ + e.lines]
    <3>1. e.key = key /\ e.lines = 1
      BY <2>2, <2>5
    <3>. QED BY <2>2, <3>1
  <2>. QED BY <2>4, <2>6, <2>7, <2>8
<1>. QED BY <1>1, <1>2, CriSteps, WhoHandsOn

\* The lines of a stream are handed on in the order they came in, whether they were
\* buffered, went around the buffer, or were cut loose from a run (AddParsed, rejoin).
THEOREM LinesInOrder ==
  ASSUME MaxDepth = 0
  PROVE  CriSpec => InOrder
<1>1. Inv /\ Inv' /\ Serial' /\ [CriNext]_vars =>
        [Emits => LET e == Last(stack').entry
                  IN  e.data = delivered[e.key] + lost[e.key] + 1]_vars
  BY CriEmitsDeliver, HandedInOrder
<1>. QED BY <1>1, CriSerial, CriInvariance, PTL DEF CriSpec, InOrder

\* FlushBefore of the stage leaves no stream behind that is as old as it asks for.
THEOREM CriFlushBeforeCompletes ==
  ASSUME MaxDepth = 0
  PROVE  CriSpec => FlushBeforeIsComplete
<1>1. Inv /\ Serial /\ [CriNext]_vars =>
        [(LoopReturns /\ Top.held = NoError) =>
           \A g \in Linked : ~(heap[g].when < Top.before)]_vars
  BY NoneIsStale
<1>. QED BY <1>1, CriSerial, CriInvariance, PTL DEF CriSpec, FlushBeforeIsComplete

\* An activation of the aggregator or of the stage that called something stays at the
\* bottom of the stack.
LEMMA BottomStays ==
  ASSUME NEW st \in Seq(Frame), Len(st) = 1, NEW f
  PROVE  Push(st, f)[1] = st[1] /\ Push(<<>>, f)[1] = f
BY DEF Push

\* A Flush of a source is not changed when the flush it called, or the next stage, returns.
LEMMA SourceReturns ==
  ASSUME Inv, stack # <<>>, NEW err \in Nat, stack' = Pop(err),
         stack' # <<>>, stack'[1].op = "FlushKeys"
  PROVE  /\ stack[1].op = "FlushKeys"
         /\ stack'[1].keys = stack[1].keys /\ stack'[1].left = stack[1].left
<1>1. PICK n \in Nat : n = Len(stack) - 1
  <2>1. PICK m \in Nat : m = Len(stack) /\ m \in 1 .. m
    BY TopFrame DEF Inv, TypeOK
  <2>2. m - 1 \in Nat
    BY <2>1
  <2>. QED BY <2>1, <2>2
<1>2. /\ Len(stack') = n /\ stack' \in Seq(Frame)
      /\ \A i \in 1 .. n : stack'[i] =
           IF i = n /\ stack[n].op # "emit"
           THEN [stack[n] EXCEPT !.held = FirstErr(@, err)] ELSE stack[i]
  BY <1>1, PopExact DEF Inv, TypeOK
<1>3. n # 0
  BY <1>2, LenOfEmpty
<1>4. 1 \in 1 .. n /\ stack[1] \in Frame
  BY <1>1, <1>3, ElementOfSeq DEF Inv, TypeOK
<1>5. PICK f \in Frame : f = stack[1]
  BY <1>4
<1>6. CASE n = 1 /\ f.op # "emit"
  <2>1. stack'[1] = [f EXCEPT !.held = FirstErr(@, err)]
    BY <1>2, <1>4, <1>5, <1>6
  <2>. QED BY <2>1, <1>5, <1>6, HeldFields
<1>7. CASE ~(n = 1 /\ f.op # "emit")
  BY <1>2, <1>4, <1>5, <1>7
<1>. QED BY <1>6, <1>7

\* What returns leaves the key map as it is.
LEMMA WhatReturns ==
  ASSUME Inv, AddReturns \/ LoopReturns \/ FlushDone \/ FlushAborts \/ Emitter
  PROVE  stack # <<>> /\ UNCHANGED groups /\ \E err \in Nat : stack' = Pop(err)
<1>1. ASSUME Emitter PROVE stack # <<>> /\ UNCHANGED groups /\ \E err \in Nat : stack' = Pop(err)
  BY <1>1 DEF Emitter, EmitterSucceeds, EmitterFails, EmitterReturns, Running, Return,
              aggregator, NoError, Inv, TypeOK
<1>2. ASSUME AddReturns PROVE stack # <<>> /\ UNCHANGED groups /\ \E err \in Nat : stack' = Pop(err)
  <2>1. stack # <<>> /\ UNCHANGED groups /\ stack' = Pop(Top.held) /\ Top.op = "AddAt"
    BY <1>2 DEF AddReturns, At, Running, Return, aggregator
  <2>. QED BY <2>1, TopFrame, AddFields DEF Inv, TypeOK
<1>3. ASSUME LoopReturns PROVE stack # <<>> /\ UNCHANGED groups /\ \E err \in Nat : stack' = Pop(err)
  <2>1. stack # <<>> /\ UNCHANGED groups /\ stack' = Pop(Top.held)
        /\ Top.op \in {"FlushBefore", "Stop"}
    BY <1>3 DEF LoopReturns, Looping, Running, Return, aggregator
  <2>. QED BY <2>1, TopFrame, FrameKinds DEF Inv, TypeOK, LoopFrame
<1>4. ASSUME FlushDone \/ FlushAborts
      PROVE  stack # <<>> /\ UNCHANGED groups /\ \E err \in Nat : stack' = Pop(err)
  <2>1. Running("flush") /\ UNCHANGED groups /\ stack' = Pop(Top.held)
    BY <1>4 DEF FlushDone, FlushAborts, Return, NoError
  <2>. QED BY <2>1, FlushingTop DEF Running
<1>. QED BY <1>1, <1>2, <1>3, <1>4

\* While AddAt or a loop is in progress no Flush of a source is.
LEMMA AddIsAlone ==
  ASSUME Inv, Serial,
         \/ Continue \/ Break \/ Miss \/ PassThrough \/ Starts \/ Drain \/ Claim \/ Evict
         \/ FlushFirst
  PROVE  stack'[1].op # "FlushKeys"
<1>1. ASSUME NEW pc \in {"lookup", "start", "drain", "evict", "return"}, Running("AddAt")
      PROVE  LET st == SetTop([Top EXCEPT !.pc = pc])
             IN  st \in Seq(Frame) /\ Len(st) = 1 /\ st[1].op = "AddAt"
  <2>1. Len(stack) = 1 /\ Top = stack[1] /\ Top.op = "AddAt"
    BY <1>1, AloneAdd
  <2>2. PICK st : st = SetTop([Top EXCEPT !.pc = pc])
    OBVIOUS
  <2>3. st \in Seq(Frame) /\ Len(st) = Len(stack) /\ \A i \in 1 .. Len(stack) : Same(st[i], stack[i])
    BY <1>1, <2>2, PcStep
  <2>4. st[1].op = "AddAt"
    BY <2>1, <2>3 DEF Same
  <2>. QED BY <2>1, <2>2, <2>3, <2>4
<1>2. CASE Continue \/ Break \/ Miss \/ PassThrough \/ Starts \/ Claim
  <2>1. Running("AddAt")
    <3>1. At("lookup") \/ At("start") \/ At("drain")
      <4>1. CASE Continue
        BY <4>1 DEF Continue
      <4>2. CASE Break \/ Miss
        BY <4>2 DEF Break, Miss
      <4>3. CASE PassThrough \/ Starts
        BY <4>3 DEF PassThrough, Starts
      <4>4. CASE Claim
        BY <4>4 DEF Claim
      <4>. QED BY <1>2, <4>1, <4>2, <4>3, <4>4
    <3>. QED BY <3>1 DEF At
  <2>2. PICK pc \in {"start", "drain", "evict", "return"} :
          LET st == SetTop([Top EXCEPT !.pc = pc])
          IN  stack' = st \/ \E f : stack' = Push(st, f)
    <3>1. CASE Continue
      BY <3>1 DEF Continue
    <3>2. CASE Claim
      BY <3>2 DEF Claim
    <3>3. CASE PassThrough
      BY <3>3 DEF PassThrough, EmitLine
    <3>4. CASE Break \/ Miss \/ Starts
      BY <3>4 DEF Break, Miss, Starts
    <3>. QED BY <1>2, <3>1, <3>2, <3>3, <3>4
  <2>3. PICK st : st = SetTop([Top EXCEPT !.pc = pc])
    OBVIOUS
  <2>4. st \in Seq(Frame) /\ Len(st) = 1 /\ st[1].op = "AddAt"
    BY <1>1, <2>1, <2>3
  <2>5. stack' = st \/ \E f : stack' = Push(st, f)
    BY <2>2, <2>3
  <2>. QED BY <2>4, <2>5, BottomStays
<1>3. CASE Drain \/ Evict
  <2>1. Running("AddAt") /\ \E f : stack' = Push(stack, f)
    BY <1>3 DEF Drain, Evict, At
  <2>2. stack \in Seq(Frame) /\ Len(stack) = 1 /\ stack[1].op = "AddAt"
    BY <2>1, AloneAdd DEF Inv, TypeOK
  <2>. QED BY <2>1, <2>2, BottomStays
<1>4. CASE FlushFirst
  <2>1. Looping /\ \E f : stack' = Push(stack, f)
    BY <1>4 DEF FlushFirst
  <2>2. stack \in Seq(Frame) /\ Len(stack) = 1 /\ stack[1].op \in {"FlushBefore", "Stop"}
    BY <2>1, AloneLoop DEF Inv, TypeOK
  <2>. QED BY <2>1, <2>2, BottomStays
<1>. QED BY <1>2, <1>3, <1>4

\* Another call begins only when no Flush of a source is in progress.
LEMMA CallIsAlone ==
  ASSUME Inv, MaxDepth = 0, Calls
  PROVE  stack'[1].op # "FlushKeys"
<1>1. ASSUME NEW f, MayCall, stack' = Push(stack, f), f.op # "FlushKeys"
      PROVE  stack'[1].op # "FlushKeys"
  BY <1>1, NoReentry DEF Push
<1>2. ASSUME NEW k \in Keys, NEW l \in Lines, NEW timed \in TimeModes, CallAdd(k, l, timed)
      PROVE  stack'[1].op # "FlushKeys"
  <2>1. PICK f : f = [op |-> "AddAt", pc |-> "lookup", key |-> k, line |-> l,
                      when |-> When(timed), data |-> fed[k] + 1, held |-> NoError]
    OBVIOUS
  <2>. QED BY <1>1, <1>2, <2>1 DEF CallAdd, CallAddAt
<1>3. ASSUME NEW l \in Lines, NEW timed \in TimeModes, CallAddBypass(l, timed)
      PROVE  stack'[1].op # "FlushKeys"
  <2>1. MayCall /\ \E e, slot : stack' = Push(stack, EmitOf(e, slot))
    BY <1>3 DEF CallAddBypass, CallAddAtBypass, EmitLine
  <2>2. \A e, slot : EmitOf(e, slot).op # "FlushKeys"
    BY DEF EmitOf
  <2>. QED BY <1>1, <2>1, <2>2
<1>4. ASSUME NEW k \in Keys, CallFlush(k) PROVE stack'[1].op # "FlushKeys"
  <2>1. MayCall /\ stack' = Push(stack, FlushOf(groups[k])) /\ FlushOf(groups[k]).op # "FlushKeys"
    BY <1>4 DEF CallFlush, FlushOf
  <2>. QED BY <1>1, <2>1
<1>5. ASSUME NEW t, CallFlushBefore(t) PROVE stack'[1].op # "FlushKeys"
  <2>1. PICK f : f = [op |-> "FlushBefore", before |-> t, held |-> NoError]
    OBVIOUS
  <2>. QED BY <1>1, <1>5, <2>1 DEF CallFlushBefore
<1>6. ASSUME CallStop PROVE stack'[1].op # "FlushKeys"
  <2>1. PICK f : f = [op |-> "Stop", before |-> Forever, held |-> NoError]
    OBVIOUS
  <2>. QED BY <1>1, <1>6, <2>1 DEF CallStop
<1>. QED BY <1>2, <1>3, <1>4, <1>5, <1>6 DEF Calls

\* A flush that emits leaves what called it as it is.
LEMMA EmitsAbove ==
  ASSUME Inv, FlushPrefix \/ FlushLine, stack'[1].op = "FlushKeys"
  PROVE  stack # <<>> /\ stack'[1] = stack[1] /\ UNCHANGED groups
<1>1. Running("flush") /\ UNCHANGED groups /\ \E e, at : EmitFromGroup(e, at)
  <2>1. Running("flush") /\ \E e, at : EmitFromGroup(e, at)
    BY DEF FlushPrefix, FlushLine
  <2>2. PICK e, at : EmitFromGroup(e, at)
    BY <2>1
  <2>3. UNCHANGED groups
    BY <2>2 DEF EmitFromGroup, aggregator
  <2>. QED BY <2>1, <2>3
<1>2. stack # <<>> /\ Top.op = "flush" /\ Top \in FlushFrame /\ stack \in Seq(Frame)
  BY <1>1, FlushingTop DEF Running
<1>3. PICK e, at : EmitFromGroup(e, at)
  BY <1>1
<1>4. PICK h : h = [Top EXCEPT !.at = at, !.sent = @ + e.lines]
  OBVIOUS
<1>5. h.op = "flush"
  BY <1>2, <1>4 DEF FlushFrame
<1>6. Len(stack) \in 1 .. Len(stack) /\ Len(stack) \in Nat
  BY <1>2, TopFrame
<1>7. stack'[1] = IF Len(stack) = 1 THEN h ELSE stack[1]
  <2>1. stack' = Push(SetTop(h), EmitOf(e, 0))
    BY <1>3, <1>4 DEF EmitFromGroup
  <2>. QED BY <1>2, <1>6, <2>1 DEF SetTop, Push
<1>. QED BY <1>1, <1>2, <1>5, <1>7

\* A Flush of a source stays what it is, and the key map too, while the flush it called
\* or the next stage has the turn.
LEMMA SourceStays ==
  ASSUME Inv, Serial, MaxDepth = 0, [Next]_vars, stack' # <<>>, stack'[1].op = "FlushKeys"
  PROVE  /\ stack # <<>> /\ stack[1].op = "FlushKeys" /\ UNCHANGED groups
         /\ stack'[1].keys = stack[1].keys /\ stack'[1].left = stack[1].left
<1>1. CASE UNCHANGED vars \/ Tick
  BY <1>1 DEF vars, Tick, aggregator
<1>2. CASE AddReturns \/ LoopReturns \/ FlushDone \/ FlushAborts \/ Emitter
  BY <1>2, WhatReturns, SourceReturns
<1>3. CASE FlushPrefix \/ FlushLine
  BY <1>3, EmitsAbove
<1>. QED BY <1>1, <1>2, <1>3, AddIsAlone, CallIsAlone
     DEF Next, Machine, AddAt, FlushLoop, Flush

\* The Flush of a source is done with a stream when it goes on to the next.
LEMMA StreamCovered ==
  ASSUME Inv, Serial, Serial', Covered, FlushStream
  PROVE  Covered'
<1>1. PICK f : f = [Top EXCEPT !.left = Tail(@)]
  OBVIOUS
<1>2. PICK k : k = Head(Top.left)
  OBVIOUS
<1>3. /\ Running("FlushKeys") /\ Top.left # <<>>
      /\ \/ groups[k] = Nil /\ stack' = SetTop(f) /\ UNCHANGED groups
         \/ groups[k] \in Linked /\ Unlink(groups[k]) /\ stack' = Push(SetTop(f), FlushOf(groups[k]))
  BY <1>1, <1>2, FlushStreamCases DEF aggregator
<1>4. /\ k \in Keys /\ Top.keys \in SUBSET Keys /\ f.keys = Top.keys /\ f.op = "FlushKeys"
      /\ \A j \in ToSet(Top.left) : j = k \/ j \in ToSet(f.left)
  BY <1>1, <1>2, <1>3, NextStream
<1>5. Len(stack) = 1 /\ Top = stack[1] /\ Top.op = "FlushKeys"
  BY <1>3, AloneSource DEF Serial
<1>6. SetTop(f) \in Seq(Frame) /\ Len(SetTop(f)) = 1 /\ SetTop(f)[1] = f
  BY <1>1, <1>3, <1>5, StreamStack
<1>7. \A j \in f.keys : j \in ToSet(Top.left) \/ groups[j] = Nil
  BY <1>4, <1>5 DEF Covered
<1>8. groups'[k] = Nil /\ \A j \in Keys : groups[j] = Nil => groups'[j] = Nil
  <2>1. CASE groups[k] = Nil /\ UNCHANGED groups
    BY <2>1
  <2>2. CASE groups[k] \in Linked /\ Unlink(groups[k])
    <3>1. PICK g \in Linked : g = groups[k]
      BY <2>2
    <3>2. \A j \in Keys : groups'[j] = IF j = heap[g].key THEN Nil ELSE groups[j]
      BY <2>2, <3>1, UnlinkProperties
    <3>3. heap[g].key = k
      <4>1. groups[k] # Nil
        BY <3>1, ListFacts, NamesAssumption
      <4>. QED BY <1>4, <3>1, <4>1 DEF Inv, Mapped
    <3>. QED BY <1>4, <3>2, <3>3
  <2>. QED BY <1>3, <2>1, <2>2
<1>9. \A j \in f.keys : j \in ToSet(f.left) \/ groups'[j] = Nil
  BY <1>4, <1>7, <1>8
<1>10. ASSUME NEW i \in 1 .. Len(stack'), stack'[i].op = "FlushKeys" PROVE stack'[i] = f
  <2>1. PICK st \in Seq(Frame) : st = SetTop(f)
    BY <1>6
  <2>2. Len(st) = 1 /\ st[1] = f
    BY <1>6, <2>1
  <2>3. i = 1
    BY <1>1, <1>10, <2>1 DEF Serial, OneCall, InPlace
  <2>4. stack' = st \/ \E x : stack' = Push(st, x)
    BY <1>3, <2>1
  <2>. QED BY <2>2, <2>3, <2>4, BottomStays
<1>. QED BY <1>9, <1>10 DEF Covered

\* A Flush has no group left under the keys it is done with.
LEMMA NextCovered ==
  ASSUME Inv, Serial, Serial', Runs, Covered, MaxDepth = 0, [CriNext]_vars
  PROVE  Covered'
<1>1. \A i \in 1 .. Len(stack') : stack'[i].op = "FlushKeys" => i = 1 /\ stack' # <<>>
  BY DEF Serial, OneCall, InPlace
<1>2. CASE [Next]_vars
  <2>1. ASSUME NEW i \in 1 .. Len(stack'), stack'[i].op = "FlushKeys",
               NEW k \in stack'[i].keys
        PROVE  k \in ToSet(stack'[i].left) \/ groups'[k] = Nil
    <3>1. i = 1 /\ stack' # <<>>
      BY <1>1, <2>1
    <3>2. /\ stack # <<>> /\ stack[1].op = "FlushKeys" /\ UNCHANGED groups
          /\ stack'[1].keys = stack[1].keys /\ stack'[1].left = stack[1].left
      BY <1>2, <2>1, <3>1, SourceStays
    <3>3. 1 \in 1 .. Len(stack)
      BY <3>2, TopFrame DEF Inv, TypeOK
    <3>. QED BY <2>1, <3>1, <3>2, <3>3 DEF Covered
  <2>. QED BY <2>1 DEF Covered
<1>3. ASSUME HandsOn PROVE Covered'
  <2>1. PICK key \in StreamKeys, raw \in Lines, when \in Time : HandOn(key, raw, when) /\ MayCall
    BY <1>3 DEF HandsOn
  <2>2. PICK em : stack' = Push(stack, em) /\ em.op = "emit"
    BY <2>1, HandedOn
  <2>3. stack'[1].op = "emit"
    BY <2>1, <2>2, NoReentry DEF Push
  <2>. QED BY <1>1, <2>3 DEF Covered
<1>4. ASSUME NEW s \in Sources, CallFlushSource(s) PROVE Covered'
  <2>1. PICK f \in Frame : (\A k \in f.keys : k \in ToSet(f.left)) /\ stack' = Push(stack, f)
    BY <1>4, FlushSourceEnters
  <2>2. stack'[1] = f
    BY <1>4, <2>1, NoReentry DEF CallFlushSource, Push
  <2>. QED BY <1>1, <2>1, <2>2 DEF Covered
<1>5. ASSUME FlushSourceReturns PROVE Covered'
  <2>1. /\ Running("FlushKeys") /\ Top.held \in Nat /\ stack # <<>> /\ stack' = Pop(Top.held)
        /\ UNCHANGED groups
    BY <1>5, NextStream DEF FlushSourceReturns, Return, aggregator
  <2>2. Len(stack) = 1
    BY <2>1, AloneSource DEF Serial
  <2>3. Len(stack') = 0
    BY <2>1, <2>2, PopExact DEF Inv, TypeOK
  <2>. QED BY <2>3 DEF Covered
<1>. QED BY <1>2, <1>3, <1>4, <1>5, StreamCovered, CriSteps DEF OwnStep

\* When Flush of a source returns no error neither of its streams is pending: each was
\* flushed, and nothing was buffered since.  Whatever it returns, each line of the streams
\* was handed on, lost, or is pending (Flush, cri.go).
THEOREM FlushCovers ==
  ASSUME MaxDepth = 0
  PROVE  CriSpec => FlushCoversStreams
<1>1. Init => Covered
  BY DEF Init, Covered
<1>2. Inv /\ Serial /\ Serial' /\ Runs /\ Covered /\ [CriNext]_vars => Covered'
  BY NextCovered
<1>3. Inv /\ Serial /\ Covered =>
        [FlushSourceReturns =>
           \A k \in Top.keys :
             /\ Top.held = NoError => groups[k] = Nil
             /\ fed[k] = delivered[k] + lost[k]
                          + (IF groups[k] = Nil THEN 0 ELSE heap[groups[k]].total)]_vars
  <2>1. ASSUME Inv, Serial, Covered, FlushSourceReturns, NEW k \in Top.keys
        PROVE  /\ Top.held = NoError => groups[k] = Nil
               /\ fed[k] = delivered[k] + lost[k]
                            + (IF groups[k] = Nil THEN 0 ELSE heap[groups[k]].total)
    <3>1. Running("FlushKeys") /\ (Top.held = NoError => Top.left = <<>>)
      BY <2>1 DEF FlushSourceReturns
    <3>2. Len(stack) = 1 /\ Top = stack[1] /\ Top.op = "FlushKeys"
      BY <2>1, <3>1, AloneSource DEF Serial
    <3>3. ASSUME Top.held = NoError PROVE groups[k] = Nil
      <4>1. k \notin ToSet(Top.left)
        BY <3>1, <3>3 DEF ToSet
      <4>. QED BY <2>1, <3>2, <4>1 DEF Covered
    <3>4. k \in Keys
      BY <2>1, <3>1, NextStream
    <3>5. OwedAt(1, k) = 0 /\ OwedAt(2, k) = 0
      BY <3>2 DEF OwedAt, Owed
    <3>6. fed[k] = Settled(k) + PendingLines(k) + OwedAt(1, k) + OwedAt(2, k)
      BY <2>1, <3>4 DEF Serial, Accounted
    <3>7. delivered[k] \in Int /\ lost[k] \in Int /\ PendingLines(k) \in Int
      <4>1. delivered[k] \in Int /\ lost[k] \in Int
        BY <2>1, <3>4 DEF Inv, TypeOK, StreamKeys
      <4>2. PendingLines(k) \in Int
        <5>1. CASE groups[k] = Nil
          BY <5>1 DEF PendingLines
        <5>2. CASE groups[k] # Nil
          <6>1. groups[k] \in Refs
            BY <2>1, <3>4, <5>2 DEF Inv, TypeOK
          <6>2. heap[groups[k]].total \in Nat
            BY <2>1, <6>1 DEF Inv, TypeOK, Group
          <6>. QED BY <5>2, <6>2 DEF PendingLines
        <5>. QED BY <5>1, <5>2
      <4>. QED BY <4>1, <4>2
    <3>8. fed[k] = delivered[k] + lost[k] + PendingLines(k)
      BY <3>5, <3>6, <3>7 DEF Settled
    <3>. QED BY <3>3, <3>8 DEF PendingLines
  <2>. QED BY <2>1
<1>. QED BY <1>1, <1>2, <1>3, CriSerial, CriInvariance, RunsInvariance, PTL
     DEF CriSpec, FlushCoversStreams

\* A call that hands over what is buffered, and whose hand-over has failed, holds the
\* error, or the flush it called does: both only have to return.
LEMMA FailedHolds ==
  ASSUME Inv, Serial, stack # <<>>, stack[1].op \in FlushCalls, raised # NoError
  PROVE  Top.op \in FlushCalls \union {"flush"} /\ Top.held # NoError
<1>1. PICK n \in Nat : n = Len(stack) /\ n \in 1 .. n /\ Top = stack[n]
  BY TopFrame DEF Inv, TypeOK
<1>2. n <= 3 /\ \A i \in 1 .. n : InPlace(i)
  BY <1>1 DEF Serial, OneCall
<1>3. raised = FirstErr(HeldAt(1), HeldAt(2))
  BY DEF Serial, ErrorsHeld
<1>4. stack[1].op \in {"FlushKeys", "FlushBefore", "Stop"}
  BY DEF FlushCalls
<1>5. HeldAt(1) = stack[1].held
  BY <1>1, <1>4 DEF HeldAt
<1>6. CASE n = 1
  <2>1. HeldAt(2) = NoError
    BY <1>1, <1>6 DEF HeldAt
  <2>. QED BY <1>1, <1>3, <1>5, <1>6, <2>1 DEF FirstErr
<1>7. CASE n = 2
  <2>1. 2 \in 1 .. n /\ Top = stack[2] /\ InPlace(2)
    BY <1>1, <1>2, <1>7
  <2>2. stack[2] \in Frame
    BY <1>1, <1>7, ElementOfSeq DEF Inv, TypeOK
  <2>3. stack[2].op = "flush"
    <3>1. stack[2].op \in {"flush", "emit", "AddAt", "FlushBefore", "Stop", "FlushKeys"}
      BY <2>2, FrameKinds
    <3>2. stack[2].op # "emit"
      <4>1. ASSUME stack[2].op = "emit" PROVE FALSE
        <5>1. stack[1].op = "flush" \/ stack[1].op = "AddAt"
          BY <2>1, <4>1 DEF InPlace
        <5>. QED BY <1>4, <5>1
      <4>. QED BY <4>1
    <3>. QED BY <2>1, <3>1, <3>2 DEF InPlace
  <2>4. stack[1].held = NoError
    BY <1>4, <2>1, <2>3 DEF InPlace
  <2>5. HeldAt(2) = stack[2].held
    BY <1>1, <1>7, <2>3 DEF HeldAt
  <2>. QED BY <1>3, <1>5, <2>1, <2>3, <2>4, <2>5 DEF FirstErr
<1>8. CASE n = 3
  <2>1. 2 \in 1 .. n /\ 3 \in 1 .. n /\ InPlace(2) /\ InPlace(3)
    BY <1>2, <1>8
  <2>2. stack[3] \in Frame
    BY <1>1, <1>8, ElementOfSeq DEF Inv, TypeOK
  <2>3. stack[3].op \in {"flush", "emit", "AddAt", "FlushBefore", "Stop", "FlushKeys"}
    BY <2>2, FrameKinds
  <2>4. stack[3].op = "emit"
    BY <2>1, <2>3 DEF InPlace
  <2>5. stack[2].op = "flush" /\ stack[2].held = NoError
    BY <2>1, <2>4 DEF InPlace
  <2>6. stack[1].held = NoError
    BY <1>4, <2>1, <2>5 DEF InPlace
  <2>7. HeldAt(2) = NoError
    BY <1>1, <1>8, <2>5 DEF HeldAt
  <2>. QED BY <1>3, <1>5, <2>6, <2>7 DEF FirstErr
<1>. QED BY <1>1, <1>2, <1>6, <1>7, <1>8

\* A Flush, FlushBefore or Stop whose hand-over failed touches nothing but the run at hand.
LEMMA FailedTouchesNothing ==
  ASSUME Inv, Serial, MaxDepth = 0, [CriNext]_vars,
         stack # <<>>, stack[1].op \in FlushCalls, raised # NoError
  PROVE  /\ UNCHANGED <<groups, order, bytes, fed, delivered>>
         /\ \A k \in Keys : groups[k] # Nil =>
              heap'[groups[k]] = heap[groups[k]] /\ lost'[k] = lost[k]
<1>1. Top.op \in FlushCalls \union {"flush"} /\ Top.held # NoError
  BY FailedHolds
<1>2. Top.op \in {"FlushKeys", "FlushBefore", "Stop", "flush"}
  BY <1>1 DEF FlushCalls
<1>3. ~Outside /\ ~Running("emit") /\ ~Running("AddAt")
  BY <1>2 DEF Outside, Running
<1>4. ~MayCall
  BY <1>3 DEF MayCall
<1>5. ~Tick /\ ~Emitter
  BY <1>3 DEF Tick, Emitter, EmitterSucceeds, EmitterFails, EmitterReturns
<1>6. ~Calls
  BY <1>4 DEF Calls, CallAdd, CallAddAt, CallAddBypass, CallAddAtBypass, CallFlush,
              CallFlushBefore, CallStop
<1>7. ~AddAt
  BY <1>3 DEF AddAt, Continue, Break, Miss, PassThrough, Starts, Drain, Claim, Evict,
              AddReturns, At
<1>8. ~HandsOn /\ ~(\E s \in Sources : CallFlushSource(s)) /\ ~FlushStream
  BY <1>1, <1>4 DEF HandsOn, CallFlushSource, FlushStream
<1>9. ~FlushFirst /\ ~FlushPrefix /\ ~FlushLine /\ ~FlushDone
  BY <1>1 DEF FlushFirst, FlushPrefix, FlushLine, FlushDone
<1>10. UNCHANGED vars \/ LoopReturns \/ FlushSourceReturns \/ FlushAborts
  BY <1>5, <1>6, <1>7, <1>8, <1>9, CriSteps DEF OwnStep, Next, Machine, FlushLoop, Flush
<1>11. CASE UNCHANGED vars \/ LoopReturns \/ FlushSourceReturns
  BY <1>11 DEF vars, aggregator, history, LoopReturns, FlushSourceReturns
<1>12. CASE FlushAborts
  <2>1. Running("flush")
    BY <1>12 DEF FlushAborts
  <2>2. PICK r : r = Top.ref
    OBVIOUS
  <2>3. /\ UNCHANGED <<groups, order, bytes, fed, delivered>>
        /\ heap' = [heap EXCEPT ![r] = Blank]
        /\ \E n : lost' = [lost EXCEPT ![heap[r].key] = n]
    BY <1>12, <2>2 DEF FlushAborts
  <2>4. groups[heap[r].key] = Nil
    <3>1. Len(stack) \in 1 .. Len(stack) /\ Top = stack[Len(stack)] /\ Top.op = "flush"
      BY <2>1, FlushingTop
    <3>. QED BY <2>2, <3>1 DEF Serial, Numbered, FrameNumbered
  <2>5. ASSUME NEW k \in Keys, groups[k] # Nil
        PROVE  heap'[groups[k]] = heap[groups[k]] /\ lost'[k] = lost[k]
    <3>1. k # heap[r].key
      BY <2>4, <2>5
    <3>2. groups[k] \in Refs /\ heap[groups[k]].key = k
      BY <2>5 DEF Inv, Mapped, TypeOK
    <3>3. groups[k] # r
      BY <3>1, <3>2
    <3>4. k \in DOMAIN lost /\ groups[k] \in DOMAIN heap
      BY <2>5, <3>2 DEF Inv, TypeOK, StreamKeys
    <3>. QED BY <2>3, <3>1, <3>3, <3>4
  <2>. QED BY <2>3, <2>5
<1>. QED BY <1>10, <1>11, <1>12

\* Once a hand-over has failed, a Flush, FlushBefore or Stop of the stage takes nothing more
\* out of the buffer and hands nothing more on: what it had not reached is left for a retry,
\* with every line (Flush, cri.go; FlushBefore, Stop and flush, multiline.go).
THEOREM FailedFlushIsOver ==
  ASSUME MaxDepth = 0
  PROVE  CriSpec => FailedFlushStops
<1>1. Inv /\ Serial /\ [CriNext]_vars =>
        [(stack # <<>> /\ stack[1].op \in FlushCalls /\ raised # NoError) =>
           /\ UNCHANGED <<groups, order, bytes, fed, delivered>>
           /\ \A k \in Keys : groups[k] # Nil =>
                heap'[groups[k]] = heap[groups[k]] /\ lost'[k] = lost[k]]_vars
  BY FailedTouchesNothing
<1>. QED BY <1>1, CriSerial, CriInvariance, PTL DEF CriSpec, FailedFlushStops
=============================================================================
