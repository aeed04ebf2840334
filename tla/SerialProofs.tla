---------------------------- MODULE SerialProofs ----------------------------
(***************************************************************************)
(* Theorems about an aggregator whose emitter does not call back (MaxDepth *)
(* = 0), for every matcher, set of keys and lines, value of the caps and   *)
(* number of emitter failures.                                             *)
(*                                                                         *)
(* No line is lost track of, entries come out in order, the first error is *)
(* returned, and the list is in the order of its groups' times. Serial,    *)
(* together with the Inv of MultilineProofs, is inductive.                 *)
(*                                                                         *)
(* The aggregator implements the line log: each action of Multiline is a   *)
(* step of LineLog under the mapping of MultilineLog, or leaves the log as *)
(* it is.                                                                  *)
(***************************************************************************)
EXTENDS SerialInv, MultilineProofs, FiniteSetTheorems
-----------------------------------------------------------------------------
(* The call stack.                                                          *)

\* A call is made only when none is in progress.
LEMMA NoReentry ==
  ASSUME Inv, MaxDepth = 0, MayCall
  PROVE  stack = <<>>
<1> SUFFICES ASSUME stack # <<>> PROVE FALSE
  OBVIOUS
<1>1. Len(stack) \in Nat /\ Len(stack) \in 1 .. Len(stack) /\ Top = stack[Len(stack)]
      /\ Top.op = "emit" /\ DOMAIN stack = 1 .. Len(stack)
  BY TopFrame, LenProperties DEF Inv, TypeOK, MayCall, Outside
<1>2. Len(stack) \in Emitting /\ Emitting \subseteq 1 .. Len(stack)
  BY <1>1 DEF Emitting
<1>3. IsFiniteSet(Emitting)
  <2>1. IsFiniteSet(1 .. Len(stack))
    BY <1>1, FS_Interval
  <2>. QED BY <2>1, <1>2, FS_Subset
<1>4. Cardinality(Emitting) \in Nat /\ Cardinality(Emitting) # 0
  BY <1>2, <1>3, FS_CardinalityType, FS_EmptySet
<1>. QED BY <1>4 DEF MayCall

\* Which activations there can be, by the one whose turn it is.
LEMMA Shape ==
  ASSUME Inv, OneCall, stack # <<>>
  PROVE  /\ Len(stack) \in {1, 2, 3} /\ Top = stack[Len(stack)]
         /\ \A i \in 1 .. Len(stack) : stack[i] \in Frame
         /\ Top.op \in {"AddAt", "FlushBefore", "Stop", "FlushKeys"} => Len(stack) = 1
         /\ Top.op = "flush" => \/ Len(stack) = 1
                                \/ /\ Len(stack) = 2
                                   /\ stack[1].op \in {"AddAt", "FlushBefore", "Stop", "FlushKeys"}
         /\ Top.op = "emit" =>
              \/ Len(stack) = 1
              \/ /\ Len(stack) = 2 /\ stack[1].op = "AddAt" /\ stack[1].pc = "return"
              \/ /\ Len(stack) = 2 /\ stack[1].op = "flush" /\ stack[1].held = NoError
              \/ /\ Len(stack) = 3 /\ stack[2].op = "flush" /\ stack[2].held = NoError
                 /\ stack[1].op \in {"AddAt", "FlushBefore", "Stop", "FlushKeys"}
<1>1. /\ Len(stack) \in Nat /\ Len(stack) \in 1 .. Len(stack) /\ Top = stack[Len(stack)]
      /\ \A i \in 1 .. Len(stack) : stack[i] \in Frame
  BY TopFrame, ElementOfSeq DEF Inv, TypeOK
<1>2. \A i \in 1 .. Len(stack) : stack[i].op \in {"flush", "emit", "AddAt", "FlushBefore", "Stop", "FlushKeys"}
  BY <1>1, FrameKinds
<1>3. Len(stack) \in {1, 2, 3}
  <2>1. Len(stack) <= 3
    BY DEF OneCall, InPlace
  <2>2. \A n \in Nat : n \in 1 .. n /\ n <= 3 => n \in {1, 2, 3}
    OBVIOUS
  <2>. QED BY <1>1, <2>1, <2>2
<1>4. Top.op \in {"AddAt", "FlushBefore", "Stop", "FlushKeys"} => Len(stack) = 1
  BY <1>1 DEF OneCall, InPlace
<1>5. Top.op = "flush" => \/ Len(stack) = 1
                          \/ /\ Len(stack) = 2
                             /\ stack[1].op \in {"AddAt", "FlushBefore", "Stop", "FlushKeys"}
  <2>1. Len(stack) > 1 /\ Top.op = "flush" =>
          Len(stack) = 2 /\ stack[1].op \in {"AddAt", "FlushBefore", "Stop", "FlushKeys"}
    BY <1>1 DEF OneCall, InPlace
  <2>. QED BY <2>1, <1>3
<1>6. ASSUME Top.op = "emit"
      PROVE  \/ Len(stack) = 1
             \/ /\ Len(stack) = 2 /\ stack[1].op = "AddAt" /\ stack[1].pc = "return"
             \/ /\ Len(stack) = 2 /\ stack[1].op = "flush" /\ stack[1].held = NoError
             \/ /\ Len(stack) = 3 /\ stack[2].op = "flush" /\ stack[2].held = NoError
                /\ stack[1].op \in {"AddAt", "FlushBefore", "Stop", "FlushKeys"}
  <2>1. CASE Len(stack) = 2
    BY <2>1, <1>1, <1>6 DEF OneCall, InPlace
  <2>2. CASE Len(stack) = 3
    <3>1. stack[2].op = "flush" /\ stack[2].held = NoError
      BY <2>2, <1>1, <1>6 DEF OneCall, InPlace
    <3>. QED BY <3>1, <2>2, <1>1 DEF OneCall, InPlace
  <2>. QED BY <2>1, <2>2, <1>3
<1>. QED BY <1>1, <1>3, <1>4, <1>5, <1>6
-----------------------------------------------------------------------------
(* Steps that leave the groups alone.                                       *)

\* What an activation owes, by its kind.
LEMMA OwedByKind ==
  ASSUME NEW f, NEW k
  PROVE  /\ f.op = "AddAt" => Owed(f, k) = IF f.key = k /\ f.pc \in Unplaced THEN 1 ELSE 0
         /\ f.op = "flush" => Owed(f, k) = IF heap[f.ref].key = k THEN heap[f.ref].total - f.sent ELSE 0
         /\ f.op \in {"emit", "FlushBefore", "Stop", "FlushKeys"} => Owed(f, k) = 0
BY DEF Owed

\* A step that leaves the groups, the lines and the times of all activations as they
\* are.  An AddAt may go on to a block where its key is known to be free.
LEMMA QuietLines ==
  ASSUME Inv, Serial, UNCHANGED <<heap, groups, order, fed, delivered, lost>>,
         clock' \in Int, clock <= clock', Len(stack) \in Nat, Len(stack') \in Nat,
         Len(stack') <= Len(stack),
         \A i \in 1 .. Len(stack') :
           /\ stack'[i].op = stack[i].op
           /\ stack[i].op = "flush" => stack'[i].ref = stack[i].ref /\ stack'[i].sent = stack[i].sent
           /\ stack[i].op = "emit" => stack'[i] = stack[i]
           /\ stack[i].op = "AddAt" =>
                /\ stack'[i].key = stack[i].key /\ stack'[i].when = stack[i].when
                /\ stack'[i].data = stack[i].data
                /\ stack'[i].pc \in Unplaced <=> stack[i].pc \in Unplaced
                /\ stack'[i].pc \in {"start", "drain"} => groups[stack[i].key] = Nil,
         \A i \in 1 .. Len(stack) : i > Len(stack') =>
           \A k \in Keys : Owed(stack[i], k) = 0
  PROVE  (Accounted /\ Numbered /\ Timely)'
<1>1. \A k : Settled(k)' = Settled(k) /\ PendingLines(k)' = PendingLines(k)
  BY DEF Settled, PendingLines
<1>2. ASSUME NEW i \in {1, 2}, NEW k \in Keys
      PROVE  OwedAt(i, k)' = OwedAt(i, k)
  <2>1. CASE i \in 1 .. Len(stack')
    <3>1. stack'[i].op = stack[i].op /\ Owed(stack[i], k)' = Owed(stack[i], k)
      BY <2>1 DEF Owed
    <3>2. i \in 1 .. Len(stack)
      BY <2>1
    <3>. QED BY <2>1, <3>1, <3>2 DEF OwedAt
  <2>2. CASE i \notin 1 .. Len(stack')
    <3>1. OwedAt(i, k)' = 0
      BY <2>2 DEF OwedAt
    <3>2. OwedAt(i, k) = 0
      <4>1. i \in 1 .. Len(stack) => i > Len(stack')
        BY <2>2
      <4>. QED BY <4>1 DEF OwedAt
    <3>. QED BY <3>1, <3>2
  <2>. QED BY <2>1, <2>2
<1>3. Accounted'
  BY <1>1, <1>2 DEF Serial, Accounted
<1>4. Numbered'
  <2>1. \A k \in Keys : groups'[k] # Nil => Follows(heap[groups[k]], Settled(k))'
    BY <1>1 DEF Serial, Numbered, Follows
  <2>2. ASSUME NEW i \in 1 .. Len(stack')
        PROVE  FrameNumbered(stack[i])'
    <3>1. i \in 1 .. Len(stack)
      OBVIOUS
    <3>2. FrameNumbered(stack[i])
      BY <3>1 DEF Serial, Numbered
    <3>3. CASE stack[i].op = "AddAt"
      BY <3>2, <3>3 DEF FrameNumbered
    <3>4. CASE stack[i].op = "flush"
      BY <1>1, <3>2, <3>4 DEF FrameNumbered, Follows
    <3>5. CASE stack[i].op = "emit"
      BY <1>1, <3>2, <3>5 DEF FrameNumbered
    <3>6. CASE stack[i].op \notin {"AddAt", "flush", "emit"}
      BY <3>6 DEF FrameNumbered
    <3>. QED BY <3>3, <3>4, <3>5, <3>6
  <2>. QED BY <2>1, <2>2 DEF Numbered
<1>5. Timely'
  <2>1. SortedByTime'
    BY DEF Serial, Timely, SortedByTime
  <2>2. Linked' = Linked /\ clock \in Int /\ \A g \in Linked : heap[g].when \in Int
    <3>1. \A g \in Linked : g \in Refs
      BY ElementOfSeq, LenProperties DEF Inv, TypeOK, Linked, ToSet
    <3>2. \A g \in Refs : heap[g].when \in Int
      BY DEF Inv, TypeOK, Group, Time
    <3>. QED BY <3>1, <3>2 DEF Inv, TypeOK, Linked
  <2>3. \A g \in Linked' : heap'[g].when <= clock'
    <3>1. \A g \in Linked : heap[g].when <= clock
      BY DEF Serial, Timely
    <3>. QED BY <2>2, <3>1
  <2>4. ASSUME NEW i \in 1 .. Len(stack')
        PROVE  FrameTimely(stack[i])'
    <3>1. i \in 1 .. Len(stack) /\ stack[i] \in Frame
      BY ElementOfSeq DEF Inv, TypeOK
    <3>2. FrameTimely(stack[i])
      BY <3>1 DEF Serial, Timely
    <3>3. stack[i].op = "AddAt" => stack[i].when \in Int
      BY <3>1, AddFields
    <3>. QED BY <2>2, <3>2, <3>3 DEF FrameTimely
  <2>. QED BY <2>1, <2>3, <2>4 DEF Timely
<1>. QED BY <1>3, <1>4, <1>5

\* Time passes, or nothing happens.
LEMMA TickSerial ==
  ASSUME Inv, Serial, Tick \/ UNCHANGED vars
  PROVE  Serial'
<1>1. /\ UNCHANGED <<heap, groups, order, fed, delivered, lost, stack, raised, result>>
      /\ clock \in Int /\ clock' \in Int /\ clock <= clock'
  <2>1. clock \in Int
    BY DEF Inv, TypeOK
  <2>. QED BY <2>1 DEF Tick, vars, aggregator, history
<1>2. Len(stack) \in Nat
  BY LenProperties DEF Inv, TypeOK
<1>3. OneCall' /\ ErrorsHeld'
  BY <1>1 DEF Serial, OneCall, InPlace, ErrorsHeld, HeldAt
<1>4. \A i \in 1 .. Len(stack) : FrameNumbered(stack[i])
  BY DEF Serial, Numbered
<1>5. (Accounted /\ Numbered /\ Timely)'
  <2>1. \A i \in 1 .. Len(stack') :
          /\ stack'[i].op = stack[i].op
          /\ stack[i].op = "flush" => stack'[i].ref = stack[i].ref /\ stack'[i].sent = stack[i].sent
          /\ stack[i].op = "emit" => stack'[i] = stack[i]
          /\ stack[i].op = "AddAt" =>
               /\ stack'[i].key = stack[i].key /\ stack'[i].when = stack[i].when
               /\ stack'[i].data = stack[i].data
               /\ stack'[i].pc \in Unplaced <=> stack[i].pc \in Unplaced
               /\ stack'[i].pc \in {"start", "drain"} => groups[stack[i].key] = Nil
    BY <1>1, <1>4 DEF FrameNumbered
  <2>2. Len(stack') \in Nat /\ Len(stack') <= Len(stack)
        /\ \A i \in 1 .. Len(stack) : ~(i > Len(stack'))
    BY <1>1, <1>2
  <2>. QED BY <1>1, <1>2, <2>1, <2>2, QuietLines
<1>. QED BY <1>3, <1>5 DEF Serial

\* A call is entered, with one activation that is no flush and no emitter.
LEMMA EnterSerial ==
  ASSUME Inv, Serial, stack = <<>>, NEW f \in Frame,
         f.op \in {"AddAt", "FlushBefore", "Stop", "FlushKeys"}, f.held = NoError,
         stack' = Push(stack, f), raised' = NoError
  PROVE  /\ Len(stack') = 1 /\ stack'[1] = f
         /\ OneCall' /\ ErrorsHeld'
<1>1. Len(stack') = 1 /\ stack'[1] = f /\ stack' # <<>>
  BY DEF Push
<1>2. OneCall'
  <2>1. InPlace(1)'
    BY <1>1 DEF InPlace
  <2>2. \A i \in 1 .. Len(stack') : i = 1
    <3>1. \A i \in 1 .. 1 : i = 1
      OBVIOUS
    <3>. QED BY <1>1, <3>1
  <2>3. Len(stack') <= 3
    BY <1>1
  <2>. QED BY <2>1, <2>2, <2>3 DEF OneCall
<1>3. HeldAt(1)' = NoError /\ HeldAt(2)' = NoError
  BY <1>1 DEF HeldAt
<1>4. ErrorsHeld'
  BY <1>1, <1>3 DEF ErrorsHeld, FirstErr
<1>. QED BY <1>1, <1>2, <1>4

LEMMA CallAddSerial ==
  ASSUME Inv, Serial, MaxDepth = 0, NEW k \in Keys, NEW l \in Lines, NEW timed \in TimeModes,
         CallAdd(k, l, timed)
  PROVE  Serial'
<1> DEFINE f == [op |-> "AddAt", pc |-> "lookup", key |-> k, line |-> l,
                 when |-> When(timed), data |-> fed[k] + 1, held |-> NoError]
<1>1. /\ stack = <<>>
      /\ UNCHANGED <<heap, groups, order, delivered, lost, clock>>
      /\ stack' = Push(stack, f)
      /\ fed' = [fed EXCEPT ![k] = @ + 1]
      /\ raised' = NoError
  BY NoReentry DEF CallAdd, CallAddAt, BeginCall, aggregator
<1>2. fed \in [StreamKeys -> Nat] /\ k \in StreamKeys /\ k # NoKey /\ When(timed) \in Time
  BY BoundsAssumption, NamesAssumption DEF Inv, TypeOK, StreamKeys, When, Time, ZeroTime
<1>3. f \in Frame /\ f.op = "AddAt" /\ f.held = NoError
  BY <1>2 DEF Frame, AddFrame, NoError
<1>4. f.key = k /\ f.pc = "lookup" /\ f.data = fed[k] + 1 /\ f.when = When(timed)
  OBVIOUS
<1> HIDE DEF f
<1>5. Len(stack') = 1 /\ stack'[1] = f /\ OneCall' /\ ErrorsHeld'
  BY <1>1, <1>3, EnterSerial
<1>6. \A j : Settled(j)' = Settled(j) /\ PendingLines(j)' = PendingLines(j)
  BY <1>1 DEF Settled, PendingLines
<1>7. Accounted'
  <2>1. ASSUME NEW j \in Keys
        PROVE  fed'[j] = Settled(j)' + PendingLines(j)' + OwedAt(1, j)' + OwedAt(2, j)'
    <3>1. fed[j] = Settled(j) + PendingLines(j) + OwedAt(1, j) + OwedAt(2, j)
      BY DEF Serial, Accounted
    <3>2. OwedAt(1, j) = 0 /\ OwedAt(2, j) = 0
      BY <1>1 DEF OwedAt
    <3>3. OwedAt(1, j)' = IF j = k THEN 1 ELSE 0
      BY <1>3, <1>4, <1>5 DEF OwedAt, Owed, Unplaced
    <3>4. OwedAt(2, j)' = 0
      BY <1>5 DEF OwedAt
    <3>5. Settled(j) \in Int /\ PendingLines(j) \in Int /\ j \in StreamKeys
      BY DEF Settled, PendingLines, Inv, TypeOK, StreamKeys, Group
    <3>. QED BY <3>1, <3>2, <3>3, <3>4, <3>5, <1>1, <1>2, <1>6
  <2>2. fed'[NoKey] = Settled(NoKey)'
    BY <1>1, <1>2, <1>6 DEF Serial, Accounted, StreamKeys
  <2>. QED BY <2>1, <2>2 DEF Accounted
<1>8. Numbered'
  <2>1. \A j \in Keys : groups'[j] # Nil => Follows(heap[groups[j]], Settled(j))'
    BY <1>1, <1>6 DEF Serial, Numbered, Follows
  <2>2. FrameNumbered(stack[1])'
    BY <1>1, <1>2, <1>3, <1>4, <1>5 DEF FrameNumbered
  <2>. QED BY <2>1, <2>2, <1>5 DEF Numbered
<1>9. Timely'
  <2>1. SortedByTime' /\ \A g \in Linked' : heap'[g].when <= clock'
    BY <1>1 DEF Serial, Timely, SortedByTime, Linked
  <2>2. FrameTimely(stack[1])'
    BY <2>1, <1>1, <1>4, <1>5 DEF FrameTimely, When, Inv, TypeOK
  <2>. QED BY <2>1, <2>2, <1>5 DEF Timely
<1>. QED BY <1>5, <1>7, <1>8, <1>9 DEF Serial

LEMMA CallLoopSerial ==
  ASSUME Inv, Serial, MaxDepth = 0, CallStop \/ \E t \in 1 .. MaxTime + 1 : CallFlushBefore(t)
  PROVE  Serial'
<1>1. PICK f \in Frame :
        /\ f.op \in {"FlushBefore", "Stop"} /\ f.held = NoError
        /\ stack' = Push(stack, f)
  <2>1. CASE CallStop
    <3>1. [op |-> "Stop", before |-> Forever, held |-> NoError] \in Frame
      BY BoundsAssumption DEF Frame, LoopFrame, NoError, Forever
    <3>. QED BY <2>1, <3>1 DEF CallStop
  <2>2. CASE \E t \in 1 .. MaxTime + 1 : CallFlushBefore(t)
    <3>1. PICK t \in 1 .. MaxTime + 1 : CallFlushBefore(t)
      BY <2>2
    <3>2. [op |-> "FlushBefore", before |-> t, held |-> NoError] \in Frame
      BY BoundsAssumption DEF Frame, LoopFrame, NoError
    <3>. QED BY <3>1, <3>2 DEF CallFlushBefore
  <2>. QED BY <2>1, <2>2
<1>2. /\ stack = <<>> /\ raised' = NoError
      /\ UNCHANGED <<heap, groups, order, fed, delivered, lost, clock>>
  BY NoReentry DEF CallStop, CallFlushBefore, BeginCall, aggregator, history
<1>3. Len(stack') = 1 /\ stack'[1] = f /\ OneCall' /\ ErrorsHeld'
  BY <1>1, <1>2, EnterSerial
<1>4. \A j : Settled(j)' = Settled(j) /\ PendingLines(j)' = PendingLines(j)
  BY <1>2 DEF Settled, PendingLines
<1>5. Accounted'
  <2>1. \A j : OwedAt(1, j) = 0 /\ OwedAt(2, j) = 0
    BY <1>2 DEF OwedAt
  <2>2. \A j : OwedAt(1, j)' = 0 /\ OwedAt(2, j)' = 0
    BY <1>1, <1>3 DEF OwedAt, Owed
  <2>. QED BY <2>1, <2>2, <1>2, <1>4 DEF Serial, Accounted
<1>6. Numbered'
  BY <1>1, <1>2, <1>3, <1>4 DEF Serial, Numbered, Follows, FrameNumbered
<1>7. Timely'
  BY <1>1, <1>2, <1>3 DEF Serial, Timely, SortedByTime, Linked, FrameTimely
<1>. QED BY <1>3, <1>5, <1>6, <1>7 DEF Serial

\* AddAt goes on to the block that looks at its line as the first of a group.
LEMMA MoveSerial ==
  ASSUME Inv, Serial, Miss \/ Starts
  PROVE  Serial'
<1>1. PICK pc \in {"start", "drain"} :
        /\ Running("AddAt")
        /\ stack' = SetTop([Top EXCEPT !.pc = pc])
        /\ UNCHANGED <<heap, groups, order, fed, delivered, lost, clock, raised, result>>
        /\ Top.pc \in {"lookup", "start"} /\ (Top.pc = "lookup" => groups[Top.key] = Nil)
  BY DEF Miss, Starts, At, KeepOutside, aggregator, history
<1>2. /\ stack # <<>> /\ Len(stack) = 1 /\ Top = stack[1] /\ Top \in Frame /\ Top.op = "AddAt"
  <2>1. stack # <<>> /\ Top.op = "AddAt" /\ OneCall
    BY <1>1 DEF Running, Serial
  <2>2. Len(stack) = 1 /\ Top = stack[Len(stack)] /\ \A i \in 1 .. Len(stack) : stack[i] \in Frame
    BY <2>1, Shape
  <2>. QED BY <2>1, <2>2
<1> DEFINE f == [Top EXCEPT !.pc = pc]
<1>3. /\ f \in Frame /\ f.op = "AddAt" /\ f.pc = pc /\ f.held = Top.held
      /\ f.key = Top.key /\ f.when = Top.when /\ f.data = Top.data
  <2>1. Top \in AddFrame
    BY <1>2, FrameKinds
  <2>2. f \in AddFrame /\ f.pc = pc /\ f.held = Top.held
        /\ f.key = Top.key /\ f.when = Top.when /\ f.data = Top.data
    BY <2>1 DEF AddFrame
  <2>. QED BY <2>2 DEF AddFrame, Frame
<1> HIDE DEF f
<1>4. Len(stack') = 1 /\ stack'[1] = f /\ stack' # <<>>
  <2>1. Len(SetTop(f)) = Len(stack) /\ SetTop(f)[Len(stack)] = f
    BY <1>2, <1>3, SetTopProperties DEF Inv, TypeOK
  <2>. QED BY <2>1, <1>1, <1>2 DEF f
<1>5. OneCall'
  <2>1. InPlace(1)'
    BY <1>3, <1>4 DEF InPlace
  <2>. QED BY <2>1, <1>4 DEF OneCall
<1>6. ErrorsHeld'
  <2>1. HeldAt(1)' = HeldAt(1) /\ HeldAt(2)' = HeldAt(2)
    BY <1>2, <1>3, <1>4 DEF HeldAt
  <2>. QED BY <2>1, <1>1, <1>2, <1>4 DEF Serial, ErrorsHeld
<1>7. (Accounted /\ Numbered /\ Timely)'
  <2>1. f.pc \in {"start", "drain"} => groups[Top.key] = Nil
    BY <1>1, <1>2 DEF Serial, Numbered, FrameNumbered
  <2>2. \A i \in 1 .. Len(stack') :
          /\ stack'[i].op = stack[i].op
          /\ stack[i].op = "flush" => stack'[i].ref = stack[i].ref /\ stack'[i].sent = stack[i].sent
          /\ stack[i].op = "emit" => stack'[i] = stack[i]
          /\ stack[i].op = "AddAt" =>
               /\ stack'[i].key = stack[i].key /\ stack'[i].when = stack[i].when
               /\ stack'[i].data = stack[i].data
               /\ stack'[i].pc \in Unplaced <=> stack[i].pc \in Unplaced
               /\ stack'[i].pc \in {"start", "drain"} => groups[stack[i].key] = Nil
    BY <2>1, <1>1, <1>2, <1>3, <1>4 DEF Unplaced
  <2>3. clock \in Int /\ clock' \in Int /\ clock <= clock'
    BY <1>1 DEF Inv, TypeOK
  <2>4. Len(stack) \in Nat /\ Len(stack') \in Nat /\ Len(stack') <= Len(stack)
        /\ \A i \in 1 .. Len(stack) : ~(i > Len(stack'))
    BY <1>2, <1>4
  <2>. QED BY <1>1, <2>2, <2>3, <2>4, QuietLines
<1>. QED BY <1>5, <1>6, <1>7 DEF Serial

\* A call returns: the error it held is the first its emitter raised.
LEMMA ReturnedSerial ==
  ASSUME Inv, Serial, stack # <<>>, Top.op \in {"AddAt", "FlushBefore", "Stop", "FlushKeys"},
         Return(Top.held), Top.op = "AddAt" => Top.pc \notin Unplaced,
         UNCHANGED <<heap, groups, order, fed, delivered, lost, clock, raised>>
  PROVE  /\ Serial' /\ stack' = <<>> /\ Len(stack) = 1 /\ Top = stack[1]
         /\ result' = Top.held /\ raised = Top.held
<1>1. Len(stack) = 1 /\ Top = stack[1] /\ Top \in Frame /\ Top.op # "emit"
  <2>1. OneCall
    BY DEF Serial
  <2>2. Len(stack) = 1 /\ Top = stack[Len(stack)] /\ \A i \in 1 .. Len(stack) : stack[i] \in Frame
    BY <2>1, Shape
  <2>. QED BY <2>2
<1>2. Top.held \in Nat
  BY <1>1, HeldFrame
<1>3. Len(stack') = 0 /\ stack' = <<>> /\ result' = Top.held
  <2>1. Pop(Top.held) \in Seq(Frame) /\ Len(Pop(Top.held)) = Len(stack) - 1
    BY <1>2, PopExact DEF Inv, TypeOK
  <2>2. stack' = Pop(Top.held) /\ result' = Top.held
    BY <1>1 DEF Return
  <2>. QED BY <2>1, <2>2, <1>1, EmptySeq
<1>4. raised = Top.held
  <2>1. HeldAt(1) = Top.held /\ HeldAt(2) = NoError
    BY <1>1 DEF HeldAt
  <2>. QED BY <2>1, <1>2, FirstErrs DEF Serial, ErrorsHeld
<1>5. OneCall' /\ ErrorsHeld'
  BY <1>3, <1>4 DEF OneCall, ErrorsHeld
<1>6. (Accounted /\ Numbered /\ Timely)'
  <2>1. \A k \in Keys : Owed(stack[1], k) = 0
    BY <1>1, OwedByKind
  <2>2. clock \in Int /\ clock' \in Int /\ clock <= clock'
    BY DEF Inv, TypeOK
  <2>3. /\ Len(stack) \in Nat /\ Len(stack') \in Nat /\ Len(stack') <= Len(stack)
        /\ 1 .. Len(stack') = {} /\ \A i \in 1 .. Len(stack) : i = 1
    BY <1>1, <1>3
  <2>. QED BY <2>1, <2>2, <2>3, QuietLines
<1>. QED BY <1>1, <1>3, <1>4, <1>5, <1>6 DEF Serial

LEMMA CallReturnsSerial ==
  ASSUME Inv, Serial, AddReturns \/ LoopReturns
  PROVE  /\ Serial' /\ stack' = <<>> /\ Len(stack) = 1 /\ Top = stack[1]
         /\ result' = Top.held /\ raised = Top.held
         /\ UNCHANGED <<heap, groups, order, fed, delivered, lost, raised>>
<1>1. /\ stack # <<>> /\ Top.op \in {"AddAt", "FlushBefore", "Stop", "FlushKeys"} /\ Return(Top.held)
      /\ Top.op = "AddAt" => Top.pc \notin Unplaced
      /\ UNCHANGED <<heap, groups, order, fed, delivered, lost, clock, raised>>
  BY DEF AddReturns, LoopReturns, At, Looping, Running, Unplaced, KeepOutside, aggregator, history
<1>. QED BY <1>1, ReturnedSerial

\* The emitter returns err to the flush or the AddAt below it, or to the caller.
LEMMA EmitterStack ==
  ASSUME Inv, OneCall, Running("emit"), NEW err \in Nat, Return(err)
  PROVE  \/ Len(stack) = 1 /\ stack' = <<>> /\ result' = err
         \/ /\ Len(stack) = 2 /\ Len(stack') = 1 /\ result' = result
            /\ stack[1].op \in {"flush", "AddAt"} /\ stack[1] \in Frame
            /\ stack[1].op = "AddAt" => stack[1].pc = "return"
            /\ stack[1].op = "flush" => stack[1].held = NoError
            /\ stack'[1] = [stack[1] EXCEPT !.held = FirstErr(@, err)]
         \/ /\ Len(stack) = 3 /\ Len(stack') = 2 /\ result' = result
            /\ stack[1].op \in {"AddAt", "FlushBefore", "Stop", "FlushKeys"} /\ stack[1] \in Frame
            /\ stack[2].op = "flush" /\ stack[2] \in Frame /\ stack[2].held = NoError
            /\ stack'[1] = stack[1]
            /\ stack'[2] = [stack[2] EXCEPT !.held = FirstErr(@, err)]
<1> DEFINE n == Len(stack) - 1
<1>1. stack # <<>> /\ Top.op = "emit"
  BY DEF Running
<1>2. /\ Len(stack') = n
      /\ \A i \in 1 .. n : stack'[i] =
           IF i = n /\ stack[n].op # "emit"
           THEN [stack[n] EXCEPT !.held = FirstErr(@, err)] ELSE stack[i]
      /\ stack' \in Seq(Frame)
      /\ result' = IF Len(stack) = 1 THEN err ELSE result
  BY <1>1, PopExact DEF Inv, TypeOK, Return
<1>3. /\ \A i \in 1 .. Len(stack) : stack[i] \in Frame
      /\ \/ Len(stack) = 1
         \/ /\ Len(stack) = 2 /\ stack[1].op = "AddAt" /\ stack[1].pc = "return"
         \/ /\ Len(stack) = 2 /\ stack[1].op = "flush" /\ stack[1].held = NoError
         \/ /\ Len(stack) = 3 /\ stack[2].op = "flush" /\ stack[2].held = NoError
            /\ stack[1].op \in {"AddAt", "FlushBefore", "Stop", "FlushKeys"}
  BY <1>1, Shape
<1>4. CASE Len(stack) = 1
  BY <1>2, <1>4, EmptySeq
<1>5. CASE Len(stack) = 2
  BY <1>2, <1>3, <1>5
<1>6. CASE Len(stack) = 3
  <2>1. stack[1] \in Frame /\ stack[2] \in Frame /\ n = 2
    BY <1>3, <1>6
  <2>2. stack'[1] = stack[1] /\ stack'[2] = [stack[2] EXCEPT !.held = FirstErr(@, err)]
    BY <1>2, <1>3, <1>6, <2>1
  <2>. QED BY <1>2, <1>3, <1>6, <2>1, <2>2
<1>. QED BY <1>3, <1>4, <1>5, <1>6

\* What the emitter raises is held below it, and is the first error if it held none.
LEMMA EmitterSerial ==
  ASSUME Inv, Serial, Emitter
  PROVE  Serial'
<1>1. PICK err \in Nat :
        /\ EmitterReturns(err)
        /\ raised' = FirstErr(raised, err)
  <2>1. CASE EmitterSucceeds
    BY <2>1 DEF EmitterSucceeds, Inv, TypeOK, NoError, FirstErr
  <2>2. CASE EmitterFails
    BY <2>2 DEF EmitterFails, Inv, TypeOK, FirstErr
  <2>. QED BY <2>1, <2>2 DEF Emitter
<1>2. /\ Running("emit") /\ Return(err) /\ stack # <<>> /\ OneCall /\ Top.op = "emit"
      /\ UNCHANGED <<heap, groups, order, fed, delivered, lost, clock>>
  BY <1>1 DEF EmitterReturns, Running, aggregator, history, Serial
<1>3. raised \in Nat /\ raised = FirstErr(HeldAt(1), HeldAt(2)) /\ Len(stack) \in Nat
  BY <1>2, LenProperties DEF Serial, ErrorsHeld, Inv, TypeOK
<1>4. ASSUME NEW f \in Frame, f.op # "emit" PROVE f.held \in Nat
  BY <1>4, HeldFrame
<1>5. \A i \in 1 .. Len(stack) : InPlace(i) /\ FrameNumbered(stack[i])
  BY DEF Serial, OneCall, Numbered
<1>6. ASSUME \A i \in 1 .. Len(stack') :
               \/ stack'[i] = stack[i]
               \/ /\ stack[i] \in Frame /\ stack[i].op # "emit"
                  /\ stack'[i] = [stack[i] EXCEPT !.held = FirstErr(@, err)],
             Len(stack') = Len(stack) - 1
      PROVE  (Accounted /\ Numbered /\ Timely)'
  <2>1. \A i \in 1 .. Len(stack') :
          /\ stack'[i].op = stack[i].op
          /\ stack[i].op = "flush" => stack'[i].ref = stack[i].ref /\ stack'[i].sent = stack[i].sent
          /\ stack[i].op = "emit" => stack'[i] = stack[i]
          /\ stack[i].op = "AddAt" =>
               /\ stack'[i].key = stack[i].key /\ stack'[i].when = stack[i].when
               /\ stack'[i].data = stack[i].data
               /\ stack'[i].pc = stack[i].pc
    <3>. TAKE i \in 1 .. Len(stack')
    <3>1. CASE stack'[i] = stack[i]
      BY <3>1
    <3>2. CASE /\ stack[i] \in Frame /\ stack[i].op # "emit"
               /\ stack'[i] = [stack[i] EXCEPT !.held = FirstErr(@, err)]
      <4> DEFINE f == stack[i]
                 h == stack'[i]
      <4>1. f \in Frame /\ f.op # "emit" /\ h = [f EXCEPT !.held = FirstErr(@, err)]
        BY <3>2
      <4> HIDE DEF f, h
      <4>2. /\ h.op = f.op
            /\ f.op = "flush" => h.ref = f.ref /\ h.sent = f.sent
            /\ f.op = "AddAt" => h.key = f.key /\ h.when = f.when /\ h.data = f.data /\ h.pc = f.pc
        BY <4>1, HeldFields
      <4>. QED BY <4>1, <4>2 DEF f, h
    <3>. QED BY <3>1, <3>2, <1>6
  <2>2. \A i \in 1 .. Len(stack') : i \in 1 .. Len(stack)
    BY <1>3, <1>6
  <2>3. \A i \in 1 .. Len(stack') : stack[i].op = "AddAt" /\ stack[i].pc \in {"start", "drain"}
          => groups[stack[i].key] = Nil
    BY <2>2, <1>5 DEF FrameNumbered
  <2>4. \A i \in 1 .. Len(stack) : i > Len(stack') => \A k \in Keys : Owed(stack[i], k) = 0
    <3>1. \A i \in 1 .. Len(stack) : i > Len(stack') => i = Len(stack)
      BY <1>3, <1>6
    <3>2. stack[Len(stack)].op = "emit"
      BY <1>2, Shape
    <3>. QED BY <3>1, <3>2, OwedByKind
  <2>5. clock \in Int /\ clock' \in Int /\ clock <= clock'
    BY <1>2 DEF Inv, TypeOK
  <2>6. Len(stack') \in Nat /\ Len(stack') <= Len(stack)
    <3>1. Len(stack) # 0
      BY <1>2, EmptySeq DEF Inv, TypeOK
    <3>. QED BY <3>1, <1>3, <1>6
  <2>. QED BY <1>2, <1>3, <2>1, <2>3, <2>4, <2>5, <2>6, QuietLines
<1>7. CASE Len(stack) = 1 /\ stack' = <<>> /\ result' = err
  <2>1. Len(stack') = 0
    BY <1>7
  <2>2. HeldAt(1) = NoError /\ HeldAt(2) = NoError
    BY <1>2, <1>7, Shape DEF HeldAt
  <2>3. raised' = err
    BY <1>1, <1>3, <2>2, FirstErrs DEF NoError
  <2>4. OneCall' /\ ErrorsHeld'
    BY <1>7, <2>1, <2>3 DEF OneCall, ErrorsHeld
  <2>. QED BY <1>6, <1>7, <2>1, <2>4 DEF Serial
<1>8. CASE /\ Len(stack) = 2 /\ Len(stack') = 1 /\ result' = result
           /\ stack[1].op \in {"flush", "AddAt"} /\ stack[1] \in Frame
           /\ stack'[1] = [stack[1] EXCEPT !.held = FirstErr(@, err)]
  <2>1. /\ stack[1].held \in Nat /\ stack'[1].op = stack[1].op
        /\ stack'[1].held = FirstErr(stack[1].held, err)
    BY <1>8, <1>4, HeldFields
  <2>2. HeldAt(1) = stack[1].held /\ HeldAt(2) = NoError
    BY <1>2, <1>8, Shape DEF HeldAt
  <2>3. HeldAt(1)' = FirstErr(stack[1].held, err) /\ HeldAt(2)' = NoError
    BY <1>8, <2>1 DEF HeldAt
  <2>4. FirstErr(stack[1].held, err) \in Nat
    BY <2>1, FirstErrs
  <2>5. stack' # <<>> /\ raised' = FirstErr(HeldAt(1)', HeldAt(2)')
    <3>1. raised = stack[1].held
      BY <1>3, <2>1, <2>2, FirstErrs
    <3>2. FirstErr(HeldAt(1)', HeldAt(2)') = FirstErr(stack[1].held, err)
      BY <2>3, <2>4, FirstErrs
    <3>3. stack' # <<>>
      <4>1. Len(stack') # 0
        BY <1>8
      <4>. QED BY <4>1, LenOfEmpty
    <3>. QED BY <1>1, <3>1, <3>2, <3>3
  <2>6. OneCall'
    <3>1. InPlace(1)'
      BY <1>8, <2>1 DEF InPlace
    <3>. QED BY <3>1, <1>8 DEF OneCall
  <2>7. \A i \in 1 .. Len(stack') : i = 1
    BY <1>8
  <2>. QED BY <1>6, <1>8, <2>5, <2>6, <2>7 DEF Serial, ErrorsHeld, FirstErr
<1>9. CASE /\ Len(stack) = 3 /\ Len(stack') = 2 /\ result' = result
           /\ stack[1].op \in {"AddAt", "FlushBefore", "Stop", "FlushKeys"} /\ stack[1] \in Frame
           /\ stack[2].op = "flush" /\ stack[2] \in Frame /\ stack[2].held = NoError
           /\ stack'[1] = stack[1]
           /\ stack'[2] = [stack[2] EXCEPT !.held = FirstErr(@, err)]
  <2>1. /\ stack[1].held \in Nat /\ stack'[2].op = "flush"
        /\ stack'[2].held = FirstErr(NoError, err) /\ FirstErr(NoError, err) = err
    BY <1>9, <1>4, HeldFields, FirstErrs DEF NoError
  <2>2. HeldAt(1) = stack[1].held /\ HeldAt(2) = NoError
    BY <1>9 DEF HeldAt
  <2>3. HeldAt(1)' = stack[1].held /\ HeldAt(2)' = err
    BY <1>9, <2>1 DEF HeldAt
  <2>4. stack' # <<>> /\ raised' = FirstErr(HeldAt(1)', HeldAt(2)')
    <3>1. raised = stack[1].held
      BY <1>3, <2>1, <2>2, FirstErrs
    <3>2. FirstErr(HeldAt(1)', HeldAt(2)') = FirstErr(stack[1].held, err)
      BY <2>3
    <3>3. stack' # <<>>
      <4>1. Len(stack') # 0
        BY <1>9
      <4>. QED BY <4>1, LenOfEmpty
    <3>. QED BY <1>1, <3>1, <3>2, <3>3
  <2>5. OneCall'
    <3>1. InPlace(1)'
      BY <1>9 DEF InPlace
    <3>2. InPlace(2)'
      <4>1. InPlace(2)
        BY <1>5, <1>9
      <4>. QED BY <4>1, <1>9, <2>1 DEF InPlace
    <3>3. \A i \in 1 .. Len(stack') : i = 1 \/ i = 2
      BY <1>9
    <3>. QED BY <3>1, <3>2, <3>3, <1>9 DEF OneCall
  <2>6. \A i \in 1 .. Len(stack') : i = 1 \/ i = 2
    BY <1>9
  <2>. QED BY <1>6, <1>9, <2>4, <2>5, <2>6 DEF Serial, ErrorsHeld, FirstErr
<1>. QED BY <1>2, <1>7, <1>8, <1>9, EmitterStack
-----------------------------------------------------------------------------
(* Lines that are emitted on the spot.                                      *)

LEMMA EmitLineEntry ==
  ASSUME Inv, NEW st \in Seq(Frame), NEW key \in StreamKeys, NEW l \in Lines, NEW when \in Time,
         NEW data \in Nat, EmitLine(st, key, l, when, data)
  PROVE  /\ Len(stack') = Len(st) + 1
         /\ \A i \in 1 .. Len(st) : stack'[i] = st[i]
         /\ stack'[Len(st) + 1].op = "emit"
         /\ stack'[Len(st) + 1].entry.key = key
         /\ stack'[Len(st) + 1].entry.data = data
         /\ stack'[Len(st) + 1].entry.lines = 1
         /\ delivered' = [delivered EXCEPT ![key] = @ + 1]
<1> DEFINE text == [line |-> l, size |-> Size(l), when |-> when, data |-> data]
           e    == [key |-> key, match |-> NoFormat, when |-> when, data |-> data,
                    lines |-> 1, truncated |-> FALSE, texts |-> <<text>>]
           f    == EmitOf(e, Slot)
<1>1. /\ Len(stack') = Len(st) + 1 /\ stack'[Len(st) + 1].op = "emit"
      /\ \A i \in 1 .. Len(st) : stack'[i] = st[i]
  BY EmitLineProperties DEF Inv, TypeOK
<1>2. stack' = Append(st, f) /\ delivered' = [delivered EXCEPT ![key] = @ + 1]
  BY DEF EmitLine, Deliver, Push
<1>3. f.entry.key = key /\ f.entry.data = data /\ f.entry.lines = 1
  BY DEF EmitOf
<1> HIDE DEF f
<1>4. stack'[Len(st) + 1] = f
  BY <1>2, LenProperties
<1>. QED BY <1>1, <1>2, <1>3, <1>4

\* The empty key: the line is settled as it is fed.
LEMMA CallAddBypassSerial ==
  ASSUME Inv, Serial, MaxDepth = 0, NEW l \in Lines, NEW timed \in TimeModes,
         CallAddBypass(l, timed)
  PROVE  Serial'
<1>1. /\ stack = <<>> /\ raised' = NoError
      /\ UNCHANGED <<heap, groups, order, lost, clock>>
      /\ EmitLine(stack, NoKey, l, When(timed), fed[NoKey] + 1)
      /\ fed' = [fed EXCEPT ![NoKey] = @ + 1]
  BY NoReentry DEF CallAddBypass, CallAddAtBypass, BeginCall, aggregator
<1>2. /\ fed \in [StreamKeys -> Nat] /\ delivered \in [StreamKeys -> Int] /\ lost \in [StreamKeys -> Int]
      /\ NoKey \in StreamKeys /\ NoKey \notin Keys /\ Keys \subseteq StreamKeys
      /\ fed[NoKey] + 1 \in Nat /\ When(timed) \in Time /\ <<>> \in Seq(Frame)
  BY BoundsAssumption, NamesAssumption DEF Inv, TypeOK, StreamKeys, When, Time, ZeroTime
<1>3. /\ Len(stack') = 1 /\ stack'[1].op = "emit" /\ stack'[1].entry.key = NoKey
      /\ stack'[1].entry.data = fed[NoKey] + 1 /\ stack'[1].entry.lines = 1
      /\ delivered' = [delivered EXCEPT ![NoKey] = @ + 1]
  <2>1. stack \in Seq(Frame) /\ Len(stack) + 1 = 1
    BY <1>1, LenOfEmpty DEF Inv, TypeOK
  <2>2. EmitLine(stack, NoKey, l, When(timed), fed[NoKey] + 1)
    BY <1>1
  <2>3. /\ Len(stack') = Len(stack) + 1 /\ stack'[Len(stack) + 1].op = "emit"
        /\ stack'[Len(stack) + 1].entry.key = NoKey
        /\ stack'[Len(stack) + 1].entry.data = fed[NoKey] + 1
        /\ stack'[Len(stack) + 1].entry.lines = 1
        /\ delivered' = [delivered EXCEPT ![NoKey] = @ + 1]
    BY <1>2, <2>1, <2>2, EmitLineEntry
  <2>. QED BY <2>1, <2>3
<1>4. \A i \in 1 .. Len(stack') : i = 1
  BY <1>3
<1>5. stack' # <<>>
  <2>1. Len(stack') # 0
    BY <1>3
  <2>. QED BY <2>1, LenOfEmpty
<1>6. OneCall'
  <2>1. InPlace(1)'
    BY <1>3 DEF InPlace
  <2>. QED BY <2>1, <1>3, <1>4 DEF OneCall
<1>7. ErrorsHeld'
  <2>1. HeldAt(1)' = NoError /\ HeldAt(2)' = NoError
    BY <1>3 DEF HeldAt
  <2>. QED BY <2>1, <1>1, <1>5 DEF ErrorsHeld, FirstErr
<1>8. /\ \A k \in Keys : Settled(k)' = Settled(k) /\ PendingLines(k)' = PendingLines(k)
      /\ Settled(NoKey)' = Settled(NoKey) + 1
  BY <1>1, <1>2, <1>3 DEF Settled, PendingLines
<1>9. Accounted'
  <2>1. \A k \in Keys : OwedAt(1, k) = 0 /\ OwedAt(2, k) = 0
    BY <1>1 DEF OwedAt
  <2>2. \A k \in Keys : OwedAt(1, k)' = 0 /\ OwedAt(2, k)' = 0
    BY <1>3 DEF OwedAt, Owed
  <2>3. \A k \in Keys : fed'[k] = fed[k]
    BY <1>1, <1>2
  <2>4. fed'[NoKey] = Settled(NoKey)'
    BY <1>1, <1>2, <1>8 DEF Serial, Accounted
  <2>. QED BY <2>1, <2>2, <2>3, <2>4, <1>8 DEF Serial, Accounted
<1>10. Numbered'
  <2>1. \A k \in Keys : groups'[k] # Nil => Follows(heap[groups[k]], Settled(k))'
    BY <1>1, <1>8 DEF Serial, Numbered, Follows
  <2>2. Settled(NoKey)' = fed[NoKey] + 1
    BY <1>8 DEF Serial, Accounted
  <2>3. FrameNumbered(stack[1])'
    <3>1. stack'[1].entry.lines > 0
          /\ stack'[1].entry.data + stack'[1].entry.lines = Settled(stack[1].entry.key)' + 1
      BY <1>2, <1>3, <2>2 DEF Settled
    <3>. QED BY <3>1, <1>3 DEF FrameNumbered
  <2>. QED BY <2>1, <2>3, <1>4 DEF Numbered
<1>11. Timely'
  BY <1>1, <1>3, <1>4 DEF Serial, Timely, SortedByTime, Linked, FrameTimely
<1>. QED BY <1>6, <1>7, <1>9, <1>10, <1>11 DEF Serial

\* AddAt, whose turn it is, is the only activation.
LEMMA AloneAdd ==
  ASSUME Inv, Serial, Running("AddAt")
  PROVE  /\ Len(stack) = 1 /\ stack # <<>> /\ Top = stack[1] /\ Top \in Frame /\ Top.op = "AddAt"
         /\ Top.key \in Keys /\ Top.key \in StreamKeys /\ Top.line \in Lines /\ Top.when \in Time
         /\ Top.data \in Nat /\ Top.held \in Nat
         /\ raised = Top.held
         /\ \A k \in Keys : OwedAt(2, k) = 0 /\
              OwedAt(1, k) = IF Top.key = k /\ Top.pc \in Unplaced THEN 1 ELSE 0
         /\ FrameNumbered(Top) /\ FrameTimely(Top)
<1>1. stack # <<>> /\ Top.op = "AddAt" /\ OneCall
  BY DEF Running, Serial
<1>2. Len(stack) = 1 /\ Top = stack[1] /\ Top \in Frame
  <2>1. Len(stack) = 1 /\ Top = stack[Len(stack)] /\ \A i \in 1 .. Len(stack) : stack[i] \in Frame
    BY <1>1, Shape
  <2>. QED BY <2>1
<1>3. /\ Top.key \in Keys /\ Top.line \in Lines /\ Top.when \in Time
      /\ Top.data \in Nat /\ Top.held \in Nat
  BY <1>1, <1>2, AddFields
<1>4. raised = Top.held
  <2>1. HeldAt(1) = Top.held /\ HeldAt(2) = NoError
    BY <1>1, <1>2 DEF HeldAt
  <2>. QED BY <2>1, <1>1, <1>3, FirstErrs DEF Serial, ErrorsHeld
<1>5. \A k \in Keys : OwedAt(2, k) = 0 /\
        OwedAt(1, k) = IF Top.key = k /\ Top.pc \in Unplaced THEN 1 ELSE 0
  BY <1>1, <1>2, OwedByKind DEF OwedAt
<1>6. FrameNumbered(Top) /\ FrameTimely(Top)
  BY <1>2 DEF Serial, Numbered, Timely
<1>. QED BY <1>1, <1>2, <1>3, <1>4, <1>5, <1>6 DEF StreamKeys
\* One activation is in its place, whatever it is; two are, when the lower one called
\* the upper one.
LEMMA OneFrame ==
  ASSUME Len(stack') = 1
  PROVE  OneCall' /\ stack' # <<>> /\ \A i \in 1 .. Len(stack') : i = 1
<1>1. InPlace(1)'
  BY DEF InPlace
<1>2. \A i \in 1 .. Len(stack') : i = 1
  OBVIOUS
<1>3. stack' # <<>>
  <2>1. Len(stack') # 0
    OBVIOUS
  <2>. QED BY <2>1, LenOfEmpty
<1>. QED BY <1>1, <1>2, <1>3 DEF OneCall

LEMMA TwoFrames ==
  ASSUME Len(stack') = 2,
         \/ stack'[2].op = "emit" /\ stack'[1].op = "AddAt" /\ stack'[1].pc = "return"
         \/ stack'[2].op = "emit" /\ stack'[1].op = "flush" /\ stack'[1].held = NoError
         \/ /\ stack'[2].op = "flush" /\ stack'[1].op \in {"AddAt", "FlushBefore", "Stop", "FlushKeys"}
            /\ stack'[1].op = "AddAt" => stack'[1].pc # "lookup"
            /\ stack'[1].op # "AddAt" => stack'[1].held = NoError
  PROVE  OneCall' /\ stack' # <<>> /\ \A i \in 1 .. Len(stack') : i = 1 \/ i = 2
<1>1. InPlace(1)'
  BY DEF InPlace
<1>2. InPlace(2)'
  BY DEF InPlace
<1>3. \A i \in 1 .. Len(stack') : i = 1 \/ i = 2
  OBVIOUS
<1>4. stack' # <<>>
  <2>1. Len(stack') # 0
    OBVIOUS
  <2>. QED BY <2>1, LenOfEmpty
<1>. QED BY <1>1, <1>2, <1>3, <1>4 DEF OneCall

\* What is counted per key is counted in numbers.
LEMMA LineCounts ==
  ASSUME Inv
  PROVE  /\ \A k \in StreamKeys : Settled(k) \in Int /\ fed[k] \in Nat
         /\ \A k \in Keys : PendingLines(k) \in Nat /\ k \in StreamKeys /\ k # NoKey
<1>1. \A k \in StreamKeys : Settled(k) \in Int /\ fed[k] \in Nat
  BY DEF Inv, TypeOK, Settled
<1>2. ASSUME NEW k \in Keys
      PROVE  PendingLines(k) \in Nat
  <2>1. CASE groups[k] = Nil
    BY <2>1 DEF PendingLines
  <2>2. CASE groups[k] # Nil
    <3>1. groups[k] \in Refs /\ heap \in [Refs -> Group]
      BY <2>2 DEF Inv, TypeOK
    <3>2. heap[groups[k]].total \in Nat
      BY <3>1 DEF Group
    <3>. QED BY <2>2, <3>2 DEF PendingLines
  <2>. QED BY <2>1, <2>2
<1>. QED BY <1>1, <1>2, NamesAssumption DEF StreamKeys

\* A line no group starts with is settled on the spot.
LEMMA PassThroughSerial ==
  ASSUME Inv, Serial, PassThrough
  PROVE  Serial'
<1> DEFINE f == [Top EXCEPT !.pc = "return"]
           k0 == Top.key
<1>1. /\ Running("AddAt") /\ Top.pc = "start"
      /\ EmitLine(SetTop(f), Top.key, Top.line, Top.when, Top.data)
      /\ UNCHANGED <<heap, groups, order, clock, raised, fed, lost>>
  BY DEF PassThrough, At, aggregator
<1>2. /\ Len(stack) = 1 /\ stack # <<>> /\ Top = stack[1] /\ Top \in Frame /\ Top.op = "AddAt"
      /\ k0 \in Keys /\ k0 \in StreamKeys /\ Top.line \in Lines /\ Top.when \in Time
      /\ Top.data \in Nat /\ Top.held \in Nat /\ raised = Top.held
      /\ \A k \in Keys : OwedAt(2, k) = 0 /\
           OwedAt(1, k) = IF k0 = k /\ Top.pc \in Unplaced THEN 1 ELSE 0
      /\ FrameNumbered(Top)
  BY <1>1, AloneAdd
<1>3. /\ f \in Frame /\ f.op = "AddAt" /\ f.pc = "return" /\ f.held = Top.held
  BY <1>2, PcFields
<1>4. Top.data = fed[k0] /\ groups[k0] = Nil
  BY <1>1, <1>2 DEF FrameNumbered, Unplaced
<1> HIDE DEF f
<1>5. /\ SetTop(f) \in Seq(Frame) /\ Len(SetTop(f)) = 1 /\ SetTop(f)[1] = f
  BY <1>2, <1>3, SetTopProperties DEF Inv, TypeOK
<1>6. /\ Len(stack') = 2 /\ stack'[1] = f /\ stack'[2].op = "emit"
      /\ stack'[2].entry.key = k0 /\ stack'[2].entry.data = fed[k0]
      /\ stack'[2].entry.lines = 1
      /\ delivered' = [delivered EXCEPT ![k0] = @ + 1]
  <2> HIDE DEF k0
  <2>1. EmitLine(SetTop(f), k0, Top.line, Top.when, Top.data)
    BY <1>1 DEF k0
  <2>2. /\ Len(stack') = Len(SetTop(f)) + 1
        /\ \A i \in 1 .. Len(SetTop(f)) : stack'[i] = SetTop(f)[i]
        /\ stack'[Len(SetTop(f)) + 1].op = "emit"
        /\ stack'[Len(SetTop(f)) + 1].entry.key = k0
        /\ stack'[Len(SetTop(f)) + 1].entry.data = Top.data
        /\ stack'[Len(SetTop(f)) + 1].entry.lines = 1
        /\ delivered' = [delivered EXCEPT ![k0] = @ + 1]
    BY <1>2, <1>5, <2>1, EmitLineEntry
  <2>. QED BY <2>2, <1>4, <1>5
<1>7. OneCall' /\ stack' # <<>> /\ \A i \in 1 .. Len(stack') : i = 1 \/ i = 2
  BY <1>3, <1>6, TwoFrames
<1>8. ErrorsHeld'
  <2>1. HeldAt(1)' = Top.held /\ HeldAt(2)' = NoError
    BY <1>3, <1>6 DEF HeldAt
  <2>. QED BY <2>1, <1>1, <1>2, <1>7, FirstErrs DEF ErrorsHeld
<1> HIDE DEF k0
<1>9. /\ \A k : PendingLines(k)' = PendingLines(k)
      /\ \A k \in StreamKeys : Settled(k)' = Settled(k) + (IF k = k0 THEN 1 ELSE 0)
      /\ \A k \in StreamKeys : Settled(k) \in Int
  <2>1. \A k : PendingLines(k)' = PendingLines(k)
    BY <1>1 DEF PendingLines
  <2>2. delivered \in [StreamKeys -> Int] /\ lost \in [StreamKeys -> Int]
    BY DEF Inv, TypeOK
  <2>3. ASSUME NEW k \in StreamKeys
        PROVE  Settled(k)' = Settled(k) + (IF k = k0 THEN 1 ELSE 0)
    <3>1. delivered'[k] = delivered[k] + (IF k = k0 THEN 1 ELSE 0)
      BY <2>2, <1>6
    <3>. QED BY <2>2, <3>1, <1>1 DEF Settled
  <2>. QED BY <2>1, <2>3, LineCounts
<1>10. Accounted'
  <2>1. \A k \in Keys : OwedAt(1, k)' = 0 /\ OwedAt(2, k)' = 0
    BY <1>3, <1>6 DEF OwedAt, Owed, Unplaced
  <2>2. \A k \in Keys : PendingLines(k) \in Int /\ k \in StreamKeys /\ k # NoKey
    BY LineCounts
  <2>3. \A k \in Keys : OwedAt(1, k) = IF k = k0 THEN 1 ELSE 0
    BY <1>1, <1>2 DEF Unplaced
  <2>4. ASSUME NEW k \in Keys
        PROVE  fed'[k] = Settled(k)' + PendingLines(k)' + OwedAt(1, k)' + OwedAt(2, k)'
    <3>1. fed[k] = Settled(k) + PendingLines(k) + OwedAt(1, k) + OwedAt(2, k)
      BY DEF Serial, Accounted
    <3>. QED BY <3>1, <2>1, <2>2, <2>3, <1>1, <1>2, <1>9
  <2>5. fed'[NoKey] = Settled(NoKey)'
    BY <1>1, <1>2, <1>9, NamesAssumption DEF Serial, Accounted, StreamKeys
  <2>. QED BY <2>4, <2>5 DEF Accounted
<1>11. Numbered'
  <2>1. \A k \in Keys : groups'[k] # Nil => Follows(heap[groups[k]], Settled(k))'
    <3>. TAKE k \in Keys
    <3>1. CASE k = k0
      BY <3>1, <1>1, <1>4
    <3>2. CASE k # k0
      <4>1. Settled(k)' = Settled(k)
        BY <3>2, <1>9 DEF StreamKeys
      <4>. QED BY <4>1, <1>1 DEF Serial, Numbered, Follows
    <3>. QED BY <3>1, <3>2
  <2>2. FrameNumbered(stack[1])'
    BY <1>3, <1>6 DEF FrameNumbered, Unplaced
  <2>3. fed[k0] = Settled(k0) + 1
    BY <1>1, <1>2, <1>4, <1>9 DEF Serial, Accounted, PendingLines, Unplaced
  <2>4. FrameNumbered(stack[2])'
    <3>1. stack'[2].entry.data + stack'[2].entry.lines = Settled(stack[2].entry.key)' + 1
      BY <2>3, <1>2, <1>6, <1>9 DEF Settled
    <3>. QED BY <3>1, <1>6 DEF FrameNumbered
  <2>. QED BY <2>1, <2>2, <2>4, <1>7 DEF Numbered
<1>12. Timely'
  BY <1>1, <1>3, <1>6, <1>7 DEF Serial, Timely, SortedByTime, Linked, FrameTimely, Unplaced
<1>. QED BY <1>7, <1>8, <1>10, <1>11, <1>12 DEF Serial
-----------------------------------------------------------------------------
(* A group leaves the list for a flush.                                     *)

\* A list in the order of w stays so when an element leaves it, or one that is not
\* below any other comes last.
LEMMA RemoveSorted ==
  ASSUME NEW S, NEW s \in Seq(S), IsInjective(s), NEW e \in ToSet(s), NEW w,
         \A i, j \in 1 .. Len(s) : i < j => w[s[i]] <= w[s[j]]
  PROVE  LET t == RemoveFirst(s, e)
         IN  \A i, j \in 1 .. Len(t) : i < j => w[t[i]] <= w[t[j]]
<1>1. PICK k \in 1 .. Len(s) : e = s[k]
  BY LenProperties DEF ToSet
<1> DEFINE t == RemoveFirst(s, e)
<1>2. /\ Len(t) = Len(s) - 1
      /\ \A i \in 1 .. Len(s) - 1 : t[i] = IF i < k THEN s[i] ELSE s[i + 1]
  BY <1>1, RemoveFirstProperties
<1>3. Len(s) \in Nat
  BY LenProperties
<1> HIDE DEF t
<1>4. ASSUME NEW i \in 1 .. Len(t), NEW j \in 1 .. Len(t), i < j
      PROVE  w[t[i]] <= w[t[j]]
  <2>. i \in 1 .. Len(s) - 1 /\ j \in 1 .. Len(s) - 1 /\ i \in Nat /\ j \in Nat
    BY <1>2
  <2>1. PICK m \in 1 .. Len(s) : t[i] = s[m] /\ m = IF i < k THEN i ELSE i + 1
    BY <1>2, <1>3
  <2>2. PICK n \in 1 .. Len(s) : t[j] = s[n] /\ n = IF j < k THEN j ELSE j + 1
    BY SMTT(20), <1>2, <1>3
  <2>3. m < n
    BY <1>4, <2>1, <2>2
  <2>. QED BY <2>1, <2>2, <2>3
<1>. QED BY <1>4 DEF t

LEMMA AppendSorted ==
  ASSUME NEW S, NEW s \in Seq(S), NEW e \in S, NEW w,
         \A i, j \in 1 .. Len(s) : i < j => w[s[i]] <= w[s[j]],
         \A r \in ToSet(s) : w[r] <= w[e]
  PROVE  LET t == Append(s, e)
         IN  \A i, j \in 1 .. Len(t) : i < j => w[t[i]] <= w[t[j]]
<1> DEFINE t == Append(s, e)
<1>1. /\ Len(t) = Len(s) + 1 /\ t[Len(s) + 1] = e
      /\ \A i \in 1 .. Len(s) : t[i] = s[i]
      /\ Len(s) \in Nat
  BY AppendProperties, LenProperties
<1>2. \A i \in 1 .. Len(s) : s[i] \in ToSet(s)
  BY LenProperties DEF ToSet
<1> HIDE DEF t
<1>3. ASSUME NEW i \in 1 .. Len(t), NEW j \in 1 .. Len(t), i < j
      PROVE  w[t[i]] <= w[t[j]]
  <2>1. i \in 1 .. Len(s)
    BY <1>1, <1>3
  <2>2. CASE j \in 1 .. Len(s)
    BY <1>1, <1>3, <2>1, <2>2
  <2>3. CASE j \notin 1 .. Len(s)
    <3>1. j = Len(s) + 1
      BY <1>1, <2>3
    <3>. QED BY <1>1, <1>2, <2>1, <3>1
  <2>. QED BY <2>2, <2>3
<1>. QED BY <1>3 DEF t

\* A group that leaves the list leaves it sorted; what becomes of that group then is
\* no matter for the list.
LEMMA DetachSorted ==
  ASSUME Inv, SortedByTime, NEW g \in Linked,
         \A r \in Refs : r # g => heap'[r] = heap[r]
  PROVE  LET s == Detached(g)
         IN  /\ s \in Seq(Refs) /\ ToSet(s) = Linked \ {g}
             /\ \A i, j \in 1 .. Len(s) : i < j => heap'[s[i]].when <= heap'[s[j]].when
<1> DEFINE s == Detached(g)
           w == [r \in Refs |-> heap[r].when]
<1>1. order \in Seq(Refs) /\ IsInjective(order) /\ g \in ToSet(order)
  BY DEF Inv, TypeOK, Owned, Linked
<1>2. s \in Seq(Refs) /\ ToSet(s) = Linked \ {g}
  BY <1>1, RemoveFirstSet DEF Detached, Linked
<1>3. DOMAIN order = 1 .. Len(order) /\ \A i \in 1 .. Len(order) : order[i] \in Refs
  BY <1>1, LenProperties, ElementOfSeq
<1>4. \A i, j \in 1 .. Len(order) : i < j => w[order[i]] <= w[order[j]]
  BY <1>3 DEF SortedByTime
<1>5. \A i, j \in 1 .. Len(s) : i < j => w[s[i]] <= w[s[j]]
  <2> HIDE DEF w
  <2>. QED BY <1>1, <1>4, RemoveSorted DEF Detached
<1> HIDE DEF s
<1>6. \A i \in 1 .. Len(s) : s[i] \in Refs /\ s[i] # g
  <2>1. \A i \in 1 .. Len(s) : s[i] \in ToSet(s)
    BY <1>2, LenProperties DEF ToSet
  <2>. QED BY <2>1, <1>2, ElementOfSeq
<1>7. \A i \in 1 .. Len(s) : w[s[i]] = heap'[s[i]].when
  BY <1>6
<1>. QED BY <1>2, <1>5, <1>7 DEF s

\* The group of a key that is pending is the group of no other key.
LEMMA PendingApart ==
  ASSUME Inv, NEW k \in Keys, NEW g \in Linked, heap[g].key # k
  PROVE  groups[k] # g
<1>1. g \in Refs
  BY ElementOfSeq, LenProperties DEF Inv, TypeOK, Linked, ToSet
<1>2. g # Nil
  BY <1>1, NamesAssumption
<1>. QED BY <1>2 DEF Inv, Mapped

\* A group leaves the list and its flush begins: its lines were pending, and are now
\* owed by the flush.
LEMMA StartFlushSerial ==
  ASSUME Inv, Serial, NEW g \in Linked, Unlink(g),
         UNCHANGED <<heap, fed, delivered, lost, clock>>,
         \/ stack = <<>> /\ stack' = Push(stack, FlushOf(g)) /\ raised' = NoError
         \/ \E f \in Frame :
              /\ Len(stack) = 1 /\ f.op = stack[1].op
              /\ f.op \in {"AddAt", "FlushBefore", "Stop", "FlushKeys"}
              /\ f.held = stack[1].held
              /\ f.op # "AddAt" => f.held = NoError
              /\ f.op = "AddAt" =>
                   /\ f.key = stack[1].key /\ f.when = stack[1].when /\ f.data = stack[1].data
                   /\ f.pc \in Unplaced <=> stack[1].pc \in Unplaced
                   /\ f.pc # "lookup"
                   /\ f.pc \in {"start", "drain"} => groups'[f.key] = Nil
              /\ stack' = Push(SetTop(f), FlushOf(g))
              /\ raised' = raised
  PROVE  Serial'
<1> DEFINE fl == FlushOf(g)
<1>0. PICK k0 \in Keys : k0 = heap[g].key
  BY UnlinkProperties
<1>1. /\ g \in Refs /\ k0 \in Keys /\ g # Nil
      /\ \A k \in Keys : groups'[k] = IF k = k0 THEN Nil ELSE groups[k]
      /\ fl \in Frame /\ fl.op = "flush" /\ fl.ref = g /\ fl.sent = 0 /\ fl.held = NoError
  <2>1. /\ g \in Refs /\ k0 \in Keys
        /\ \A k \in Keys : groups'[k] = IF k = k0 THEN Nil ELSE groups[k]
    BY <1>0, UnlinkProperties
  <2>2. fl \in Frame /\ fl.op = "flush" /\ fl.ref = g /\ fl.sent = 0
    BY <2>1, FlushOfFrame
  <2>3. fl.held = NoError
    BY DEF FlushOf
  <2>. QED BY <2>1, <2>2, <2>3, NamesAssumption
<1>2. groups[k0] = g /\ heap[g].total \in Nat
  BY <1>0, <1>1 DEF Inv, Mapped, TypeOK, Group
<1> HIDE DEF fl
<1>3. /\ \A k : Settled(k)' = Settled(k)
      /\ \A k \in Keys : PendingLines(k)' = IF k = k0 THEN 0 ELSE PendingLines(k)
      /\ PendingLines(k0) = heap[g].total
      /\ \A k \in Keys : Owed(fl, k)' = IF k = k0 THEN heap[g].total ELSE 0
  <2>1. \A k : Settled(k)' = Settled(k)
    BY DEF Settled
  <2>2. \A k \in Keys : PendingLines(k)' = IF k = k0 THEN 0 ELSE PendingLines(k)
    BY <1>1 DEF PendingLines
  <2>3. PendingLines(k0) = heap[g].total
    BY <1>1, <1>2 DEF PendingLines
  <2>4. \A k \in Keys : Owed(fl, k)' = IF k = k0 THEN heap[g].total ELSE 0
    BY <1>0, <1>1, <1>2 DEF Owed
  <2>. QED BY <2>1, <2>2, <2>3, <2>4
<1>4. \A k \in Keys : groups'[k] # Nil => Follows(heap[groups[k]], Settled(k))'
  BY <1>1, <1>3 DEF Serial, Numbered, Follows
<1>5. FrameNumbered(fl)'
  <2>1. Follows(heap[g], Settled(k0))
    BY <1>1, <1>2 DEF Serial, Numbered
  <2>2. Settled(k0) \in Int
    BY <1>1, LineCounts
  <2>3. Settled(k0)' - 0 = Settled(k0)
    BY <1>3, <2>2
  <2>4. Follows(heap[g], Settled(k0) - 0)'
    BY <2>1, <2>3 DEF Follows
  <2>. QED BY <1>0, <1>1, <2>4 DEF FrameNumbered
<1>6. SortedByTime' /\ \A r \in Linked' : r \in Linked
  <2>1. order' = Detached(g)
    BY DEF Unlink
  <2>2. /\ order' \in Seq(Refs) /\ ToSet(order') = Linked \ {g}
        /\ \A i, j \in 1 .. Len(order') : i < j => heap'[order'[i]].when <= heap'[order'[j]].when
    BY <2>1, DetachSorted DEF Serial, Timely
  <2>. QED BY <2>2, LenProperties DEF SortedByTime, Linked
<1>7. \A r \in Linked' : heap'[r].when <= clock'
  BY <1>6 DEF Serial, Timely
<1>8. \A k \in Keys : /\ Settled(k) \in Int /\ PendingLines(k) \in Nat
                      /\ fed[k] = Settled(k) + PendingLines(k) + OwedAt(1, k) + OwedAt(2, k)
  BY LineCounts DEF Serial, Accounted
<1>9. fed'[NoKey] = Settled(NoKey)'
  BY <1>3 DEF Serial, Accounted
<1>10. CASE stack = <<>> /\ stack' = Push(stack, FlushOf(g)) /\ raised' = NoError
  <2>1. Len(stack') = 1 /\ stack'[1] = fl
    <3>1. Len(Push(stack, fl)) = Len(stack) + 1 /\ Push(stack, fl)[Len(stack) + 1] = fl
      BY <1>1, PushProperties DEF Inv, TypeOK
    <3>. QED BY <3>1, <1>10, LenOfEmpty DEF fl
  <2>2. OneCall' /\ stack' # <<>> /\ \A i \in 1 .. Len(stack') : i = 1
    BY <2>1, OneFrame
  <2>3. ErrorsHeld'
    <3>1. HeldAt(1)' = NoError /\ HeldAt(2)' = NoError
      BY <1>1, <2>1 DEF HeldAt
    <3>. QED BY <3>1, <2>2, <1>10 DEF ErrorsHeld, FirstErr
  <2>4. \A k \in Keys : /\ OwedAt(1, k) = 0 /\ OwedAt(2, k) = 0 /\ OwedAt(2, k)' = 0
                        /\ OwedAt(1, k)' = IF k = k0 THEN heap[g].total ELSE 0
    BY <1>3, <1>10, <2>1, LenOfEmpty DEF OwedAt
  <2>5. Accounted'
    <3>1. \A k \in Keys : fed'[k] = Settled(k)' + PendingLines(k)' + OwedAt(1, k)' + OwedAt(2, k)'
      BY <1>2, <1>3, <1>8, <2>4
    <3>. QED BY <3>1, <1>9 DEF Accounted
  <2>6. Numbered'
    BY <1>4, <1>5, <2>1, <2>2 DEF Numbered
  <2>7. FrameTimely(stack[1])'
    BY <1>1, <2>1 DEF FrameTimely
  <2>8. Timely'
    BY <1>6, <1>7, <2>2, <2>7 DEF Timely
  <2>. QED BY <2>2, <2>3, <2>5, <2>6, <2>8 DEF Serial
<1>11. ASSUME NEW f \in Frame,
              Len(stack) = 1, f.op = stack[1].op,
              f.op \in {"AddAt", "FlushBefore", "Stop", "FlushKeys"},
              f.held = stack[1].held,
              f.op # "AddAt" => f.held = NoError,
              f.op = "AddAt" =>
                /\ f.key = stack[1].key /\ f.when = stack[1].when /\ f.data = stack[1].data
                /\ f.pc \in Unplaced <=> stack[1].pc \in Unplaced
                /\ f.pc # "lookup"
                /\ f.pc \in {"start", "drain"} => groups'[f.key] = Nil,
              stack' = Push(SetTop(f), FlushOf(g)),
              raised' = raised
       PROVE  Serial'
  <2>0. stack # <<>>
    <3>1. Len(stack) # 0
      BY <1>11
    <3>. QED BY <3>1, LenOfEmpty
  <2>1. Len(stack') = 2 /\ stack'[1] = f /\ stack'[2] = fl
    <3>1. SetTop(f) \in Seq(Frame) /\ Len(SetTop(f)) = 1 /\ SetTop(f)[1] = f
      BY <2>0, <1>11, SetTopProperties DEF Inv, TypeOK
    <3>2. /\ Len(Push(SetTop(f), fl)) = Len(SetTop(f)) + 1
          /\ Push(SetTop(f), fl)[Len(SetTop(f)) + 1] = fl
          /\ \A i \in 1 .. Len(SetTop(f)) : Push(SetTop(f), fl)[i] = SetTop(f)[i]
      BY <3>1, <1>1, PushProperties
    <3>. QED BY <3>1, <3>2, <1>11 DEF fl
  <2>2. OneCall' /\ stack' # <<>> /\ \A i \in 1 .. Len(stack') : i = 1 \/ i = 2
    BY <1>1, <1>11, <2>1, TwoFrames
  <2>3. ErrorsHeld'
    <3>1. HeldAt(1)' = f.held /\ HeldAt(2)' = NoError
      BY <1>1, <1>11, <2>1 DEF HeldAt
    <3>2. HeldAt(1) = f.held /\ HeldAt(2) = NoError
      BY <1>11 DEF HeldAt
    <3>. QED BY <3>1, <3>2, <1>11, <2>0, <2>2 DEF Serial, ErrorsHeld
  <2>4. \A k \in Keys : /\ OwedAt(1, k)' = OwedAt(1, k) /\ OwedAt(2, k) = 0
                        /\ OwedAt(2, k)' = IF k = k0 THEN heap[g].total ELSE 0
    <3>1. \A k \in Keys : Owed(f, k)' = Owed(stack[1], k)
      BY <1>11 DEF Owed
    <3>. QED BY <3>1, <1>3, <1>11, <2>1 DEF OwedAt
  <2>5. \A k \in Keys : OwedAt(1, k) \in Int
    BY <1>11, OwedByKind DEF OwedAt
  <2>6. Accounted'
    <3>1. \A k \in Keys : fed'[k] = Settled(k)' + PendingLines(k)' + OwedAt(1, k)' + OwedAt(2, k)'
      BY <1>2, <1>3, <1>8, <2>4, <2>5
    <3>. QED BY <3>1, <1>9 DEF Accounted
  <2>7. FrameNumbered(f)'
    <3>1. FrameNumbered(stack[1])
      BY <1>11 DEF Serial, Numbered
    <3>. QED BY <3>1, <1>11 DEF FrameNumbered
  <2>8. Numbered'
    BY <1>4, <1>5, <2>1, <2>2, <2>7 DEF Numbered
  <2>9. FrameTimely(stack[1])' /\ FrameTimely(stack[2])'
    <3>1. FrameTimely(stack[1])
      BY <1>11 DEF Serial, Timely
    <3>. QED BY <3>1, <1>1, <1>6, <1>11, <2>1 DEF FrameTimely
  <2>10. Timely'
    BY <1>6, <1>7, <2>2, <2>9 DEF Timely
  <2>. QED BY <2>2, <2>3, <2>6, <2>8, <2>10 DEF Serial
<1>. QED BY <1>10, <1>11

LEMMA CallFlushSerial ==
  ASSUME Inv, Serial, MaxDepth = 0, NEW k \in Keys, CallFlush(k)
  PROVE  Serial'
<1>1. /\ stack = <<>> /\ groups[k] \in Linked /\ Unlink(groups[k])
      /\ UNCHANGED <<heap, fed, delivered, lost, clock>>
      /\ stack' = Push(stack, FlushOf(groups[k])) /\ raised' = NoError
  BY NoReentry, PendingGroups DEF CallFlush, BeginCall, history
<1>. QED BY <1>1, StartFlushSerial

LEMMA BreakSerial ==
  ASSUME Inv, Serial, Break
  PROVE  Serial'
<1> DEFINE f == [Top EXCEPT !.pc = "start"]
<1>1. /\ Running("AddAt") /\ Top.pc = "lookup"
      /\ groups[Top.key] # Nil /\ Unlink(groups[Top.key])
      /\ UNCHANGED <<heap, fed, delivered, lost, clock, raised>>
      /\ stack' = Push(SetTop(f), FlushOf(groups[Top.key]))
  BY DEF Break, At, KeepOutside, history
<1>2. /\ Len(stack) = 1 /\ Top = stack[1] /\ Top \in Frame /\ Top.op = "AddAt"
      /\ Top.key \in Keys
  BY <1>1, AloneAdd
<1>3. /\ f \in Frame /\ f.op = "AddAt" /\ f.pc = "start" /\ f.held = Top.held
      /\ f.key = Top.key /\ f.when = Top.when /\ f.data = Top.data
  BY ZenonT(30), <1>2, PcFields
<1>4. groups[Top.key] \in Linked /\ heap[groups[Top.key]].key = Top.key
  BY <1>1, <1>2 DEF Inv, Mapped
<1>5. groups'[f.key] = Nil
  <2> HIDE DEF f
  <2>1. \A k \in Keys : groups'[k] = IF k = heap[groups[Top.key]].key THEN Nil ELSE groups[k]
    BY <1>1, <1>4, UnlinkProperties
  <2>. QED BY <2>1, <1>2, <1>3, <1>4
<1> HIDE DEF f
<1>6. \E h \in Frame :
        /\ Len(stack) = 1 /\ h.op = stack[1].op
        /\ h.op \in {"AddAt", "FlushBefore", "Stop", "FlushKeys"}
        /\ h.held = stack[1].held
        /\ h.op # "AddAt" => h.held = NoError
        /\ h.op = "AddAt" =>
             /\ h.key = stack[1].key /\ h.when = stack[1].when /\ h.data = stack[1].data
             /\ h.pc \in Unplaced <=> stack[1].pc \in Unplaced
             /\ h.pc # "lookup"
             /\ h.pc \in {"start", "drain"} => groups'[h.key] = Nil
        /\ stack' = Push(SetTop(h), FlushOf(groups[Top.key]))
        /\ raised' = raised
  <2>. USE <1>3
  <2>. WITNESS f \in Frame
  <2>. QED BY <1>1, <1>2, <1>3, <1>5 DEF Unplaced, f
<1>. QED BY <1>1, <1>4, <1>6, StartFlushSerial

\* A loop, whose turn it is, is the only activation.
LEMMA AloneLoop ==
  ASSUME Inv, Serial, Looping
  PROVE  /\ Len(stack) = 1 /\ Top = stack[1] /\ Top \in Frame
         /\ Top.op \in {"FlushBefore", "Stop"}
<1>1. stack # <<>> /\ Top.op \in {"FlushBefore", "Stop"} /\ OneCall
  BY DEF Looping, Running, Serial
<1>2. Len(stack) = 1 /\ Top = stack[Len(stack)] /\ \A i \in 1 .. Len(stack) : stack[i] \in Frame
  BY <1>1, Shape
<1>. QED BY <1>1, <1>2

\* The loops of evict, FlushBefore and Stop flush the first group of the list.
LEMMA FlushHeadSerial ==
  ASSUME Inv, Serial, Evict \/ FlushFirst
  PROVE  Serial'
<1>1. /\ Unlink(Head(order)) /\ order # <<>>
      /\ UNCHANGED <<heap, fed, delivered, lost, clock, raised>>
      /\ stack' = Push(stack, FlushOf(Head(order)))
  BY EmptySeq DEF Evict, OverCaps, FlushFirst, Stale, KeepOutside, history, Inv, TypeOK
<1>2. /\ Len(stack) = 1 /\ Top = stack[1] /\ Top \in Frame
      /\ Top.op \in {"AddAt", "FlushBefore", "Stop", "FlushKeys"}
      /\ Top.op = "AddAt" => Top.pc = "evict"
      /\ Top.op # "AddAt" => Top.held = NoError
  <2>1. CASE Evict
    BY <2>1, AloneAdd DEF Evict, At
  <2>2. CASE FlushFirst
    BY <2>2, AloneLoop DEF FlushFirst
  <2>. QED BY <2>1, <2>2
<1>3. Head(order) \in Linked
  BY <1>1, PendingGroups
<1>4. stack = SetTop(Top)
  <2>1. stack \in Seq(Frame) /\ DOMAIN stack = 1 .. 1
    BY <1>2, LenProperties DEF Inv, TypeOK
  <2>. QED BY <2>1, <1>2 DEF SetTop
<1>5. \E h \in Frame :
        /\ Len(stack) = 1 /\ h.op = stack[1].op
        /\ h.op \in {"AddAt", "FlushBefore", "Stop", "FlushKeys"}
        /\ h.held = stack[1].held
        /\ h.op # "AddAt" => h.held = NoError
        /\ h.op = "AddAt" =>
             /\ h.key = stack[1].key /\ h.when = stack[1].when /\ h.data = stack[1].data
             /\ h.pc \in Unplaced <=> stack[1].pc \in Unplaced
             /\ h.pc # "lookup"
             /\ h.pc \in {"start", "drain"} => groups'[h.key] = Nil
        /\ stack' = Push(SetTop(h), FlushOf(Head(order)))
        /\ raised' = raised
  <2>. USE <1>2
  <2>. WITNESS Top \in Frame
  <2>. QED BY <1>1, <1>2, <1>4
<1>. QED BY <1>1, <1>3, <1>5, StartFlushSerial

\* Only an emitter that calls back can leave a group under the key.
LEMMA NoDrain ==
  ASSUME Inv, Serial
  PROVE  ~Drain
<1> SUFFICES ASSUME Drain PROVE FALSE
  OBVIOUS
<1>1. Running("AddAt") /\ Top.pc = "drain" /\ groups[Top.key] # Nil
  BY DEF Drain, At, KeyIsFree
<1>2. FrameNumbered(Top) /\ Top.op = "AddAt"
  BY <1>1, AloneAdd
<1>. QED BY <1>1, <1>2 DEF FrameNumbered
-----------------------------------------------------------------------------
(* A line is placed in a group.                                             *)

\* append retains the line behind the others, or drops it: once it has dropped one it
\* retains none, so the retained lines stay consecutive.
LEMMA AppendLineFollows ==
  ASSUME NEW g \in Group, GroupOK(g), NEW l \in Lines, NEW when \in Time, NEW data \in Nat,
         NEW n \in Int, Follows(g, n), data = n + g.total + 1
  PROVE  LET h == AppendLine(g, l, when, data)
         IN  h.total = g.total + 1 /\ h.when = g.when /\ h.key = g.key /\ Follows(h, n)
<1> DEFINE over == MaxBytes > 0 /\ Size(l) > Room(g)
           full == g.capped \/ (MaxLines > 0 /\ Len(g.lines) >= MaxLines)
           kept == IF over THEN CutAt(l, Room(g)) ELSE Size(l)
           gone == full \/ (over /\ kept = 0 /\ g.lines # <<>>)
           text == [line |-> l, size |-> kept, when |-> when, data |-> data]
           h    == AppendLine(g, l, when, data)
<1>1. /\ h.total = g.total + 1 /\ h.when = g.when /\ h.key = g.key
      /\ h.lines = IF gone THEN g.lines ELSE Append(g.lines, text)
  <2>1. h = [g EXCEPT !.total = @ + 1, !.capped = full \/ over,
                      !.lines = IF gone THEN @ ELSE Append(@, text),
                      !.bytes = IF gone THEN @ ELSE @ + Separator(g) + kept]
    BY DEF AppendLine
  <2> HIDE DEF h, text, kept, over, full, gone
  <2>. QED BY <2>1 DEF Group
<1>2. g.lines \in Seq(RetainedLine) /\ Len(g.lines) \in Nat /\ text.data = data
  BY LenProperties DEF Group
<1>3. ~gone => Len(g.lines) = g.total
  BY DEF GroupOK
<1> HIDE DEF h, text, gone
<1>4. CASE gone
  BY <1>1, <1>4 DEF Follows, h
<1>5. CASE ~gone
  <2>1. h.lines = Append(g.lines, text)
    BY <1>1, <1>5
  <2>2. /\ Len(h.lines) = Len(g.lines) + 1 /\ h.lines[Len(g.lines) + 1] = text
        /\ \A i \in 1 .. Len(g.lines) : h.lines[i] = g.lines[i]
    BY <2>1, <1>2
  <2>3. \A i \in 1 .. Len(h.lines) : h.lines[i].data = n + i
    <3>. TAKE i \in 1 .. Len(h.lines)
    <3>1. CASE i = Len(g.lines) + 1
      BY <3>1, <2>2, <1>2, <1>3, <1>5
    <3>2. CASE i # Len(g.lines) + 1
      <4>1. i \in 1 .. Len(g.lines)
        BY <3>2, <2>2, <1>2
      <4>. QED BY <4>1, <2>2 DEF Follows
    <3>. QED BY <3>1, <3>2
  <2>. QED BY <2>3, <1>1 DEF Follows, h
<1>. QED BY <1>4, <1>5

LEMMA GrownFollows ==
  ASSUME NEW g \in Group, GroupOK(g), TextsOK(g),
         NEW l \in Lines, NEW when \in Time, NEW data \in Nat,
         NEW n \in Int, Follows(g, n), data = n + g.total + 1
  PROVE  LET h == Grown(g, l, when, data)
         IN  h.total = g.total + 1 /\ h.when = Stamp(when) /\ h.key = g.key /\ Follows(h, n)
<1> DEFINE more == AppendLine(g, l, when, data)
           step == Step(l, g.active)
           hit  == step.accepted # NoState
           h    == Grown(g, l, when, data)
<1>1. more \in Group /\ more.total = g.total + 1 /\ more.key = g.key /\ Follows(more, n)
  BY AppendLineOK, AppendLineFollows
<1> HIDE DEF more
<1>2. h.lines = more.lines /\ h.total = more.total /\ h.key = more.key /\ h.when = Stamp(when)
  BY <1>1 DEF Grown, more, Group
<1>. QED BY <1>1, <1>2 DEF Follows

LEMMA NewGroupFollows ==
  ASSUME NEW key \in Keys, NEW l \in Lines, NEW when \in Time, NEW data \in Nat,
         NEW n \in Int, data = n + 1, clock \in 1 .. MaxTime
  PROVE  LET h == NewGroup(key, l, when, data)
         IN  h.total = 1 /\ h.when = Stamp(when) /\ h.key = key /\ Follows(h, n)
<1> DEFINE b == Opened(key, when, Step(l, {StartState}).next)
<1>1. Stamp(when) \in Time /\ Step(l, {StartState}).next \in SUBSET States
  <2>1. Stamp(when) \in Time
    BY BoundsAssumption DEF Stamp, Time
  <2>2. {StartState} \in SUBSET States
    BY MatcherAssumption
  <2>. QED BY <2>1, <2>2, MatcherAssumption
<1>2. b \in Group /\ b.key = key /\ b.total = 0 /\ b.when = Stamp(when) /\ b.lines = <<>>
      /\ b.bytes = 0 /\ b.capped = FALSE /\ b.acceptedLines = 0 /\ b.acceptedTotal = 0
  <2>1. <<>> \in Seq(RetainedLine) /\ 0 \in Nat /\ FALSE \in BOOLEAN
    OBVIOUS
  <2>. QED BY <2>1, <1>1 DEF Opened, Group, StreamKeys
<1> HIDE DEF b
<1>3. Len(b.lines) = 0
  BY <1>2, LenOfEmpty
<1>4. GroupOK(b) /\ Follows(b, n)
  BY <1>2, <1>3, BoundsAssumption DEF GroupOK, Follows
<1>5. data = n + b.total + 1
  BY <1>2
<1>. QED BY <1>2, <1>4, <1>5, AppendLineFollows DEF NewGroup, b

\* AddAt places its line in g: the group stays pending, behind all others, or is
\* flushed at once.
LEMMA PlaceSerial ==
  ASSUME Inv, Serial, Running("AddAt"), Top.pc \in {"lookup", "drain"},
         NEW g \in Refs, NEW h \in Group,
         heap' = [heap EXCEPT ![g] = h], h.key = Top.key,
         h.total = PendingLines(Top.key) + 1, h.when = Stamp(Top.when),
         Follows(h, Settled(Top.key)),
         \A k \in Keys : k # Top.key => groups[k] # g,
         UNCHANGED <<fed, delivered, lost, clock, raised>>,
         NEW s \in Seq(Refs), ToSet(s) = Linked \ {g},
         \A i, j \in 1 .. Len(s) : i < j => heap'[s[i]].when <= heap'[s[j]].when,
         \/ /\ stack' = Push(SetTop([Top EXCEPT !.pc = "return"]), FlushOf(g))
            /\ \A k \in Keys : groups'[k] = IF k = Top.key THEN Nil ELSE groups[k]
            /\ order' = s
         \/ /\ \E pc \in {"evict", "return"} : stack' = SetTop([Top EXCEPT !.pc = pc])
            /\ \A k \in Keys : groups'[k] = IF k = Top.key THEN g ELSE groups[k]
            /\ order' = Append(s, g)
  PROVE  Serial'
<1>1. /\ Len(stack) = 1 /\ stack # <<>> /\ Top = stack[1] /\ Top \in Frame /\ Top.op = "AddAt"
      /\ Top.key \in Keys /\ Top.when \in Time /\ Top.held \in Nat /\ raised = Top.held
      /\ \A k \in Keys : OwedAt(2, k) = 0 /\
           OwedAt(1, k) = IF Top.key = k /\ Top.pc \in Unplaced THEN 1 ELSE 0
      /\ FrameTimely(Top)
  BY AloneAdd
<1>2. PICK k0 \in Keys : k0 = Top.key
  BY <1>1
<1>3. heap'[g] = h /\ \A r \in Refs : r # g => heap'[r] = heap[r]
  BY DEF Inv, TypeOK
<1>4. /\ \A k : Settled(k)' = Settled(k)
      /\ \A k \in Keys : /\ Settled(k) \in Int /\ PendingLines(k) \in Nat
                         /\ fed[k] = Settled(k) + PendingLines(k) + (IF k = k0 THEN 1 ELSE 0)
      /\ fed'[NoKey] = Settled(NoKey)'
  <2>1. \A k : Settled(k)' = Settled(k)
    BY DEF Settled
  <2>2. \A k \in Keys : OwedAt(1, k) = (IF k = k0 THEN 1 ELSE 0) /\ OwedAt(2, k) = 0
    BY <1>1, <1>2 DEF Unplaced
  <2>3. \A k \in Keys : Settled(k) \in Int /\ PendingLines(k) \in Nat
    BY LineCounts
  <2>4. \A k \in Keys : fed[k] = Settled(k) + PendingLines(k) + OwedAt(1, k) + OwedAt(2, k)
    BY DEF Serial, Accounted
  <2>. QED BY <2>1, <2>2, <2>3, <2>4 DEF Serial, Accounted
<1>5. \A k \in Keys : k # k0 /\ groups[k] # Nil => heap'[groups[k]] = heap[groups[k]]
  BY <1>2, <1>3 DEF Inv, TypeOK
<1>6. /\ \A r \in ToSet(s) : heap'[r].when <= h.when
      /\ h.when <= clock' /\ \A r \in ToSet(s) : heap'[r].when <= clock'
      /\ \A i \in 1 .. Len(s) : s[i] \in ToSet(s)
  <2>1. \A r \in ToSet(s) : r \in Refs /\ r # g /\ r \in Linked
    BY LenProperties, ElementOfSeq DEF ToSet
  <2>2. \A r \in ToSet(s) : heap'[r].when = heap[r].when /\ heap[r].when <= clock
    BY <2>1, <1>3 DEF Serial, Timely
  <2>3. CASE Top.when = ZeroTime
    <3>1. h.when = clock
      BY <2>3 DEF Stamp
    <3>2. clock <= clock
      BY DEF Inv, TypeOK
    <3>. QED BY <3>1, <3>2, <2>2, LenProperties DEF ToSet
  <2>4. CASE Top.when # ZeroTime
    <3>1. h.when = Top.when
      BY <2>4 DEF Stamp
    <3>2. Top.when <= clock /\ \A r \in Linked : heap[r].when <= Top.when
      BY <1>1, <2>4 DEF FrameTimely, Unplaced
    <3>. QED BY <3>1, <3>2, <2>1, <2>2, LenProperties DEF ToSet
  <2>. QED BY <2>3, <2>4
<1>7. Settled(k0) - 0 = Settled(k0) /\ h.total = PendingLines(k0) + 1
      /\ h.total - 0 = PendingLines(k0) + 1
  BY <1>2, <1>4
<1>8. Follows(h, Settled(k0)) /\ h.key = k0
  BY <1>2
<1>9. ASSUME NEW pc \in {"evict", "return"}
      PROVE  LET f == [Top EXCEPT !.pc = pc]
             IN  /\ f \in Frame /\ f.op = "AddAt" /\ f.pc \notin Unplaced /\ f.pc = pc
                 /\ f.held = Top.held
                 /\ SetTop(f) \in Seq(Frame) /\ Len(SetTop(f)) = 1 /\ SetTop(f)[1] = f
  <2> DEFINE f == [Top EXCEPT !.pc = pc]
  <2>1. f \in Frame /\ f.op = "AddAt" /\ f.pc = pc /\ f.held = Top.held
    <3>1. pc \in {"lookup", "start", "drain", "evict", "return"}
      OBVIOUS
    <3>2. Top \in Frame /\ Top.op = "AddAt"
      BY <1>1
    <3>. QED BY <3>1, <3>2, PcFields
  <2>2. f.pc \notin Unplaced
    BY <2>1 DEF Unplaced
  <2> HIDE DEF f
  <2>3. SetTop(f) \in Seq(Frame) /\ Len(SetTop(f)) = 1 /\ SetTop(f)[1] = f
    BY <1>1, <2>1, SetTopProperties DEF Inv, TypeOK
  <2>. QED BY <2>1, <2>2, <2>3 DEF f
<1>10. ASSUME NEW k \in Keys, k # k0, groups'[k] = groups[k], groups'[k] # Nil
       PROVE  Follows(heap[groups[k]], Settled(k))'
  <2>1. heap'[groups'[k]] = heap[groups[k]] /\ Settled(k)' = Settled(k)
    BY <1>4, <1>5, <1>10
  <2>2. Follows(heap[groups[k]], Settled(k))
    BY <1>10 DEF Serial, Numbered
  <2>. QED BY <2>1, <2>2 DEF Follows
<1>11. CASE /\ stack' = Push(SetTop([Top EXCEPT !.pc = "return"]), FlushOf(g))
            /\ \A k \in Keys : groups'[k] = IF k = Top.key THEN Nil ELSE groups[k]
            /\ order' = s
  <2> DEFINE f == [Top EXCEPT !.pc = "return"]
  <2>1. /\ f \in Frame /\ f.op = "AddAt" /\ f.pc = "return" /\ f.pc \notin Unplaced
        /\ f.held = Top.held
        /\ SetTop(f) \in Seq(Frame) /\ Len(SetTop(f)) = 1 /\ SetTop(f)[1] = f
    BY <1>9
  <2>2. /\ FlushOf(g) \in Frame /\ FlushOf(g).op = "flush" /\ FlushOf(g).ref = g
        /\ FlushOf(g).sent = 0 /\ FlushOf(g).held = NoError
    BY FlushOfFrame DEF FlushOf
  <2> HIDE DEF f
  <2>3. Len(stack') = 2 /\ stack'[1] = f /\ stack'[2] = FlushOf(g)
    <3>1. /\ Len(Push(SetTop(f), FlushOf(g))) = Len(SetTop(f)) + 1
          /\ Push(SetTop(f), FlushOf(g))[Len(SetTop(f)) + 1] = FlushOf(g)
          /\ \A i \in 1 .. Len(SetTop(f)) : Push(SetTop(f), FlushOf(g))[i] = SetTop(f)[i]
      BY <2>1, <2>2, PushProperties
    <3>2. stack' = Push(SetTop(f), FlushOf(g))
      BY <1>11 DEF f
    <3>. QED BY <3>1, <3>2, <2>1
  <2>4. OneCall' /\ stack' # <<>> /\ \A i \in 1 .. Len(stack') : i = 1 \/ i = 2
    BY <2>1, <2>2, <2>3, TwoFrames
  <2>5. ErrorsHeld'
    <3>1. HeldAt(1)' = Top.held /\ HeldAt(2)' = NoError
      BY <2>1, <2>2, <2>3 DEF HeldAt
    <3>. QED BY <3>1, <1>1, <2>4, FirstErrs DEF ErrorsHeld
  <2>6. \A k \in Keys : PendingLines(k)' = IF k = k0 THEN 0 ELSE PendingLines(k)
    BY <1>2, <1>5, <1>11 DEF PendingLines
  <2>7. \A k \in Keys : /\ OwedAt(1, k)' = 0
                        /\ OwedAt(2, k)' = IF k = k0 THEN PendingLines(k0) + 1 ELSE 0
    <3>1. \A k \in Keys : Owed(stack[1], k)' = 0
      BY <2>1, <2>3 DEF Owed
    <3>2. \A k \in Keys : Owed(stack[2], k)' = IF k = k0 THEN PendingLines(k0) + 1 ELSE 0
      BY <2>2, <2>3, <1>3, <1>7, <1>8 DEF Owed
    <3>. QED BY <3>1, <3>2, <2>3 DEF OwedAt
  <2>8. Accounted'
    <3>1. ASSUME NEW k \in Keys
          PROVE  fed'[k] = Settled(k)' + PendingLines(k)' + OwedAt(1, k)' + OwedAt(2, k)'
      <4>1. /\ fed'[k] = fed[k] /\ Settled(k)' = Settled(k) /\ OwedAt(1, k)' = 0
            /\ Settled(k) \in Int /\ PendingLines(k) \in Nat
            /\ fed[k] = Settled(k) + PendingLines(k) + (IF k = k0 THEN 1 ELSE 0)
        BY <1>4, <2>7
      <4>2. CASE k = k0
        <5>1. PendingLines(k)' = 0 /\ OwedAt(2, k)' = PendingLines(k) + 1
          BY <4>2, <2>6, <2>7
        <5>. QED BY <4>1, <4>2, <5>1
      <4>3. CASE k # k0
        <5>1. PendingLines(k)' = PendingLines(k) /\ OwedAt(2, k)' = 0
          BY <4>3, <2>6, <2>7
        <5>. QED BY <4>1, <4>3, <5>1
      <4>. QED BY <4>2, <4>3
    <3>. QED BY <3>1, <1>4 DEF Accounted
  <2>9. Numbered'
    <3>1. \A k \in Keys : groups'[k] # Nil => Follows(heap[groups[k]], Settled(k))'
      <4>1. \A k \in Keys : groups'[k] # Nil => k # k0 /\ groups'[k] = groups[k]
        BY <1>2, <1>11
      <4>. QED BY <4>1, <1>10
    <3>2. FrameNumbered(stack[1])'
      BY <2>1, <2>3 DEF FrameNumbered, Unplaced
    <3>3. FrameNumbered(FlushOf(g))'
      <4>1. Settled(k0)' - 0 = Settled(k0)
        BY <1>4, <1>7
      <4>2. Follows(heap[g], Settled(k0) - 0)'
        BY <4>1, <1>3, <1>8 DEF Follows
      <4>3. heap'[g].key = k0 /\ groups'[k0] = Nil
        BY <1>2, <1>3, <1>8, <1>11
      <4>. QED BY <4>2, <4>3, <2>2 DEF FrameNumbered
    <3>. QED BY <3>1, <3>2, <3>3, <2>3, <2>4 DEF Numbered
  <2>10. Timely'
    <3>1. SortedByTime'
      BY <1>11, LenProperties DEF SortedByTime
    <3>2. \A r \in Linked' : heap'[r].when <= clock'
      BY <1>6, <1>11 DEF Linked
    <3>3. FrameTimely(stack[1])' /\ FrameTimely(stack[2])'
      BY <2>1, <2>2, <2>3 DEF FrameTimely
    <3>. QED BY <3>1, <3>2, <3>3, <2>4 DEF Timely
  <2>. QED BY <2>4, <2>5, <2>8, <2>9, <2>10 DEF Serial
<1>12. CASE /\ \E pc \in {"evict", "return"} : stack' = SetTop([Top EXCEPT !.pc = pc])
            /\ \A k \in Keys : groups'[k] = IF k = Top.key THEN g ELSE groups[k]
            /\ order' = Append(s, g)
  <2>1. PICK pc \in {"evict", "return"} : stack' = SetTop([Top EXCEPT !.pc = pc])
    BY <1>12
  <2> DEFINE f == [Top EXCEPT !.pc = pc]
  <2>2. /\ f.op = "AddAt" /\ f.pc \notin Unplaced /\ f.held = Top.held
        /\ Len(SetTop(f)) = 1 /\ SetTop(f)[1] = f
    BY <1>9
  <2> HIDE DEF f
  <2>3. Len(stack') = 1 /\ stack'[1] = f
    BY <2>1, <2>2 DEF f
  <2>4. OneCall' /\ stack' # <<>> /\ \A i \in 1 .. Len(stack') : i = 1
    BY <2>3, OneFrame
  <2>5. ErrorsHeld'
    <3>1. HeldAt(1)' = Top.held /\ HeldAt(2)' = NoError
      BY <2>2, <2>3 DEF HeldAt
    <3>. QED BY <3>1, <1>1, <2>4, FirstErrs DEF ErrorsHeld
  <2>6. g # Nil
    BY NamesAssumption
  <2>7. \A k \in Keys : PendingLines(k)' = IF k = k0 THEN PendingLines(k0) + 1 ELSE PendingLines(k)
    BY <1>2, <1>3, <1>5, <1>7, <1>12, <2>6 DEF PendingLines
  <2>8. \A k \in Keys : OwedAt(1, k)' = 0 /\ OwedAt(2, k)' = 0
    BY <2>2, <2>3 DEF OwedAt, Owed
  <2>9. Accounted'
    <3>1. \A k \in Keys : fed'[k] = Settled(k)' + PendingLines(k)' + OwedAt(1, k)' + OwedAt(2, k)'
      BY <1>4, <2>7, <2>8
    <3>. QED BY <3>1, <1>4 DEF Accounted
  <2>10. Numbered'
    <3>1. \A k \in Keys : groups'[k] # Nil => Follows(heap[groups[k]], Settled(k))'
      <4>. TAKE k \in Keys
      <4>1. CASE k = k0
        BY <4>1, <1>2, <1>3, <1>4, <1>8, <1>12 DEF Follows
      <4>2. CASE k # k0
        <5>1. groups'[k] = groups[k]
          BY <4>2, <1>2, <1>12
        <5>. QED BY <4>2, <5>1, <1>10
      <4>. QED BY <4>1, <4>2
    <3>2. FrameNumbered(stack[1])'
      BY <2>2, <2>3 DEF FrameNumbered, Unplaced
    <3>. QED BY <3>1, <3>2, <2>3, <2>4 DEF Numbered
  <2>11. Timely'
    <3>1. /\ Append(s, g) \in Seq(Refs) /\ ToSet(Append(s, g)) = ToSet(s) \union {g}
      <4>1. /\ Append(s, g) \in Seq(Refs) /\ Len(Append(s, g)) = Len(s) + 1
            /\ \A i \in 1 .. Len(s) : Append(s, g)[i] = s[i]
            /\ Append(s, g)[Len(s) + 1] = g /\ Len(s) \in Nat
        BY AppendProperties, LenProperties
      <4>. QED BY <4>1, LenProperties DEF ToSet
    <3>2. SortedByTime'
      <4> DEFINE w == [r \in Refs |-> heap'[r].when]
                 u == Append(s, g)
      <4>1. /\ \A i \in 1 .. Len(s) : s[i] \in Refs /\ w[s[i]] = heap'[s[i]].when
            /\ \A r \in ToSet(s) : r \in Refs /\ w[r] = heap'[r].when
            /\ w[g] = h.when
        BY <1>3, ElementOfSeq, LenProperties DEF ToSet
      <4> HIDE DEF w
      <4>2. \A i, j \in 1 .. Len(u) : i < j => w[u[i]] <= w[u[j]]
        BY <4>1, <1>6, AppendSorted
      <4>3. \A i \in 1 .. Len(u) : u[i] \in Refs /\ DOMAIN u = 1 .. Len(u)
        BY <3>1, ElementOfSeq, LenProperties
      <4>4. \A i \in 1 .. Len(u) : w[u[i]] = heap'[u[i]].when
        BY <4>3 DEF w
      <4>5. order' = u /\ DOMAIN order' = 1 .. Len(u)
        BY <1>12, <3>1, LenProperties
      <4>. QED BY <4>2, <4>4, <4>5 DEF SortedByTime
    <3>3. \A r \in Linked' : heap'[r].when <= clock'
      BY <1>3, <1>6, <1>12, <3>1 DEF Linked
    <3>4. FrameTimely(stack[1])'
      BY <2>2, <2>3 DEF FrameTimely
    <3>. QED BY <3>2, <3>3, <3>4, <2>4 DEF Timely
  <2>. QED BY <2>4, <2>5, <2>9, <2>10, <2>11 DEF Serial
<1>. QED BY <1>11, <1>12

LEMMA ContinueSerial ==
  ASSUME Inv, Serial, Continue
  PROVE  Serial'
<1> DEFINE me   == Top
           k    == me.key
           next == Step(me.line, heap[groups[k]].active).next
<1>1. /\ Running("AddAt") /\ me.pc = "lookup" /\ groups[k] # Nil
      /\ UNCHANGED <<fed, delivered, lost, clock, raised>>
  BY DEF Continue, At, KeepOutside, history
<1>2. /\ me.op = "AddAt" /\ k \in Keys /\ me.line \in Lines /\ me.when \in Time /\ me.data \in Nat
      /\ FrameNumbered(me)
      /\ \A j \in Keys : OwedAt(2, j) = 0 /\
           OwedAt(1, j) = IF k = j /\ me.pc \in Unplaced THEN 1 ELSE 0
  BY <1>1, AloneAdd
<1>3. PICK g \in Refs : g = groups[k] /\ g \in Linked /\ heap[g].key = k
  BY <1>1, <1>2 DEF Inv, Mapped, TypeOK
<1>4. PICK h : h = Grown(heap[g], me.line, me.when, me.data)
  OBVIOUS
<1>5. /\ heap[g] \in Group /\ GroupOK(heap[g]) /\ TextsOK(heap[g]) /\ heap[g].lines # <<>>
      /\ clock \in 1 .. MaxTime
  BY <1>3 DEF Inv, TypeOK, Formed, Mapped
<1>6. Settled(k) \in Int /\ PendingLines(k) = heap[g].total /\ Follows(heap[g], Settled(k))
  BY <1>1, <1>2, <1>3, LineCounts DEF PendingLines, Serial, Numbered
<1>7. me.data = Settled(k) + heap[g].total + 1
  <2>1. me.data = fed[k]
    BY <1>1, <1>2 DEF FrameNumbered, Unplaced
  <2>2. fed[k] = Settled(k) + PendingLines(k) + OwedAt(1, k) + OwedAt(2, k)
    BY <1>2 DEF Serial, Accounted
  <2>3. OwedAt(1, k) = 1 /\ OwedAt(2, k) = 0
    BY <1>1, <1>2 DEF Unplaced
  <2>4. heap[g].total \in Nat
    BY <1>5 DEF Group
  <2>. QED BY <2>1, <2>2, <2>3, <2>4, <1>6
<1> HIDE DEF k
<1>8. h \in Group
  BY <1>2, <1>4, <1>5, GrownOK
<1>9. h.total = heap[g].total + 1 /\ h.when = Stamp(me.when) /\ h.key = heap[g].key
      /\ Follows(h, Settled(k))
  BY <1>2, <1>4, <1>5, <1>6, <1>7, GrownFollows
<1>10. heap' = [heap EXCEPT ![g] = h]
  BY <1>3, <1>4 DEF Continue, k
<1>11. \A j \in Keys : j # k => groups[j] # g
  BY <1>3, PendingApart
<1>12. /\ Detached(g) \in Seq(Refs) /\ ToSet(Detached(g)) = Linked \ {g}
       /\ \A i, j \in 1 .. Len(Detached(g)) : i < j =>
            heap'[Detached(g)[i]].when <= heap'[Detached(g)[j]].when
  <2>1. \A r \in Refs : r # g => heap'[r] = heap[r]
    BY <1>10 DEF Inv, TypeOK
  <2>. QED BY <2>1, <1>3, DetachSorted DEF Serial, Timely
<1>13. \/ /\ stack' = Push(SetTop([Top EXCEPT !.pc = "return"]), FlushOf(g))
          /\ \A j \in Keys : groups'[j] = IF j = k THEN Nil ELSE groups[j]
          /\ order' = Detached(g)
       \/ /\ \E pc \in {"evict", "return"} : stack' = SetTop([Top EXCEPT !.pc = pc])
          /\ \A j \in Keys : groups'[j] = IF j = k THEN g ELSE groups[j]
          /\ order' = Append(Detached(g), g)
  <2>0. groups \in [Keys -> Refs \union {Nil}] /\ k \in Keys
    BY <1>2 DEF Inv, TypeOK, k
  <2>1. CASE AllFinal(next)
    <3>1. /\ order' = Detached(g) /\ groups' = [groups EXCEPT ![k] = Nil]
          /\ stack' = Push(SetTop([Top EXCEPT !.pc = "return"]), FlushOf(g))
      BY <2>1, <1>3 DEF Continue, k
    <3>. QED BY <3>1, <2>0
  <2>2. CASE ~AllFinal(next)
    <3>1. /\ order' = MovedLast(g) /\ groups' = groups
          /\ stack' = SetTop([Top EXCEPT !.pc = IF MaxTotalBytes > 0 THEN "evict" ELSE "return"])
      BY <2>2, <1>3 DEF Continue, k
    <3>2. \A j \in Keys : groups'[j] = IF j = k THEN g ELSE groups[j]
      BY <3>1, <1>3
    <3>3. \E pc \in {"evict", "return"} : stack' = SetTop([Top EXCEPT !.pc = pc])
      <4>1. CASE MaxTotalBytes > 0
        BY <3>1, <4>1
      <4>2. CASE ~(MaxTotalBytes > 0)
        BY <3>1, <4>2
      <4>. QED BY <4>1, <4>2
    <3>. QED BY <3>1, <3>2, <3>3 DEF MovedLast
  <2>. QED BY <2>1, <2>2
<1>14. h.key = Top.key /\ h.total = PendingLines(Top.key) + 1 /\ h.when = Stamp(Top.when)
       /\ Follows(h, Settled(Top.key)) /\ Top.pc \in {"lookup", "drain"}
  BY <1>1, <1>3, <1>6, <1>9 DEF k
<1>15. \A j \in Keys : j # Top.key => groups[j] # g
  BY <1>11 DEF k
<1>16. \/ /\ stack' = Push(SetTop([Top EXCEPT !.pc = "return"]), FlushOf(g))
          /\ \A j \in Keys : groups'[j] = IF j = Top.key THEN Nil ELSE groups[j]
          /\ order' = Detached(g)
       \/ /\ \E pc \in {"evict", "return"} : stack' = SetTop([Top EXCEPT !.pc = pc])
          /\ \A j \in Keys : groups'[j] = IF j = Top.key THEN g ELSE groups[j]
          /\ order' = Append(Detached(g), g)
  BY <1>13 DEF k
<1>17. PICK s : s = Detached(g)
  OBVIOUS
<1>. QED BY <1>1, <1>8, <1>10, <1>12, <1>14, <1>15, <1>16, <1>17, PlaceSerial

LEMMA ClaimSerial ==
  ASSUME Inv, Serial, Claim
  PROVE  Serial'
<1> DEFINE k    == Top.key
           next == Step(Top.line, {StartState}).next
<1>1. /\ Running("AddAt") /\ Top.pc = "drain" /\ groups[k] = Nil
      /\ UNCHANGED <<fed, delivered, lost, clock, raised>>
  BY DEF Claim, At, KeyIsFree, KeepOutside, history
<1>2. /\ k \in Keys /\ Top.line \in Lines /\ Top.when \in Time /\ Top.data \in Nat
      /\ FrameNumbered(Top) /\ Top.op = "AddAt"
      /\ \A j \in Keys : OwedAt(2, j) = 0 /\
           OwedAt(1, j) = IF k = j /\ Top.pc \in Unplaced THEN 1 ELSE 0
  BY <1>1, AloneAdd
<1>3. PICK h : h = NewGroup(k, Top.line, Top.when, Top.data)
  OBVIOUS
<1>4. PICK g \in Refs :
        /\ Allocates(g)
        /\ heap' = [heap EXCEPT ![g] = h]
        /\ \/ /\ stack' = Push(SetTop([Top EXCEPT !.pc = "return"]), FlushOf(g))
              /\ UNCHANGED <<groups, order, bytes>>
           \/ /\ groups' = [groups EXCEPT ![k] = g]
              /\ order' = Append(order, g)
              /\ stack' = SetTop([Top EXCEPT !.pc = "evict"])
  BY <1>3 DEF Claim
<1>5. g \notin Linked /\ g # Nil /\ order \in Seq(Refs)
      /\ groups \in [Keys -> Refs \union {Nil}] /\ heap \in [Refs -> Group]
      /\ clock \in 1 .. MaxTime
  <2>1. g \notin Linked
    BY <1>4, AllocatesProperties
  <2>. QED BY <2>1, NamesAssumption DEF Inv, TypeOK
<1>6. Settled(k) \in Int /\ PendingLines(k) = 0 /\ Top.data = Settled(k) + 1
  <2>1. Settled(k) \in Int /\ PendingLines(k) = 0
    BY <1>1, <1>2, LineCounts DEF PendingLines
  <2>2. Top.data = fed[k]
    BY <1>1, <1>2 DEF FrameNumbered, Unplaced
  <2>3. fed[k] = Settled(k) + PendingLines(k) + OwedAt(1, k) + OwedAt(2, k)
    BY <1>2 DEF Serial, Accounted
  <2>4. OwedAt(1, k) = 1 /\ OwedAt(2, k) = 0
    BY <1>1, <1>2 DEF Unplaced
  <2>. QED BY <2>1, <2>2, <2>3, <2>4
<1> HIDE DEF k
<1>7. h \in Group /\ h.total = 1 /\ h.when = Stamp(Top.when) /\ h.key = k
      /\ Follows(h, Settled(k))
  <2>1. h \in Group
    BY <1>2, <1>3, <1>5, NewGroupOK
  <2>. QED BY <2>1, <1>2, <1>3, <1>5, <1>6, NewGroupFollows
<1>8. \A j \in Keys : groups[j] # g
  BY <1>5 DEF Inv, Mapped
<1>9. ToSet(order) = Linked \ {g}
  BY <1>5 DEF Linked
<1>10. \A i, j \in 1 .. Len(order) : i < j => heap'[order[i]].when <= heap'[order[j]].when
  <2>1. \A i \in 1 .. Len(order) : order[i] \in Refs /\ order[i] # g
    BY <1>5, <1>9, LenProperties, ElementOfSeq DEF Linked, ToSet
  <2>2. \A i \in 1 .. Len(order) : heap'[order[i]] = heap[order[i]]
    BY <2>1, <1>4, <1>5
  <2>3. DOMAIN order = 1 .. Len(order)
    BY <1>5, LenProperties
  <2>. QED BY <2>2, <2>3 DEF Serial, Timely, SortedByTime
<1>11. \/ /\ stack' = Push(SetTop([Top EXCEPT !.pc = "return"]), FlushOf(g))
          /\ \A j \in Keys : groups'[j] = IF j = Top.key THEN Nil ELSE groups[j]
          /\ order' = order
       \/ /\ \E pc \in {"evict", "return"} : stack' = SetTop([Top EXCEPT !.pc = pc])
          /\ \A j \in Keys : groups'[j] = IF j = Top.key THEN g ELSE groups[j]
          /\ order' = Append(order, g)
  <2>1. CASE /\ stack' = Push(SetTop([Top EXCEPT !.pc = "return"]), FlushOf(g))
             /\ UNCHANGED <<groups, order, bytes>>
    BY <2>1, <1>1 DEF k
  <2>2. CASE /\ groups' = [groups EXCEPT ![k] = g]
             /\ order' = Append(order, g)
             /\ stack' = SetTop([Top EXCEPT !.pc = "evict"])
    <3>1. \A j \in Keys : groups'[j] = IF j = Top.key THEN g ELSE groups[j]
      BY <2>2, <1>2, <1>5 DEF k
    <3>2. \E pc \in {"evict", "return"} : stack' = SetTop([Top EXCEPT !.pc = pc])
      BY <2>2
    <3>. QED BY <2>2, <3>1, <3>2
  <2>. QED BY <1>4, <2>1, <2>2
<1>12. h.key = Top.key /\ h.total = PendingLines(Top.key) + 1 /\ h.when = Stamp(Top.when)
       /\ Follows(h, Settled(Top.key)) /\ Top.pc \in {"lookup", "drain"}
  BY <1>1, <1>6, <1>7 DEF k
<1>13. \A j \in Keys : j # Top.key => groups[j] # g
  BY <1>8
<1>14. PICK s \in Seq(Refs) : s = order
  BY <1>5
<1>. QED BY <1>1, <1>4, <1>7, <1>9, <1>10, <1>11, <1>12, <1>13, <1>14, PlaceSerial
-----------------------------------------------------------------------------
(* A flush hands over a group.                                              *)

\* A flush advances past an entry.
LEMMA AdvanceFields ==
  ASSUME NEW f \in FlushFrame, NEW at \in Nat, NEW d \in Int
  PROVE  LET h == [f EXCEPT !.at = at, !.sent = @ + d]
         IN  /\ h \in FlushFrame /\ h \in Frame /\ h.op = "flush" /\ h.ref = f.ref
             /\ h.held = f.held /\ h.sent = f.sent + d /\ h.at = at
             /\ f.ref \in Refs /\ f.sent \in Int
<1> DEFINE total == f.sent + d
           h == [f EXCEPT !.at = at, !.sent = total]
<1>1. f.sent \in Int /\ f.ref \in Refs /\ f.held \in Nat /\ f.op = "flush"
  BY DEF FlushFrame
<1>2. total \in Int
  BY <1>1
<1>3. h = [f EXCEPT !.at = at, !.sent = @ + d]
  BY DEF FlushFrame
<1> HIDE DEF total
<1>4. /\ h \in FlushFrame /\ h.op = "flush" /\ h.ref = f.ref
      /\ h.held = f.held /\ h.sent = total /\ h.at = at
  BY <1>2 DEF FlushFrame
<1> HIDE DEF h
<1>5. h \in Frame
  BY <1>4 DEF Frame
<1>6. total = f.sent + d
  BY DEF total
<1>. QED BY <1>1, <1>3, <1>4, <1>5, <1>6

\* A flush, whose turn it is, and what is below it.
LEMMA AloneFlush ==
  ASSUME Inv, Serial, Running("flush")
  PROVE  /\ Len(stack) \in {1, 2} /\ stack # <<>> /\ Top = stack[Len(stack)] /\ Top.op = "flush"
         /\ Top \in Frame /\ Top \in FlushFrame /\ Top.held \in Nat
         /\ Len(stack) = 2 =>
              /\ stack[1].op \in {"AddAt", "FlushBefore", "Stop", "FlushKeys"} /\ stack[1] \in Frame
              /\ stack[1].held \in Nat
              /\ stack[1].op = "AddAt" => stack[1].pc # "lookup"
              /\ stack[1].op # "AddAt" => stack[1].held = NoError
         /\ raised = IF Len(stack) = 1 THEN Top.held ELSE FirstErr(stack[1].held, Top.held)
         /\ heap[Top.ref].key \in Keys /\ groups[heap[Top.ref].key] = Nil
         /\ Follows(heap[Top.ref], Settled(heap[Top.ref].key) - Top.sent)
<1>1. stack # <<>> /\ Top.op = "flush" /\ OneCall
  BY DEF Running, Serial
<1>2. /\ Len(stack) \in {1, 2} /\ Top = stack[Len(stack)]
      /\ \A i \in 1 .. Len(stack) : stack[i] \in Frame
      /\ Len(stack) = 2 => stack[1].op \in {"AddAt", "FlushBefore", "Stop", "FlushKeys"}
  <2>1. /\ Top = stack[Len(stack)] /\ \A i \in 1 .. Len(stack) : stack[i] \in Frame
        /\ \/ Len(stack) = 1
           \/ Len(stack) = 2 /\ stack[1].op \in {"AddAt", "FlushBefore", "Stop", "FlushKeys"}
    BY <1>1, Shape
  <2>2. Len(stack) \in {1, 2}
    BY <2>1
  <2>3. Len(stack) = 2 => stack[1].op \in {"AddAt", "FlushBefore", "Stop", "FlushKeys"}
    <3>1. CASE Len(stack) = 1
      BY <3>1
    <3>2. CASE Len(stack) = 2 /\ stack[1].op \in {"AddAt", "FlushBefore", "Stop", "FlushKeys"}
      BY <3>2
    <3>. QED BY <2>1, <3>1, <3>2
  <2>. QED BY <2>1, <2>2, <2>3
<1>3. Top \in Frame /\ Top \in FlushFrame /\ Top.held \in Nat
  <2>1. Top \in Frame
    BY <1>2
  <2>2. Top \in FlushFrame
    BY <1>1, <2>1, FrameKinds
  <2>. QED BY <2>1, <2>2 DEF FlushFrame
<1>4. ASSUME Len(stack) = 2
      PROVE  /\ stack[1].op \in {"AddAt", "FlushBefore", "Stop", "FlushKeys"} /\ stack[1] \in Frame
             /\ stack[1].held \in Nat
             /\ stack[1].op = "AddAt" => stack[1].pc # "lookup"
             /\ stack[1].op # "AddAt" => stack[1].held = NoError
  <2>1. stack[1].op \in {"AddAt", "FlushBefore", "Stop", "FlushKeys"} /\ stack[1] \in Frame
    BY <1>2, <1>4
  <2>2. stack[1].held \in Nat
    <3>1. stack[1].op # "emit"
      BY <2>1
    <3>. QED BY <2>1, <3>1, HeldFrame
  <2>3. InPlace(2) /\ stack[2].op = "flush"
    BY <1>1, <1>2, <1>4 DEF OneCall
  <2>. QED BY <2>1, <2>2, <2>3 DEF InPlace
<1>5. raised = IF Len(stack) = 1 THEN Top.held ELSE FirstErr(stack[1].held, Top.held)
  <2>1. raised = FirstErr(HeldAt(1), HeldAt(2))
    BY <1>1 DEF Serial, ErrorsHeld
  <2>2. CASE Len(stack) = 1
    <3>1. HeldAt(1) = Top.held /\ HeldAt(2) = NoError
      BY <1>1, <1>2, <2>2 DEF HeldAt
    <3>. QED BY <2>1, <2>2, <3>1, <1>3, FirstErrs
  <2>3. CASE Len(stack) = 2
    <3>1. HeldAt(1) = stack[1].held /\ HeldAt(2) = Top.held
      BY <1>1, <1>2, <1>4, <2>3 DEF HeldAt
    <3>. QED BY <2>1, <2>3, <3>1
  <2>. QED BY <1>2, <2>2, <2>3
<1>6. FrameNumbered(Top)
  BY <1>2 DEF Serial, Numbered
<1>7. /\ heap[Top.ref].key \in Keys /\ groups[heap[Top.ref].key] = Nil
      /\ Follows(heap[Top.ref], Settled(heap[Top.ref].key) - Top.sent)
  BY <1>1, <1>6 DEF FrameNumbered
<1>. QED BY <1>1, <1>2, <1>3, <1>4, <1>5, <1>7

\* The emitter is entered above the flush, which is past the entry.
LEMMA EmittedStack ==
  ASSUME Inv, Serial, Running("flush"), Top.held = NoError,
         NEW e \in Entry, NEW at \in Nat, EmitFromGroup(e, at)
  PROVE  \E f, em :
           /\ f.op = "flush" /\ f.ref = Top.ref /\ f.held = NoError
           /\ f.sent = Top.sent + e.lines
           /\ em.op = "emit" /\ em.entry = e
           /\ Len(stack') = Len(stack) + 1
           /\ stack'[Len(stack)] = f /\ stack'[Len(stack) + 1] = em
           /\ \A i \in 1 .. Len(stack) - 1 : stack'[i] = stack[i]
<1> DEFINE n == Len(stack)
           f == [Top EXCEPT !.at = at, !.sent = @ + e.lines]
<1>1. n \in {1, 2} /\ stack # <<>> /\ Top \in FlushFrame /\ Top.op = "flush"
  BY AloneFlush
<1>2. stack' = Push(SetTop(f), EmitOf(e, 0))
  BY DEF EmitFromGroup
<1>3. e.lines \in Int
  BY DEF Entry
<1>4. /\ f \in Frame /\ f.op = "flush" /\ f.ref = Top.ref /\ f.held = NoError
      /\ f.sent = Top.sent + e.lines
  <2>1. PICK top \in FlushFrame : top = Top
    BY <1>1
  <2>2. PICK d \in Int : d = e.lines
    BY <1>3
  <2>3. LET h == [top EXCEPT !.at = at, !.sent = @ + d]
        IN  /\ h \in FlushFrame /\ h \in Frame /\ h.op = "flush" /\ h.ref = top.ref
            /\ h.held = top.held /\ h.sent = top.sent + d /\ h.at = at
            /\ top.ref \in Refs /\ top.sent \in Int
    BY AdvanceFields
  <2>. QED BY <2>1, <2>2, <2>3
<1>5. PICK em : em = EmitOf(e, 0)
  OBVIOUS
<1>6. em \in Frame /\ em.op = "emit" /\ em.entry = e
  BY <1>5 DEF EmitOf, EmitFrame, Frame
<1> HIDE DEF f
<1>7. /\ SetTop(f) \in Seq(Frame) /\ Len(SetTop(f)) = n /\ SetTop(f)[n] = f
      /\ \A i \in 1 .. n - 1 : SetTop(f)[i] = stack[i]
  BY <1>1, <1>4, SetTopProperties DEF Inv, TypeOK
<1>8. /\ Len(Push(SetTop(f), em)) = Len(SetTop(f)) + 1
      /\ Push(SetTop(f), em)[Len(SetTop(f)) + 1] = em
      /\ \A i \in 1 .. Len(SetTop(f)) : Push(SetTop(f), em)[i] = SetTop(f)[i]
  BY <1>6, <1>7, PushProperties
<1>9. n \in 1 .. n /\ \A i \in 1 .. n - 1 : i \in 1 .. n
  BY <1>1
<1>10. /\ Len(stack') = n + 1 /\ stack'[n] = f /\ stack'[n + 1] = em
       /\ \A i \in 1 .. n - 1 : stack'[i] = stack[i]
  BY <1>2, <1>5, <1>7, <1>8, <1>9
<1>. QED BY <1>4, <1>6, <1>10

\* An entry of a group is handed to the emitter.
LEMMA FlushEmitSerial ==
  ASSUME Inv, Serial, Running("flush"), Top.held = NoError,
         NEW e \in Entry, NEW at \in Nat, EmitFromGroup(e, at),
         e.key = heap[Top.ref].key, e.lines > 0, e.data = Settled(e.key) + 1
  PROVE  Serial'
<1> DEFINE n == Len(stack)
<1>1. /\ n \in {1, 2} /\ stack # <<>> /\ Top = stack[n] /\ Top.op = "flush"
      /\ Top \in Frame /\ Top \in FlushFrame
      /\ n = 2 => /\ stack[1].op \in {"AddAt", "FlushBefore", "Stop", "FlushKeys"} /\ stack[1] \in Frame
                  /\ stack[1].op = "AddAt" => stack[1].pc # "lookup"
                  /\ stack[1].op # "AddAt" => stack[1].held = NoError
      /\ e.key \in Keys /\ groups[e.key] = Nil
      /\ Follows(heap[Top.ref], Settled(e.key) - Top.sent)
  BY AloneFlush
<1>2. /\ delivered' = [delivered EXCEPT ![e.key] = @ + e.lines]
      /\ UNCHANGED <<heap, groups, order, clock, raised, result, fed, lost>>
  BY DEF EmitFromGroup, Deliver, KeepOutside, aggregator
<1>3. e.lines \in Int /\ e.key \in StreamKeys
  BY <1>1 DEF Entry, StreamKeys
<1>4. PICK g \in Refs : g = Top.ref
  BY <1>1 DEF FlushFrame
<1>5. Top.sent \in Int /\ heap[g].total \in Nat
  <2>1. Top.sent \in Int
    BY FlushingTop
  <2>. QED BY <2>1 DEF Inv, TypeOK, Group
<1>6. PICK f, em :
        /\ f.op = "flush" /\ f.ref = Top.ref /\ f.held = NoError
        /\ f.sent = Top.sent + e.lines
        /\ em.op = "emit" /\ em.entry = e
        /\ Len(stack') = Len(stack) + 1
        /\ stack'[Len(stack)] = f /\ stack'[Len(stack) + 1] = em
        /\ \A i \in 1 .. Len(stack) - 1 : stack'[i] = stack[i]
  BY EmittedStack
<1>7. f.op = "flush" /\ f.ref = g /\ f.held = NoError /\ f.sent = Top.sent + e.lines
      /\ em.op = "emit" /\ em.entry = e
  BY <1>4, <1>6
<1>8. /\ Len(stack') = n + 1 /\ stack'[n] = f /\ stack'[n + 1] = em
      /\ \A i \in 1 .. n - 1 : stack'[i] = stack[i]
  BY <1>6
<1>9. /\ \A k : PendingLines(k)' = PendingLines(k)
      /\ \A k \in StreamKeys : /\ Settled(k)' = Settled(k) + (IF k = e.key THEN e.lines ELSE 0)
                               /\ Settled(k) \in Int
      /\ \A k \in Keys : PendingLines(k) \in Nat /\ k \in StreamKeys /\ k # NoKey
  <2>1. \A k : PendingLines(k)' = PendingLines(k)
    BY <1>2 DEF PendingLines
  <2>2. delivered \in [StreamKeys -> Int] /\ lost \in [StreamKeys -> Int]
    BY DEF Inv, TypeOK
  <2>3. ASSUME NEW k \in StreamKeys
        PROVE  Settled(k)' = Settled(k) + (IF k = e.key THEN e.lines ELSE 0)
    <3>1. delivered'[k] = delivered[k] + (IF k = e.key THEN e.lines ELSE 0)
      BY <2>2, <1>2, <1>3
    <3>. QED BY <2>2, <3>1, <1>2, <1>3 DEF Settled
  <2>. QED BY <2>1, <2>3, LineCounts
<1>10. fed'[NoKey] = Settled(NoKey)'
  <2>1. NoKey \in StreamKeys /\ e.key # NoKey
    BY <1>1, NamesAssumption DEF StreamKeys
  <2>. QED BY <2>1, <1>2, <1>9 DEF Serial, Accounted
<1>11. \A k \in Keys : groups'[k] # Nil => Follows(heap[groups[k]], Settled(k))'
  <2>. TAKE k \in Keys
  <2>1. CASE k = e.key
    BY <2>1, <1>1, <1>2
  <2>2. CASE k # e.key
    <3>1. Settled(k)' = Settled(k)
      BY <2>2, <1>9
    <3>. QED BY <3>1, <1>2 DEF Serial, Numbered, Follows
  <2>. QED BY <2>1, <2>2
<1>12. ASSUME NEW h, h.op = "flush", h.ref = g, h.sent = Top.sent + e.lines
       PROVE  FrameNumbered(h)'
  <2>1. Settled(e.key) - Top.sent = Settled(e.key)' - (Top.sent + e.lines)
    BY <1>3, <1>5, <1>9
  <2>2. Follows(heap[g], Settled(e.key) - Top.sent)
    BY <1>1, <1>4
  <2>3. \A i \in 1 .. Len(heap'[g].lines) :
          heap'[g].lines[i].data = Settled(e.key)' - (Top.sent + e.lines) + i
    BY <2>1, <2>2, <1>2 DEF Follows
  <2>4. heap'[g].key = e.key /\ e.key \in Keys /\ groups'[e.key] = Nil
    BY <1>1, <1>2, <1>4
  <2>. QED BY <1>12, <2>3, <2>4 DEF FrameNumbered, Follows
<1>13. ASSUME NEW h, h.op = "emit", h.entry = e
       PROVE  FrameNumbered(h)'
  <2>1. e.data + e.lines = Settled(e.key)' + 1
    <3>1. Settled(e.key)' = Settled(e.key) + e.lines /\ Settled(e.key) \in Int
      BY <1>3, <1>9
    <3>. QED BY <3>1, <1>3
  <2>. QED BY <1>13, <2>1 DEF FrameNumbered
<1>14. SortedByTime' /\ \A r \in Linked' : heap'[r].when <= clock'
  BY <1>2 DEF Serial, Timely, SortedByTime, Linked
<1>15. \A k \in Keys :
         /\ fed'[k] = fed[k]
         /\ fed[k] = Settled(k) + PendingLines(k) + OwedAt(1, k) + OwedAt(2, k)
  BY <1>2 DEF Serial, Accounted
<1>16. \A k \in Keys : Owed(Top, k) = (IF k = e.key THEN heap[g].total - Top.sent ELSE 0)
                       /\ Owed(Top, k) \in Int
  BY <1>1, <1>4, <1>5, OwedByKind
<1>17. CASE n = 1
  <2>1. /\ Len(stack') = 2 /\ stack'[1].op = "flush" /\ stack'[1].ref = g
        /\ stack'[1].held = NoError /\ stack'[1].sent = Top.sent + e.lines
        /\ stack'[2].op = "emit" /\ stack'[2].entry = e
    BY <1>5, <1>7, <1>8, <1>17
  <2>2. OneCall' /\ stack' # <<>> /\ \A i \in 1 .. Len(stack') : i = 1 \/ i = 2
    BY <2>1, TwoFrames
  <2>3. ErrorsHeld'
    <3>1. HeldAt(1) = NoError /\ HeldAt(2) = NoError /\ HeldAt(1)' = NoError /\ HeldAt(2)' = NoError
      BY <1>1, <1>17, <2>1 DEF HeldAt
    <3>. QED BY <3>1, <1>1, <1>2, <2>2 DEF Serial, ErrorsHeld
  <2>4. ASSUME NEW k \in Keys
        PROVE  fed'[k] = Settled(k)' + PendingLines(k)' + OwedAt(1, k)' + OwedAt(2, k)'
    <3>1. OwedAt(1, k) = Owed(Top, k) /\ OwedAt(2, k) = 0
      BY <1>1, <1>17 DEF OwedAt
    <3>2. OwedAt(1, k)' = (IF k = e.key THEN heap[g].total - (Top.sent + e.lines) ELSE 0)
          /\ OwedAt(2, k)' = 0
      BY <1>1, <1>2, <1>4, <2>1 DEF OwedAt, Owed
    <3>. QED BY <3>1, <3>2, <1>3, <1>5, <1>9, <1>15, <1>16
  <2>5. Accounted'
    BY <2>4, <1>10 DEF Accounted
  <2>6. Numbered'
    <3>1. FrameNumbered(stack[1])' /\ FrameNumbered(stack[2])'
      <4>1. PICK h1, h2 : h1 = stack'[1] /\ h2 = stack'[2]
        OBVIOUS
      <4>2. FrameNumbered(h1)' /\ FrameNumbered(h2)'
        BY <4>1, <1>12, <1>13, <2>1
      <4>. QED BY <4>1, <4>2 DEF FrameNumbered
    <3>. QED BY <3>1, <1>11, <2>2 DEF Numbered
  <2>7. Timely'
    BY <1>14, <2>1, <2>2 DEF Timely, FrameTimely
  <2>. QED BY <2>2, <2>3, <2>5, <2>6, <2>7 DEF Serial
<1>18. CASE n = 2
  <2>1. /\ Len(stack') = 3 /\ stack'[2].op = "flush" /\ stack'[2].ref = g
        /\ stack'[2].held = NoError /\ stack'[2].sent = Top.sent + e.lines
        /\ stack'[3].op = "emit" /\ stack'[3].entry = e
        /\ stack'[1] = stack[1]
    BY <1>5, <1>7, <1>8, <1>18
  <2>2. /\ stack[1].op \in {"AddAt", "FlushBefore", "Stop", "FlushKeys"}
        /\ stack[1].op = "AddAt" => stack[1].pc # "lookup"
        /\ stack[1].op # "AddAt" => stack[1].held = NoError
        /\ stack[2] = Top
    BY <1>1, <1>18
  <2>3. stack' # <<>>
    <3>1. Len(stack') # 0
      BY <2>1
    <3>. QED BY <3>1, LenOfEmpty
  <2>4. \A i \in 1 .. Len(stack') : i = 1 \/ i = 2 \/ i = 3
    BY <2>1
  <2>5. OneCall'
    <3>1. InPlace(1)' /\ InPlace(2)' /\ InPlace(3)'
      BY <2>1, <2>2 DEF InPlace
    <3>. QED BY <3>1, <2>1, <2>4 DEF OneCall
  <2>6. ErrorsHeld'
    <3>1. HeldAt(1)' = HeldAt(1) /\ HeldAt(2)' = HeldAt(2)
      BY <1>1, <1>18, <2>1, <2>2 DEF HeldAt
    <3>. QED BY <3>1, <1>1, <1>2, <2>3 DEF Serial, ErrorsHeld
  <2>7. ASSUME NEW k \in Keys
        PROVE  fed'[k] = Settled(k)' + PendingLines(k)' + OwedAt(1, k)' + OwedAt(2, k)'
    <3>1. OwedAt(2, k) = Owed(Top, k)
      BY <1>18, <2>2 DEF OwedAt
    <3>2. OwedAt(2, k)' = (IF k = e.key THEN heap[g].total - (Top.sent + e.lines) ELSE 0)
      BY <1>1, <1>2, <1>4, <2>1 DEF OwedAt, Owed
    <3>3. OwedAt(1, k)' = OwedAt(1, k) /\ OwedAt(1, k) \in Int
      <4>1. Owed(stack[1], k)' = Owed(stack[1], k) /\ Owed(stack[1], k) \in Int
        BY <2>1, <2>2 DEF Owed
      <4>. QED BY <4>1, <1>18, <2>1 DEF OwedAt
    <3>. QED BY <3>1, <3>2, <3>3, <1>3, <1>5, <1>9, <1>15, <1>16
  <2>8. Accounted'
    BY <2>7, <1>10 DEF Accounted
  <2>9. Numbered'
    <3>1. FrameNumbered(stack[1])'
      <4>1. FrameNumbered(stack[1])
        BY <1>18 DEF Serial, Numbered
      <4>. QED BY <4>1, <1>2, <2>1, <2>2 DEF FrameNumbered
    <3>2. FrameNumbered(stack[2])' /\ FrameNumbered(stack[3])'
      <4>1. PICK h1, h2 : h1 = stack'[2] /\ h2 = stack'[3]
        OBVIOUS
      <4>2. FrameNumbered(h1)' /\ FrameNumbered(h2)'
        BY <4>1, <1>12, <1>13, <2>1
      <4>. QED BY <4>1, <4>2 DEF FrameNumbered
    <3>. QED BY <3>1, <3>2, <1>11, <2>4 DEF Numbered
  <2>10. Timely'
    <3>1. FrameTimely(stack[1])
      BY <1>18 DEF Serial, Timely
    <3>2. FrameTimely(stack[1])' /\ FrameTimely(stack[2])' /\ FrameTimely(stack[3])'
      BY <3>1, <1>2, <2>1 DEF FrameTimely, Linked
    <3>. QED BY <3>2, <1>14, <2>4 DEF Timely
  <2>. QED BY <2>3, <2>5, <2>6, <2>8, <2>9, <2>10 DEF Serial
<1>. QED BY <1>1, <1>17, <1>18

\* The prefix up to the last accepted line is handed over as the next lines of its key.
LEMMA PrefixNext ==
  ASSUME Inv, Serial, FlushPrefix
  PROVE  \E e \in Entry, at \in Nat :
           /\ EmitFromGroup(e, at)
           /\ e.key = heap[Top.ref].key /\ e.lines > 0 /\ e.data = Settled(e.key) + 1
<1> DEFINE g == heap[Top.ref]
           n == g.acceptedLines
<1>1. Running("flush") /\ Top.held = NoError /\ Top.at = 0 /\ n > 0
      /\ EmitFromGroup(PrefixEntry(g), n)
  BY DEF FlushPrefix
<1>2. /\ g \in Group /\ GroupOK(g) /\ TextsOK(g) /\ Account(Top, g) /\ Top.sent \in Int
  BY <1>1, FlushingTop
<1>3. g.key \in Keys /\ Follows(g, Settled(g.key) - Top.sent)
  BY <1>1, AloneFlush
<1>4. n \in Nat /\ n <= Len(g.lines) /\ Len(g.lines) \in Nat
  BY <1>2 DEF Group, GroupOK
<1>5. Top.sent = 0
  BY <1>1, <1>2 DEF Account
<1>6. Settled(g.key) \in Int
  BY <1>3, LineCounts
<1>7. g.lines[1].data = Settled(g.key) + 1
  <2> HIDE DEF g, n
  <2>1. 1 \in 1 .. Len(g.lines)
    BY <1>1, <1>4
  <2>. QED BY <2>1, <1>3, <1>5, <1>6 DEF Follows
<1>8. PICK e : e = PrefixEntry(g)
  OBVIOUS
<1>9. /\ e \in Entry /\ e.lines > 0 /\ e.key = g.key /\ e.data = Settled(e.key) + 1
  <2>1. e \in Entry /\ e.lines >= 2
    BY <1>1, <1>2, <1>8, PrefixEntryOK
  <2>2. e.key = g.key /\ e.data = g.lines[1].data
    BY <1>8 DEF PrefixEntry
  <2>3. e.lines \in Int
    BY <2>1 DEF Entry
  <2>. QED BY <2>1, <2>2, <2>3, <1>7
<1>10. EmitFromGroup(e, n)
  BY <1>1, <1>8
<1>. QED BY <1>4, <1>9, <1>10

\* What a flush has handed over before a line of its own, and the number of that line.
LEMMA NextLine ==
  ASSUME Inv, Serial, FlushLine
  PROVE  LET g == heap[Top.ref]
             i == Top.at + 1
         IN  /\ i \in 1 .. Len(g.lines) /\ i > g.acceptedLines /\ i \in Nat
             /\ Top.sent = Top.at
             /\ g.lines[i].data = Settled(g.key) + 1
<1> DEFINE g == heap[Top.ref]
           i == Top.at + 1
<1>1. Running("flush") /\ Top.at >= g.acceptedLines /\ Top.at < Len(g.lines)
  BY DEF FlushLine
<1>2. /\ g \in Group /\ GroupOK(g) /\ Account(Top, g) /\ Top.sent \in Int /\ Top.at \in Nat
  BY <1>1, FlushingTop
<1>3. g.key \in Keys /\ Follows(g, Settled(g.key) - Top.sent)
  BY <1>1, AloneFlush
<1>4. /\ g.acceptedLines \in Nat /\ Len(g.lines) \in Nat /\ g.acceptedTotal \in Nat
      /\ g.acceptedLines = 0 => g.acceptedTotal = 0
      /\ g.acceptedLines < Len(g.lines) => g.acceptedTotal = g.acceptedLines
  BY <1>2 DEF Group, GroupOK
<1>5. Settled(g.key) \in Int
  BY <1>3, LineCounts
<1> HIDE DEF g
<1>6. g.acceptedTotal = g.acceptedLines
  BY <1>1, <1>2, <1>4
<1>7. Top.sent = Top.at
  <2>1. CASE Top.at = 0
    BY <2>1, <1>2 DEF Account
  <2>2. CASE Top.at > 0
    <3>1. Top.at # Len(g.lines)
      BY <1>1, <1>2, <1>4
    <3>2. Top.sent = g.acceptedTotal + (Top.at - g.acceptedLines) + 0
      BY <3>1, <2>2, <1>2 DEF Account
    <3>. QED BY <3>2, <1>2, <1>4, <1>6
  <2>. QED BY <2>1, <2>2, <1>2
<1>8. i \in 1 .. Len(g.lines) /\ i > g.acceptedLines /\ i \in Nat
  BY <1>1, <1>2, <1>4
<1>9. g.lines[i].data = Settled(g.key) + 1
  <2>1. g.lines[i].data = Settled(g.key) - Top.sent + i
    BY <1>3, <1>8 DEF Follows
  <2>. QED BY <2>1, <1>2, <1>5, <1>7
<1>. QED BY <1>7, <1>8, <1>9 DEF g

\* A line past the accepted prefix is handed over on its own, as the next of its key.
LEMMA LineNext ==
  ASSUME Inv, Serial, FlushLine
  PROVE  \E e \in Entry, at \in Nat :
           /\ EmitFromGroup(e, at)
           /\ e.key = heap[Top.ref].key /\ e.lines > 0 /\ e.data = Settled(e.key) + 1
<1> DEFINE g == heap[Top.ref]
           i == Top.at + 1
<1>1. Running("flush") /\ Top.held = NoError /\ EmitFromGroup(LineEntry(g, i), i)
  BY DEF FlushLine
<1>2. g \in Group /\ GroupOK(g) /\ TextsOK(g)
  BY <1>1, FlushingTop
<1>3. /\ i \in 1 .. Len(g.lines) /\ i > g.acceptedLines /\ i \in Nat
      /\ g.lines[i].data = Settled(g.key) + 1
  BY NextLine
<1>4. /\ Len(g.lines) \in Nat /\ g.total \in Nat /\ g.acceptedTotal \in Nat /\ g.acceptedLines \in Nat
      /\ Len(g.lines) - g.acceptedLines <= g.total - g.acceptedTotal
  BY <1>2 DEF Group, GroupOK
<1>5. PICK e : e = LineEntry(g, i)
  OBVIOUS
<1>6. /\ e \in Entry /\ e.lines > 0 /\ e.key = g.key /\ e.data = Settled(e.key) + 1
  <2>1. e \in Entry /\ e.lines = 1 + (IF i = Len(g.lines) THEN Dropped(g) ELSE 0)
    BY <1>2, <1>3, <1>5, LineEntryOK
  <2>2. Dropped(g) \in Int /\ Dropped(g) >= 0
    <3> HIDE DEF g
    <3>. QED BY <1>4 DEF Dropped
  <2>3. e.key = g.key /\ e.data = g.lines[i].data
    BY <1>5 DEF LineEntry
  <2>4. e.lines > 0
    BY <2>1, <2>2
  <2>. QED BY <2>1, <2>3, <2>4, <1>3
<1>7. EmitFromGroup(e, i)
  BY <1>1, <1>5
<1>. QED BY <1>3, <1>6, <1>7

LEMMA FlushEntrySerial ==
  ASSUME Inv, Serial, FlushPrefix \/ FlushLine
  PROVE  Serial'
<1>1. PICK e \in Entry, at \in Nat :
        /\ EmitFromGroup(e, at)
        /\ e.key = heap[Top.ref].key /\ e.lines > 0 /\ e.data = Settled(e.key) + 1
  BY PrefixNext, LineNext
<1>2. Running("flush") /\ Top.held = NoError
  BY DEF FlushPrefix, FlushLine
<1>. QED BY <1>1, <1>2, FlushEmitSerial
-----------------------------------------------------------------------------
(* A flush ends.                                                            *)

\* The emitter was given the whole group, or it failed and the rest is lost.
LEMMA FlushEndsSerial ==
  ASSUME Inv, Serial, FlushDone \/ FlushAborts
  PROVE  Serial'
<1> DEFINE n == Len(stack)
           rest == heap[Top.ref].total - Top.sent
<1>1. Running("flush")
  BY DEF FlushDone, FlushAborts
<1>2. /\ n \in {1, 2} /\ stack # <<>> /\ Top = stack[n] /\ Top.op = "flush"
      /\ Top.held \in Nat
      /\ n = 2 => /\ stack[1].op \in {"AddAt", "FlushBefore", "Stop", "FlushKeys"} /\ stack[1] \in Frame
                  /\ stack[1].held \in Nat
                  /\ stack[1].op = "AddAt" => stack[1].pc # "lookup"
                  /\ stack[1].op # "AddAt" => stack[1].held = NoError
      /\ raised = IF n = 1 THEN Top.held ELSE FirstErr(stack[1].held, Top.held)
  BY <1>1, AloneFlush
<1>3. PICK g \in Refs : g = Top.ref
  BY <1>1, FlushingTop
<1>4. PICK k0 \in Keys : k0 = heap[g].key
  BY <1>1, <1>3, AloneFlush
<1>5. /\ g \notin Linked /\ groups[k0] = Nil
  BY <1>1, <1>2, <1>3, <1>4, AloneFlush DEF Inv, Flushing, FlushOK
<1>6. heap[g].total \in Nat /\ Top.sent \in Int /\ rest = heap[g].total - Top.sent /\ rest \in Int
  BY <1>1, <1>3, FlushingTop DEF Group
<1>7. /\ Return(Top.held) /\ heap' = [heap EXCEPT ![g] = Blank]
      /\ UNCHANGED <<groups, order, clock, raised, fed, delivered>>
      /\ lost' = [lost EXCEPT ![k0] = @ + rest]
  <2>1. CASE FlushDone
    <3>1. /\ Return(NoError) /\ Top.held = NoError /\ heap' = [heap EXCEPT ![Top.ref] = Blank]
          /\ UNCHANGED <<groups, order, clock, raised, fed, delivered, lost>>
          /\ Top.at = Len(heap[Top.ref].lines)
      BY <2>1 DEF FlushDone, KeepOutside, history
    <3>2. rest = 0
      <4> DEFINE h == heap[g]
      <4>1. /\ h \in Group /\ GroupOK(h) /\ h.lines # <<>> /\ Account(Top, h)
            /\ Top.at = Len(h.lines)
        BY <1>1, <1>3, <3>1, FlushingTop
      <4>2. /\ Len(h.lines) \in Nat /\ h.acceptedLines \in Nat /\ h.acceptedTotal \in Nat
            /\ h.total \in Nat /\ Len(h.lines) # 0
        BY <4>1 DEF Group
      <4> HIDE DEF h
      <4>3. Top.sent = h.acceptedTotal + (Len(h.lines) - h.acceptedLines) + Dropped(h)
        BY <4>1, <4>2 DEF Account
      <4>4. Top.sent = h.total
        BY <4>2, <4>3 DEF Dropped
      <4>. QED BY <4>4, <1>6 DEF h
    <3>3. lost' = [lost EXCEPT ![k0] = @ + rest]
      <4>1. lost \in [StreamKeys -> Int] /\ k0 \in StreamKeys
        BY DEF Inv, TypeOK, StreamKeys
      <4>. QED BY <4>1, <3>1, <3>2
    <3>. QED BY <3>1, <3>3, <1>3
  <2>2. CASE FlushAborts
    <3>1. /\ Return(Top.held) /\ heap' = [heap EXCEPT ![Top.ref] = Blank]
          /\ UNCHANGED <<groups, order, clock, raised, fed, delivered>>
          /\ lost' = [lost EXCEPT ![heap[Top.ref].key] = @ + heap[Top.ref].total - Top.sent]
      BY <2>2 DEF FlushAborts, KeepOutside
    <3>2. lost[k0] + heap[g].total - Top.sent = lost[k0] + rest
      <4>1. lost[k0] \in Int
        BY DEF Inv, TypeOK, StreamKeys
      <4>. QED BY <4>1, <1>6
    <3>. QED BY <3>1, <3>2, <1>3, <1>4
  <2>. QED BY <2>1, <2>2
<1> HIDE DEF rest
<1>8. /\ Len(stack') = n - 1
      /\ n = 2 => stack'[1] = [stack[1] EXCEPT !.held = FirstErr(@, Top.held)]
  <2>1. stack \in Seq(Frame)
    BY DEF Inv, TypeOK
  <2>2. PICK err \in Nat : err = Top.held
    BY <1>2
  <2>3. /\ Len(Pop(err)) = n - 1
        /\ \A i \in 1 .. n - 1 : Pop(err)[i] =
             IF i = n - 1 /\ stack[n - 1].op # "emit"
             THEN [stack[n - 1] EXCEPT !.held = FirstErr(@, err)] ELSE stack[i]
    BY <1>2, <2>1, PopExact
  <2>4. stack' = Pop(err) /\ (n = 2 => 1 \in 1 .. n - 1 /\ n - 1 = 1 /\ stack[1].op # "emit")
    BY <1>2, <1>7, <2>2 DEF Return
  <2>. QED BY <2>2, <2>3, <2>4
<1>9. /\ \A k \in Keys : PendingLines(k)' = PendingLines(k)
      /\ \A k \in StreamKeys : /\ Settled(k)' = Settled(k) + (IF k = k0 THEN rest ELSE 0)
                               /\ Settled(k) \in Int
      /\ \A k \in Keys : PendingLines(k) \in Nat /\ k \in StreamKeys /\ k # NoKey
  <2>1. ASSUME NEW k \in Keys
        PROVE  PendingLines(k)' = PendingLines(k)
    <3>1. groups[k] # Nil => groups[k] \in Linked /\ groups[k] # g
      BY <1>5 DEF Inv, Mapped
    <3>2. heap \in [Refs -> Group]
      BY DEF Inv, TypeOK
    <3>3. groups[k] # Nil => groups[k] \in Refs /\ heap'[groups[k]] = heap[groups[k]]
      BY <3>1, <3>2, <1>7 DEF Inv, TypeOK
    <3>. QED BY <3>3, <1>7 DEF PendingLines
  <2>2. delivered \in [StreamKeys -> Int] /\ lost \in [StreamKeys -> Int]
    BY DEF Inv, TypeOK
  <2>3. ASSUME NEW k \in StreamKeys
        PROVE  Settled(k)' = Settled(k) + (IF k = k0 THEN rest ELSE 0)
    <3>1. lost'[k] = lost[k] + (IF k = k0 THEN rest ELSE 0)
      BY <2>2, <1>6, <1>7
    <3>. QED BY <2>2, <3>1, <1>6, <1>7 DEF Settled
  <2>. QED BY <2>1, <2>3, LineCounts
<1>10. fed'[NoKey] = Settled(NoKey)'
  <2>1. NoKey \in StreamKeys /\ k0 # NoKey
    BY NamesAssumption DEF StreamKeys
  <2>. QED BY <2>1, <1>7, <1>9 DEF Serial, Accounted
<1>11. /\ \A x \in Linked : heap'[x] = heap[x]
       /\ Linked' = Linked
       /\ \A k \in Keys : groups[k] # Nil =>
            groups[k] \in Linked /\ heap'[groups[k]] = heap[groups[k]] /\ k # k0
  <2>1. \A x \in Linked : heap'[x] = heap[x]
    BY <1>5, <1>7 DEF Inv, TypeOK
  <2>2. \A k \in Keys : groups[k] # Nil => groups[k] \in Linked /\ k # k0
    BY <1>5 DEF Inv, Mapped
  <2>. QED BY <2>1, <2>2, <1>7 DEF Linked
<1>12. \A k \in Keys : groups'[k] # Nil => Follows(heap[groups[k]], Settled(k))'
  <2>. TAKE k \in Keys
  <2>1. CASE groups[k] # Nil
    <3>1. Settled(k)' = Settled(k)
      BY <2>1, <1>9, <1>11
    <3>2. heap'[groups[k]] = heap[groups[k]] /\ groups' = groups
      BY <2>1, <1>7, <1>11
    <3>3. Follows(heap[groups[k]], Settled(k))
      BY <2>1 DEF Serial, Numbered
    <3>. QED BY <3>1, <3>2, <3>3 DEF Follows
  <2>2. CASE groups[k] = Nil
    BY <2>2, <1>7
  <2>. QED BY <2>1, <2>2
<1>13. SortedByTime' /\ \A r \in Linked' : heap'[r].when <= clock'
  <2>1. \A i \in DOMAIN order : order[i] \in Linked
    BY DEF Linked, ToSet
  <2>2. SortedByTime'
    BY <2>1, <1>7, <1>11 DEF Serial, Timely, SortedByTime
  <2>. QED BY <2>2, <1>7, <1>11 DEF Serial, Timely
<1>14. \A k \in Keys :
         /\ fed'[k] = fed[k]
         /\ fed[k] = Settled(k) + PendingLines(k) + OwedAt(1, k) + OwedAt(2, k)
         /\ Owed(Top, k) = (IF k = k0 THEN rest ELSE 0)
  <2>1. \A k \in Keys : Owed(Top, k) = (IF k = k0 THEN rest ELSE 0)
    BY <1>2, <1>3, <1>4, <1>6, OwedByKind
  <2>. QED BY <2>1, <1>7 DEF Serial, Accounted
<1>15. CASE n = 1
  <2>1. stack' = <<>> /\ Len(stack') = 0
    <3>1. Len(stack') = 0
      BY <1>8, <1>15
    <3>2. stack' \in Seq(Frame)
      BY FlushEndsStep DEF Inv, TypeOK
    <3>. QED BY <3>1, <3>2
  <2>2. OneCall'
    BY <2>1 DEF OneCall
  <2>3. ErrorsHeld'
    BY <2>1, <1>2, <1>7, <1>15 DEF ErrorsHeld, Return
  <2>4. ASSUME NEW k \in Keys
        PROVE  fed'[k] = Settled(k)' + PendingLines(k)' + OwedAt(1, k)' + OwedAt(2, k)'
    <3>1. OwedAt(1, k) = Owed(Top, k) /\ OwedAt(2, k) = 0
      BY <1>2, <1>15 DEF OwedAt
    <3>2. OwedAt(1, k)' = 0 /\ OwedAt(2, k)' = 0
      BY <2>1 DEF OwedAt
    <3>. QED BY <3>1, <3>2, <1>6, <1>9, <1>14
  <2>5. Accounted'
    BY <2>4, <1>10 DEF Accounted
  <2>6. Numbered' /\ Timely'
    BY <2>1, <1>12, <1>13 DEF Numbered, Timely
  <2>. QED BY <2>2, <2>3, <2>5, <2>6 DEF Serial
<1>16. CASE n = 2
  <2>1. PICK c \in Frame : c = stack[1]
    BY <1>2, <1>16
  <2>2. PICK err \in Nat : err = Top.held
    BY <1>2
  <2>3. c.op \in {"AddAt", "FlushBefore", "Stop", "FlushKeys"} /\ c.held \in Nat
    BY <1>2, <1>16, <2>1
  <2>4. PICK c1 : c1 = [c EXCEPT !.held = FirstErr(@, err)]
    OBVIOUS
  <2>5. /\ c1.op = c.op /\ c1.held = FirstErr(c.held, err)
        /\ c.op = "AddAt" => /\ c1.pc = c.pc /\ c1.key = c.key /\ c1.data = c.data
                             /\ c1.when = c.when
    BY <2>2, <2>3, <2>4, HeldFields
  <2>6. Len(stack') = 1 /\ stack'[1] = c1 /\ stack' # <<>>
    <3>1. Len(stack') = 1 /\ stack'[1] = c1
      BY <1>8, <1>16, <2>1, <2>2, <2>4
    <3>. QED BY <3>1, LenOfEmpty
  <2>7. OneCall'
    BY <2>3, <2>5, <2>6, OneFrame
  <2>8. ErrorsHeld'
    <3>1. HeldAt(1)' = c1.held /\ HeldAt(2)' = NoError
      BY <2>3, <2>5, <2>6 DEF HeldAt
    <3>2. raised' = c1.held /\ c1.held \in Nat
      BY <1>2, <1>7, <1>16, <2>1, <2>2, <2>3, <2>5, FirstErrs
    <3>. QED BY <3>1, <3>2, <2>6, FirstErrs DEF ErrorsHeld
  <2>9. ASSUME NEW k \in Keys
        PROVE  fed'[k] = Settled(k)' + PendingLines(k)' + OwedAt(1, k)' + OwedAt(2, k)'
    <3>1. OwedAt(1, k) = Owed(c, k) /\ OwedAt(2, k) = Owed(Top, k)
      BY <1>2, <1>16, <2>1 DEF OwedAt
    <3>2. OwedAt(1, k)' = Owed(c1, k)' /\ OwedAt(2, k)' = 0
      BY <2>6 DEF OwedAt
    <3>3. Owed(c1, k)' = Owed(c, k) /\ Owed(c, k) \in Int
      BY <2>3, <2>5 DEF Owed
    <3>. QED BY <3>1, <3>2, <3>3, <1>6, <1>9, <1>14
  <2>10. Accounted'
    BY <2>9, <1>10 DEF Accounted
  <2>11. Numbered'
    <3>1. FrameNumbered(c)
      BY <2>1, <1>16 DEF Serial, Numbered
    <3>2. FrameNumbered(c1)'
      BY <3>1, <2>3, <2>5, <1>7 DEF FrameNumbered
    <3>3. FrameNumbered(stack[1])'
      <4>1. stack'[1] = c1
        BY <2>6
      <4>. QED BY <4>1, <3>2 DEF FrameNumbered
    <3>4. \A i \in 1 .. Len(stack') : i = 1
      BY <2>6
    <3>. QED BY <3>3, <3>4, <1>12 DEF Numbered
  <2>12. Timely'
    <3>1. FrameTimely(c)
      BY <2>1, <1>16 DEF Serial, Timely
    <3>2. FrameTimely(stack[1])'
      BY <3>1, <2>3, <2>5, <2>6, <1>7, <1>11 DEF FrameTimely
    <3>3. \A i \in 1 .. Len(stack') : i = 1
      BY <2>6
    <3>. QED BY <3>2, <3>3, <1>13 DEF Timely
  <2>. QED BY <2>7, <2>8, <2>10, <2>11, <2>12 DEF Serial
<1>. QED BY <1>2, <1>15, <1>16
-----------------------------------------------------------------------------
(* The inductive invariant.                                                 *)

LEMMA InitSerial == Init => Serial
<1>. SUFFICES ASSUME Init PROVE Serial
  OBVIOUS
<1>1. stack = <<>> /\ Len(stack) = 0 /\ \A i \in Int : i \notin 1 .. Len(stack)
  BY DEF Init
<1>2. Linked = {} /\ order = <<>>
  BY DEF Init, Linked, ToSet
<1>3. OneCall /\ ErrorsHeld
  BY <1>1 DEF Init, OneCall, ErrorsHeld
<1>4. \A k \in StreamKeys : fed[k] = 0 /\ Settled(k) = 0
  BY DEF Init, Settled
<1>5. \A k \in Keys : PendingLines(k) = 0 /\ OwedAt(1, k) = 0 /\ OwedAt(2, k) = 0 /\ groups[k] = Nil
  BY <1>1 DEF Init, PendingLines, OwedAt
<1>6. Accounted
  BY <1>4, <1>5 DEF Accounted, StreamKeys
<1>7. Numbered
  BY <1>1, <1>5 DEF Numbered
<1>8. Timely
  BY <1>1, <1>2 DEF Timely, SortedByTime
<1>. QED BY <1>3, <1>6, <1>7, <1>8 DEF Serial

LEMMA NextSerial ==
  ASSUME MaxDepth = 0, Inv, Serial, [Next]_vars
  PROVE  Serial'
<1>1. CASE UNCHANGED vars \/ Tick
  BY <1>1, TickSerial
<1>2. CASE Calls
  <2>1. ASSUME NEW k \in Keys, NEW l \in Lines, NEW timed \in TimeModes,
               CallAdd(k, l, timed)
        PROVE  Serial'
    BY <2>1, CallAddSerial
  <2>2. ASSUME NEW l \in Lines, NEW timed \in TimeModes, CallAddBypass(l, timed)
        PROVE  Serial'
    BY <2>2, CallAddBypassSerial
  <2>3. ASSUME NEW k \in Keys, CallFlush(k) PROVE Serial'
    BY <2>3, CallFlushSerial
  <2>4. CASE CallStop \/ \E t \in 1 .. MaxTime + 1 : CallFlushBefore(t)
    BY <2>4, CallLoopSerial
  <2>. QED BY <1>2, <2>1, <2>2, <2>3, <2>4 DEF Calls
<1>3. CASE Emitter
  BY <1>3, EmitterSerial
<1>4. CASE AddAt
  <2>1. CASE Continue
    BY <2>1, ContinueSerial
  <2>2. CASE Break
    BY <2>2, BreakSerial
  <2>3. CASE Miss \/ Starts
    BY <2>3, MoveSerial
  <2>4. CASE PassThrough
    BY <2>4, PassThroughSerial
  <2>5. CASE Drain
    BY <2>5, NoDrain
  <2>6. CASE Claim
    BY <2>6, ClaimSerial
  <2>7. CASE Evict
    BY <2>7, FlushHeadSerial
  <2>8. CASE AddReturns
    BY <2>8, CallReturnsSerial
  <2>. QED BY <1>4, <2>1, <2>2, <2>3, <2>4, <2>5, <2>6, <2>7, <2>8 DEF AddAt
<1>5. CASE FlushLoop
  BY <1>5, FlushHeadSerial, CallReturnsSerial DEF FlushLoop
<1>6. CASE Flush
  BY <1>6, FlushEntrySerial, FlushEndsSerial DEF Flush
<1>. QED BY <1>1, <1>2, <1>3, <1>4, <1>5, <1>6 DEF Next, Machine

\* When the emitter does not call back, every reachable state satisfies Serial: AddAt,
\* FlushBefore, Stop and Flush run one at a time, and the flush a call makes is the
\* only one in progress (multiline.go:319-442, 560-618).
THEOREM SerialInvariance ==
  ASSUME MaxDepth = 0
  PROVE  Spec => []Serial
<1>1. Init => Serial
  BY InitSerial
<1>2. Inv /\ Serial /\ [Next]_vars => Serial'
  BY NextSerial
<1>. QED BY <1>1, <1>2, Invariance, PTL DEF Spec
-----------------------------------------------------------------------------
(* What follows from it.                                                    *)

\* Between calls no line is owed by an activation.
LEMMA AllAccountedFor ==
  ASSUME Inv, Serial
  PROVE  NothingMissing
<1>. SUFFICES ASSUME Quiet, NEW k \in Keys
              PROVE  fed[k] = delivered[k] + lost[k]
                       + (IF groups[k] = Nil THEN 0 ELSE heap[groups[k]].total)
  BY DEF NothingMissing
<1>1. OwedAt(1, k) = 0 /\ OwedAt(2, k) = 0
  BY DEF Quiet, OwedAt
<1>2. fed[k] = Settled(k) + PendingLines(k) + OwedAt(1, k) + OwedAt(2, k)
  BY DEF Serial, Accounted
<1>3. Settled(k) \in Int /\ PendingLines(k) \in Nat
  BY LineCounts DEF StreamKeys
<1>4. fed[k] = Settled(k) + PendingLines(k)
  BY <1>1, <1>2, <1>3
<1>. QED BY <1>4 DEF Settled, PendingLines

\* When no call is in progress every line ever fed was handed over, lost with a group
\* whose emitter failed, or is pending, whatever the caps dropped (AddAt, flush).
THEOREM NothingIsMissing ==
  ASSUME MaxDepth = 0
  PROVE  Spec => []NothingMissing
BY AllAccountedFor, SerialInvariance, Invariance, PTL

\* A call returns the first error its emitter returned, through however many flushes
\* it made, and no error when there was none (first error wins, multiline.go:333-341).
THEOREM FirstErrorIsReturned ==
  ASSUME MaxDepth = 0
  PROVE  Spec => []FirstErrorReturned
<1>1. Serial => FirstErrorReturned
  BY DEF Serial, ErrorsHeld, FirstErrorReturned, Quiet
<1>2. Spec => []Serial
  BY SerialInvariance
<1>. QED BY <1>1, <1>2, PTL

\* The last-touched list is in the order of the times of its groups, although Add
\* stamps a line when it is placed and AddAt when it is called (touch, moveLast).
THEOREM ListIsSorted ==
  ASSUME MaxDepth = 0
  PROVE  Spec => []SortedByTime
<1>1. Serial => SortedByTime
  BY DEF Serial, Timely
<1>2. Spec => []Serial
  BY SerialInvariance
<1>. QED BY <1>1, <1>2, PTL

\* The loop stops at a group that is not stale, and the list is in the order of time.
LEMMA NoneIsStale ==
  ASSUME Inv, Serial, LoopReturns, Top.held = NoError, NEW g \in Linked
  PROVE  ~(heap[g].when < Top.before)
<1>1. ~Stale /\ SortedByTime
  BY DEF LoopReturns, Serial, Timely
<1>2. /\ order \in Seq(Refs) /\ DOMAIN order = 1 .. Len(order) /\ Len(order) \in Nat
      /\ heap \in [Refs -> Group]
  BY LenProperties DEF Inv, TypeOK
<1>3. PICK i \in 1 .. Len(order) : order[i] = g
  BY <1>2 DEF Linked, ToSet
<1>4. order # <<>> /\ Head(order) = order[1] /\ 1 \in 1 .. Len(order)
  <2>1. order # <<>>
    BY <1>3, <1>2, EmptySeq
  <2>. QED BY <2>1, <1>2, <1>3
<1>5. ~(heap[order[1]].when < Top.before)
  BY <1>1, <1>4 DEF Stale
<1>6. heap[order[1]].when <= heap[g].when
  <2>1. CASE i = 1
    <3>1. g \in Refs
      BY <1>2, <1>3, ElementOfSeq
    <3>2. heap[g].when \in Int
      BY <3>1, <1>2, BoundsAssumption DEF Group, Time
    <3>. QED BY <2>1, <1>3, <3>2
  <2>2. CASE i # 1
    <3>1. 1 < i
      BY <2>2, <1>2, <1>3
    <3>. QED BY <3>1, <1>1, <1>2, <1>3, <1>4 DEF SortedByTime
  <2>. QED BY <2>1, <2>2
<1>7. heap[order[1]].when \in Int /\ heap[g].when \in Int /\ Top.before \in Int
  <2>1. order[1] \in Refs /\ g \in Refs
    BY <1>2, <1>3, <1>4, ElementOfSeq
  <2>2. heap[order[1]].when \in Int /\ heap[g].when \in Int
    <3>1. \A t \in Time : t \in Int
      BY BoundsAssumption DEF Time
    <3>2. \A r \in Refs : heap[r].when \in Time
      BY <1>2 DEF Group
    <3>. QED BY <2>1, <3>1, <3>2
  <2>3. Top.op \in {"FlushBefore", "Stop"} /\ Top \in Frame
    BY AloneLoop DEF LoopReturns
  <2>4. Top \in LoopFrame
    BY <2>3, FrameKinds
  <2>. QED BY <2>2, <2>4 DEF LoopFrame
<1>. QED BY <1>5, <1>6, <1>7

\* FlushBefore may stop at the first group that is not stale: when it returns without
\* an error no group last touched before its time is left, and none at all after Stop.
THEOREM FlushBeforeCompletes ==
  ASSUME MaxDepth = 0
  PROVE  Spec => FlushBeforeIsComplete
<1>1. Inv /\ Serial /\ [Next]_vars =>
        [(LoopReturns /\ Top.held = NoError) =>
           \A g \in Linked : ~(heap[g].when < Top.before)]_vars
  BY NoneIsStale
<1>2. Spec => []Serial
  BY SerialInvariance
<1>. QED BY <1>1, <1>2, Invariance, PTL DEF Spec, FlushBeforeIsComplete
-----------------------------------------------------------------------------
(* The order entries come out in.                                           *)

\* What the emitter is entered with is counted as handed over, and nothing else is.
LEMMA EmitsDeliver ==
  ASSUME Inv, [Next]_vars, Emits
  PROVE  LET e == Last(stack').entry
         IN  /\ e.key \in StreamKeys /\ e.lines \in Int
             /\ delivered' = [delivered EXCEPT ![e.key] = @ + e.lines]
             /\ lost' = lost
<1> DEFINE e == Last(stack').entry
<1>1. ASSUME NEW st \in Seq(Frame), NEW key \in StreamKeys, NEW l \in Lines,
             NEW when \in Time, NEW data \in Nat, EmitLine(st, key, l, when, data)
      PROVE  /\ e.key \in StreamKeys /\ e.lines \in Int
             /\ delivered' = [delivered EXCEPT ![e.key] = @ + e.lines]
  <2>1. /\ Len(stack') = Len(st) + 1
        /\ stack'[Len(st) + 1].entry.key = key /\ stack'[Len(st) + 1].entry.lines = 1
        /\ delivered' = [delivered EXCEPT ![key] = @ + 1]
    BY <1>1, EmitLineEntry
  <2>2. e.key = key /\ e.lines = 1
    BY <2>1 DEF Last
  <2> HIDE DEF e
  <2>. QED BY <2>1, <2>2
<1>2. ASSUME NEW x \in Entry, NEW at \in Nat, Running("flush"), EmitFromGroup(x, at)
      PROVE  /\ e.key \in StreamKeys /\ e.lines \in Int
             /\ delivered' = [delivered EXCEPT ![e.key] = @ + e.lines]
  <2> DEFINE f == [Top EXCEPT !.at = at, !.sent = @ + x.lines]
  <2>1. Top \in FlushFrame /\ stack \in Seq(Frame) /\ stack # <<>> /\ Top.sent \in Int
    BY <1>2, FlushingTop
  <2>2. Top.sent + x.lines \in Int
    BY <2>1 DEF Entry
  <2>3. f \in Frame
    BY <2>1, <2>2 DEF FlushFrame, Frame
  <2>4. EmitOf(x, 0) \in Frame /\ EmitOf(x, 0).entry = x
    BY DEF EmitOf, EmitFrame, Frame
  <2>5. SetTop(f) \in Seq(Frame)
    BY <2>1, <2>3, SetTopProperties
  <2>6. stack' = Push(SetTop(f), EmitOf(x, 0)) /\ delivered' = [delivered EXCEPT ![x.key] = @ + x.lines]
    BY <1>2 DEF EmitFromGroup, Deliver
  <2> HIDE DEF f
  <2>7. e = x
    BY <2>4, <2>5, <2>6, LastOfPush
  <2>. QED BY <2>6, <2>7 DEF Entry
<1> HIDE DEF e
<1>3. ASSUME NEW l \in Lines, NEW timed \in TimeModes, CallAddBypass(l, timed)
      PROVE  /\ e.key \in StreamKeys /\ e.lines \in Int
             /\ delivered' = [delivered EXCEPT ![e.key] = @ + e.lines] /\ lost' = lost
  <2>1. /\ When(timed) \in Time /\ fed[NoKey] + 1 \in Nat /\ NoKey \in StreamKeys
        /\ stack \in Seq(Frame)
    BY BoundsAssumption DEF Inv, TypeOK, Time, ZeroTime, StreamKeys, When
  <2>2. EmitLine(stack, NoKey, l, When(timed), fed[NoKey] + 1) /\ lost' = lost
    BY <1>3 DEF CallAddBypass, CallAddAtBypass
  <2>. QED BY <1>1, <2>1, <2>2
<1>4. CASE PassThrough
  <2> DEFINE st == SetTop([Top EXCEPT !.pc = "return"])
  <2>1. /\ Running("AddAt") /\ EmitLine(st, Top.key, Top.line, Top.when, Top.data)
        /\ lost' = lost
    BY <1>4 DEF PassThrough, At
  <2>2. st \in Seq(Frame)
    BY <2>1, PcStep
  <2>3. Top.key \in StreamKeys /\ Top.line \in Lines /\ Top.when \in Time /\ Top.data \in Nat
    BY <2>1, TopFrame, AddFramePc DEF Inv, TypeOK, Running, StreamKeys
  <2> HIDE DEF st
  <2>. QED BY <1>1, <2>1, <2>2, <2>3 DEF e
<1>5. CASE FlushPrefix \/ FlushLine
  <2>1. \E x \in Entry, at \in Nat : EmitFromGroup(x, at) /\ Running("flush")
    <3> DEFINE g == heap[Top.ref]
    <3>1. /\ Running("flush") /\ g \in Group /\ GroupOK(g) /\ TextsOK(g) /\ Top.at \in Nat
          /\ g.acceptedLines \in Nat /\ Len(g.lines) \in Nat
      <4>1. Running("flush")
        BY <1>5 DEF FlushPrefix, FlushLine
      <4>2. g \in Group /\ GroupOK(g) /\ TextsOK(g) /\ Top.at \in Nat
        BY <4>1, FlushingTop
      <4>. QED BY <4>1, <4>2 DEF Group
    <3>2. CASE FlushPrefix
      <4>1. g.acceptedLines > 0 /\ EmitFromGroup(PrefixEntry(g), g.acceptedLines)
        BY <3>2 DEF FlushPrefix
      <4> HIDE DEF g
      <4>2. PrefixEntry(g) \in Entry
        BY <3>1, <4>1, PrefixEntryOK
      <4>. QED BY <3>1, <4>1, <4>2
    <3>3. CASE FlushLine
      <4>1. /\ Top.at >= g.acceptedLines /\ Top.at < Len(g.lines)
            /\ EmitFromGroup(LineEntry(g, Top.at + 1), Top.at + 1)
        BY <3>3 DEF FlushLine
      <4>2. PICK i \in Nat : i = Top.at + 1
        BY <3>1
      <4>3. i \in 1 .. Len(g.lines) /\ i > g.acceptedLines
        <5> HIDE DEF g
        <5>. QED BY <3>1, <4>1, <4>2
      <4> HIDE DEF g
      <4>4. LineEntry(g, i) \in Entry
        BY <3>1, <4>3, LineEntryOK
      <4>. QED BY <3>1, <4>1, <4>2, <4>4
    <3>. QED BY <1>5, <3>2, <3>3
  <2>2. PICK x \in Entry, at \in Nat : EmitFromGroup(x, at) /\ Running("flush")
    BY <2>1
  <2>3. lost' = lost
    BY <2>2 DEF EmitFromGroup
  <2>. QED BY <1>2, <2>2, <2>3 DEF e
<1>. QED BY <1>3, <1>4, <1>5, WhoEmits DEF e

\* An entry counted as handed over starts at the first line not yet settled.
LEMMA HandedInOrder ==
  ASSUME Inv, Inv', Serial', Emits, lost' = lost,
         LET e == Last(stack').entry
         IN  /\ e.key \in StreamKeys /\ e.lines \in Int
             /\ delivered' = [delivered EXCEPT ![e.key] = @ + e.lines]
  PROVE  LET e == Last(stack').entry IN e.data = delivered[e.key] + lost[e.key] + 1
<1>1. PICK f : f = Last(stack')
  OBVIOUS
<1>2. PICK e : e = f.entry
  OBVIOUS
<1>3. /\ e.key \in StreamKeys /\ e.lines \in Int /\ lost' = lost
      /\ delivered' = [delivered EXCEPT ![e.key] = @ + e.lines]
  BY <1>1, <1>2
<1>4. PICK n \in Nat : n = Len(stack')
  BY LenProperties DEF Inv, TypeOK
<1>5. n \in 1 .. Len(stack') /\ stack'[n] = f /\ f.op = "emit" /\ f \in Frame
  <2>1. Len(stack) \in Nat /\ stack' \in Seq(Frame)
    BY LenProperties DEF Inv, TypeOK
  <2>2. n \in 1 .. Len(stack')
    BY <1>4, <2>1 DEF Emits
  <2>3. stack'[n] = f /\ f.op = "emit"
    BY <1>1, <1>4 DEF Emits, Last
  <2>. QED BY <2>1, <2>2, <2>3, ElementOfSeq
<1>6. FrameNumbered(f)'
  <2>1. FrameNumbered(stack[n])'
    BY <1>5 DEF Serial, Numbered
  <2>. QED BY <2>1, <1>5 DEF FrameNumbered
<1>7. e.data + e.lines = delivered'[e.key] + lost'[e.key] + 1
  BY <1>2, <1>5, <1>6 DEF FrameNumbered, Settled
<1>8. e.data \in Int
  <2>1. f \in EmitFrame
    BY <1>5, FrameKinds
  <2>. QED BY <2>1, <1>2 DEF EmitFrame, Entry
<1>9. delivered'[e.key] = delivered[e.key] + e.lines
      /\ delivered[e.key] \in Int /\ lost[e.key] \in Int
  BY <1>3 DEF Inv, TypeOK
<1>10. e.data = delivered[e.key] + lost[e.key] + 1
  <2>1. PICK d \in Int, b \in Int, c \in Int, m \in Int :
          d = e.data /\ b = delivered[e.key] /\ c = lost[e.key] /\ m = e.lines
    BY <1>3, <1>8, <1>9
  <2>2. d + m = b + m + c + 1
    BY <2>1, <1>3, <1>7, <1>9
  <2>3. d = b + c + 1
    BY <2>2
  <2>. QED BY <2>1, <2>3
<1>. QED BY <1>1, <1>2, <1>10

\* The entries of a key come out in the order its lines went in, each starting at the
\* first line not yet settled, whatever flush they come from (AddAt, flush, emitLine).
THEOREM EntriesInOrder ==
  ASSUME MaxDepth = 0
  PROVE  Spec => InOrder
<1>1. Inv /\ Inv' /\ Serial' /\ [Next]_vars =>
        [Emits => LET e == Last(stack').entry
                  IN  e.data = delivered[e.key] + lost[e.key] + 1]_vars
  BY EmitsDeliver, HandedInOrder
<1>2. Spec => []Serial
  BY SerialInvariance
<1>. QED BY <1>1, <1>2, Invariance, PTL DEF Spec, InOrder
-----------------------------------------------------------------------------
(* What the log sees of the stack: its first activation and its last one.   *)

CallOf(f) ==
  CASE f.op = "AddAt" -> [op |-> "Add", key |-> f.key]
    [] f.op = "flush" -> [op |-> "Flush", key |-> heap[f.ref].key]
    [] f.op = "emit"  -> [op |-> "Add", key |-> f.entry.key]
    [] OTHER          -> [op |-> f.op]

OutOf(f) ==
  IF f.op = "emit"
  THEN [key |-> f.entry.key, first |-> f.entry.data, lines |-> f.entry.lines]
  ELSE NoEntry

BrokenOf(f) == IF f.op = "flush" /\ f.held # NoError THEN heap[f.ref].key ELSE NoKey

\* The lines of the log that were settled.
SettledNow == [k \in StreamKeys |-> delivered[k] + lost[k]]

\* A step of the log, or none, that leaves what the next one needs.
LogStep == [Log!Next]_(Log!vars) /\ Named'

LEMMA ViewsNow ==
  /\ stack = <<>> => CallNow = NoCall /\ OutNow = NoEntry /\ BrokenNow = NoKey
  /\ stack # <<>> => /\ CallNow = CallOf(stack[1])
                     /\ OutNow = OutOf(stack[Len(stack)])
                     /\ BrokenNow = BrokenOf(stack[Len(stack)])
BY DEF CallNow, OutNow, BrokenNow, CallOf, OutOf, BrokenOf, Running, Top, Last

LEMMA ViewsNext ==
  /\ stack' = <<>> => CallNow' = NoCall /\ OutNow' = NoEntry /\ BrokenNow' = NoKey
  /\ \A f, t :
       stack' # <<>> /\ f = stack'[1] /\ t = stack'[Len(stack')] =>
         CallNow' = CallOf(f)' /\ OutNow' = OutOf(t)' /\ BrokenNow' = BrokenOf(t)'
BY DEF CallNow, OutNow, BrokenNow, CallOf, OutOf, BrokenOf, Running, Top, Last

\* What each kind of activation shows.
LEMMA KindsNow ==
  ASSUME NEW f
  PROVE  /\ f.op = "AddAt" => CallOf(f) = [op |-> "Add", key |-> f.key]
         /\ f.op = "flush" => CallOf(f) = [op |-> "Flush", key |-> heap[f.ref].key]
         /\ f.op = "emit" => CallOf(f) = [op |-> "Add", key |-> f.entry.key]
         /\ f.op \in {"FlushBefore", "Stop", "FlushKeys"} => CallOf(f) = [op |-> f.op]
         /\ f.op # "emit" => OutOf(f) = NoEntry
         /\ f.op = "emit" => OutOf(f) = [key |-> f.entry.key, first |-> f.entry.data,
                                         lines |-> f.entry.lines]
         /\ f.op # "flush" \/ f.held = NoError => BrokenOf(f) = NoKey
         /\ f.op = "flush" /\ f.held # NoError => BrokenOf(f) = heap[f.ref].key
BY DEF CallOf, OutOf, BrokenOf

LEMMA KindsNext ==
  ASSUME NEW f
  PROVE  /\ f.op = "AddAt" => CallOf(f)' = [op |-> "Add", key |-> f.key]
         /\ f.op = "flush" => CallOf(f)' = [op |-> "Flush", key |-> heap'[f.ref].key]
         /\ f.op = "emit" => CallOf(f)' = [op |-> "Add", key |-> f.entry.key]
         /\ f.op \in {"FlushBefore", "Stop", "FlushKeys"} => CallOf(f)' = [op |-> f.op]
         /\ f.op # "emit" => OutOf(f)' = NoEntry
         /\ f.op = "emit" => OutOf(f)' = [key |-> f.entry.key, first |-> f.entry.data,
                                          lines |-> f.entry.lines]
         /\ f.op # "flush" \/ f.held = NoError => BrokenOf(f)' = NoKey
         /\ f.op = "flush" /\ f.held # NoError => BrokenOf(f)' = heap'[f.ref].key
BY DEF CallOf, OutOf, BrokenOf
-----------------------------------------------------------------------------
(* Steps the log does not see.                                              *)

\* The log is as it was when its lines, its call and what the emitter holds are.
LEMMA LogKept ==
  ASSUME UNCHANGED <<fed, delivered, lost>>,
         raised' # NoError <=> raised # NoError, result' # NoError <=> result # NoError,
         CallNow' = CallNow, OutNow' = OutNow, BrokenNow' = BrokenNow
  PROVE  UNCHANGED Log!vars
BY DEF Log!vars

LEMMA TickLog ==
  ASSUME Named, Tick \/ UNCHANGED vars
  PROVE  LogStep
<1>1. UNCHANGED <<stack, heap, fed, delivered, lost, raised, result>>
  BY DEF Tick, vars, aggregator, history
<1>2. CallNow' = CallNow /\ OutNow' = OutNow /\ BrokenNow' = BrokenNow
  BY <1>1 DEF CallNow, OutNow, BrokenNow, Running, Top
<1>3. Named'
  BY <1>1 DEF Named, Handing
<1>. QED BY <1>1, <1>2, <1>3, LogKept DEF LogStep

\* A call goes on, or starts or ends a flush that went well.
LEMMA SilentStep ==
  ASSUME Named, UNCHANGED <<fed, delivered, lost, raised, result>>,
         Len(stack) \in Nat,
         NEW f, NEW h, f = stack[1], h = stack'[1],
         f.op \in {"AddAt", "FlushBefore", "Stop", "FlushKeys"}, h.op = f.op,
         f.op = "AddAt" => h.key = f.key,
         f.op = "Stop" => h.before = f.before,
         \/ Len(stack) = 1
         \/ Len(stack) = 2 /\ stack[2].op = "flush" /\ stack[2].held = NoError,
         \/ Len(stack') = 1
         \/ Len(stack') = 2 /\ stack'[2].op = "flush" /\ stack'[2].held = NoError
  PROVE  LogStep
<1>1. stack # <<>> /\ stack' # <<>>
  <2>1. Len(stack) # 0 /\ Len(stack') # 0
    OBVIOUS
  <2>. QED BY <2>1, LenOfEmpty
<1>2. PICK t, u : t = stack[Len(stack)] /\ u = stack'[Len(stack')]
  OBVIOUS
<1>3. /\ t.op # "emit" /\ (t.op = "flush" => t.held = NoError)
      /\ u.op # "emit" /\ (u.op = "flush" => u.held = NoError)
  BY <1>2
<1>4. /\ CallNow = CallOf(f) /\ OutNow = OutOf(t) /\ BrokenNow = BrokenOf(t)
      /\ CallNow' = CallOf(h)' /\ OutNow' = OutOf(u)' /\ BrokenNow' = BrokenOf(u)'
  BY <1>1, <1>2, ViewsNow, ViewsNext
<1>5. CallOf(h)' = CallOf(f)
  BY KindsNow, KindsNext
<1>6. OutOf(t) = NoEntry /\ BrokenOf(t) = NoKey /\ OutOf(u)' = NoEntry /\ BrokenOf(u)' = NoKey
  BY <1>3, KindsNow, KindsNext
<1>7. Named'
  <2>1. f.op = "Stop" => f.before = Forever
    BY <1>1 DEF Named, Handing
  <2>2. \A i \in 1 .. Len(stack') : i = 1 \/ (i = 2 /\ stack'[2].op = "flush")
    <3>1. CASE Len(stack') = 1
      BY <3>1
    <3>2. CASE Len(stack') = 2 /\ stack'[2].op = "flush"
      BY <3>2
    <3>. QED BY <3>1, <3>2
  <2>. QED BY <2>1, <2>2 DEF Named, Handing
<1>. QED BY <1>4, <1>5, <1>6, <1>7, LogKept DEF LogStep

\* The one call in progress goes on as h, and flushes g.
LEMMA PushedFlush ==
  ASSUME Inv, Len(stack) = 1, NEW h \in Frame, NEW g \in Refs,
         stack' = Push(SetTop(h), FlushOf(g))
  PROVE  /\ stack'[1] = h
         /\ Len(stack') = 2 /\ stack'[2].op = "flush" /\ stack'[2].held = NoError
<1>1. stack # <<>> /\ stack \in Seq(Frame)
  <2>1. Len(stack) # 0
    OBVIOUS
  <2>. QED BY <2>1, LenOfEmpty DEF Inv, TypeOK
<1>2. SetTop(h) \in Seq(Frame) /\ Len(SetTop(h)) = 1 /\ SetTop(h)[1] = h
  BY <1>1, SetTopProperties
<1>3. PICK e : e = FlushOf(g)
  OBVIOUS
<1>4. e \in Frame /\ e.op = "flush" /\ e.held = NoError
  BY <1>3, FlushOfFrame DEF FlushOf
<1>5. /\ Len(Push(SetTop(h), e)) = Len(SetTop(h)) + 1
      /\ Push(SetTop(h), e)[Len(SetTop(h)) + 1] = e
      /\ \A i \in 1 .. Len(SetTop(h)) : Push(SetTop(h), e)[i] = SetTop(h)[i]
  BY <1>2, <1>4, PushProperties
<1>. QED BY <1>2, <1>3, <1>4, <1>5

\* AddAt works on its line, up to the point where an entry is handed over.
LEMMA AddLog ==
  ASSUME Inv, Serial, Named, Continue \/ Break \/ Miss \/ Starts \/ Claim
  PROVE  LogStep
<1>1. Running("AddAt") /\ UNCHANGED <<fed, delivered, lost, raised, result>>
  BY DEF Continue, Break, Miss, Starts, Claim, At, KeepOutside, history
<1>2. /\ Len(stack) = 1 /\ stack # <<>> /\ Top = stack[1] /\ Top \in Frame /\ Top.op = "AddAt"
      /\ Top.key \in Keys
  BY <1>1, AloneAdd
<1>3. \E pc \in {"lookup", "start", "drain", "evict", "return"} :
        \/ stack' = SetTop([Top EXCEPT !.pc = pc])
        \/ \E g \in Refs : stack' = Push(SetTop([Top EXCEPT !.pc = pc]), FlushOf(g))
  <2>1. groups[Top.key] # Nil => groups[Top.key] \in Refs
    BY <1>2 DEF Inv, TypeOK
  <2>2. CASE Continue
    BY <2>1, <2>2 DEF Continue
  <2>3. CASE Break
    BY <2>1, <2>3 DEF Break
  <2>4. CASE Miss \/ Starts
    BY <2>4 DEF Miss, Starts
  <2>5. CASE Claim
    BY <2>5 DEF Claim
  <2>. QED BY <2>2, <2>3, <2>4, <2>5
<1>4. PICK pc \in {"lookup", "start", "drain", "evict", "return"} :
        \/ stack' = SetTop([Top EXCEPT !.pc = pc])
        \/ \E g \in Refs : stack' = Push(SetTop([Top EXCEPT !.pc = pc]), FlushOf(g))
  BY <1>3
<1>5. PICK f \in Frame : f = Top /\ f = stack[1] /\ f.op = "AddAt"
  BY <1>2
<1>6. PICK h : h = [f EXCEPT !.pc = pc]
  OBVIOUS
<1>7. h \in Frame /\ h.op = "AddAt" /\ h.key = f.key
  BY <1>5, <1>6, PcFields
<1>8. /\ stack'[1] = h
      /\ \/ Len(stack') = 1
         \/ Len(stack') = 2 /\ stack'[2].op = "flush" /\ stack'[2].held = NoError
  <2>1. CASE stack' = SetTop(h)
    <3>1. SetTop(h) \in Seq(Frame) /\ Len(SetTop(h)) = 1 /\ SetTop(h)[1] = h
      BY <1>2, <1>7, SetTopProperties DEF Inv, TypeOK
    <3>. QED BY <2>1, <3>1
  <2>2. ASSUME NEW g \in Refs, stack' = Push(SetTop(h), FlushOf(g))
        PROVE  /\ stack'[1] = h
               /\ Len(stack') = 2 /\ stack'[2].op = "flush" /\ stack'[2].held = NoError
    BY <1>2, <1>7, <2>2, PushedFlush
  <2>. QED BY <1>4, <1>5, <1>6, <2>1, <2>2
<1>9. /\ Len(stack) \in Nat /\ f.op \in {"AddAt", "FlushBefore", "Stop", "FlushKeys"} /\ h.op = f.op
      /\ f.op = "AddAt" => h.key = f.key
      /\ f.op = "Stop" => h.before = f.before
  BY <1>2, <1>5, <1>7
<1>10. f = stack[1] /\ h = stack'[1] /\ Len(stack) = 1
  BY <1>2, <1>5, <1>8
<1>. QED BY <1>1, <1>8, <1>9, <1>10, SilentStep

\* The loops of evict, FlushBefore and Stop flush the first group of the list.
LEMMA FlushHeadLog ==
  ASSUME Inv, Serial, Named, Evict \/ FlushFirst
  PROVE  LogStep
<1>1. /\ order # <<>> /\ stack' = Push(stack, FlushOf(Head(order)))
      /\ UNCHANGED <<fed, delivered, lost, raised, result>>
  BY EmptySeq DEF Evict, OverCaps, FlushFirst, Stale, KeepOutside, history, Inv, TypeOK
<1>2. /\ Len(stack) = 1 /\ Top = stack[1] /\ Top \in Frame
      /\ Top.op \in {"AddAt", "FlushBefore", "Stop", "FlushKeys"}
  <2>1. CASE Evict
    BY <2>1, AloneAdd DEF Evict, At
  <2>2. CASE FlushFirst
    BY <2>2, AloneLoop DEF FlushFirst
  <2>. QED BY <2>1, <2>2
<1>3. Head(order) \in Refs
  <2>1. order \in Seq(Refs)
    BY DEF Inv, TypeOK
  <2>. QED BY <1>1, <2>1
<1>4. PICK f \in Frame : f = Top
  BY <1>2
<1>5. stack = SetTop(f)
  <2>1. stack \in Seq(Frame) /\ DOMAIN stack = 1 .. 1
    BY <1>2, LenProperties DEF Inv, TypeOK
  <2>. QED BY <2>1, <1>2, <1>4 DEF SetTop
<1>6. PICK g \in Refs : g = Head(order)
  BY <1>3
<1>7. /\ stack'[1] = f
      /\ Len(stack') = 2 /\ stack'[2].op = "flush" /\ stack'[2].held = NoError
  BY <1>1, <1>2, <1>5, <1>6, PushedFlush
<1>8. /\ Len(stack) \in Nat /\ f = stack[1] /\ f = stack'[1] /\ Len(stack) = 1
      /\ f.op \in {"AddAt", "FlushBefore", "Stop", "FlushKeys"}
  BY <1>2, <1>4, <1>7
<1>. QED BY <1>1, <1>7, <1>8, SilentStep
-----------------------------------------------------------------------------
(* The caller calls.                                                        *)

\* Nothing is in progress: the log is open to a call.
LEMMA Idle ==
  ASSUME MaxDepth = 0, Inv, MayCall
  PROVE  /\ stack = <<>> /\ CallNow = NoCall /\ OutNow = NoEntry /\ BrokenNow = NoKey
         /\ BeginCall => raised' = NoError
BY NoReentry, ViewsNow DEF BeginCall

\* A call is entered with the activation f, and no line is settled.
LEMMA EnterLog ==
  ASSUME MaxDepth = 0, Inv, MayCall, BeginCall, UNCHANGED <<result, delivered, lost>>,
         NEW f \in Frame, f.op # "emit", f.held = NoError, stack' = Push(stack, f),
         f.op = "Stop" => f.before = Forever,
         NEW c, c \in Log!Call, CallOf(f)' = c,
         fed' = IF c.op = "Add" THEN [fed EXCEPT ![c.key] = @ + 1] ELSE fed
  PROVE  LogStep
<1>1. /\ stack = <<>> /\ CallNow = NoCall /\ OutNow = NoEntry /\ BrokenNow = NoKey
      /\ raised' = NoError
  BY Idle
<1>2. Len(stack') = 1 /\ stack'[1] = f /\ stack' # <<>>
  <2>1. /\ Len(Push(stack, f)) = Len(stack) + 1
        /\ Push(stack, f)[Len(stack) + 1] = f
    BY PushProperties DEF Inv, TypeOK
  <2>2. Len(stack') = 1 /\ stack'[1] = f
    BY <2>1, <1>1, LenOfEmpty
  <2>. QED BY <2>2, LenOfEmpty
<1>3. CallNow' = c /\ OutNow' = NoEntry /\ BrokenNow' = NoKey
  BY <1>2, ViewsNext, KindsNext
<1>4. Log!Ask(c)
  BY <1>1, <1>3 DEF Log!Ask
<1>5. Named'
  BY <1>2 DEF Named, Handing
<1>. QED BY <1>4, <1>5 DEF LogStep, Log!Next

LEMMA CallAddLog ==
  ASSUME MaxDepth = 0, Inv, NEW k \in Keys, NEW l \in Lines, NEW timed \in TimeModes,
         CallAdd(k, l, timed)
  PROVE  LogStep
<1> DEFINE f == [op |-> "AddAt", pc |-> "lookup", key |-> k, line |-> l,
                 when |-> When(timed), data |-> fed[k] + 1, held |-> NoError]
           c == [op |-> "Add", key |-> k]
<1>1. /\ MayCall /\ BeginCall /\ UNCHANGED <<result, delivered, lost>>
      /\ stack' = Push(stack, f) /\ fed' = [fed EXCEPT ![k] = @ + 1]
  BY DEF CallAdd, CallAddAt
<1>2. f \in Frame
  <2>1. When(timed) \in Time /\ fed[k] + 1 \in Nat
    BY BoundsAssumption DEF Inv, TypeOK, Time, ZeroTime, StreamKeys, When
  <2>. QED BY <2>1 DEF Frame, AddFrame, NoError
<1>3. f.op = "AddAt" /\ f.held = NoError /\ f.key = k
  OBVIOUS
<1>4. c \in Log!Call /\ c.op = "Add" /\ c.key = k
  BY DEF Log!Call, Log!StreamKeys
<1> HIDE DEF f
<1>5. PICK h : h = f
  OBVIOUS
<1>6. CallOf(h)' = c
  BY <1>3, <1>5, KindsNext
<1> HIDE DEF c
<1>7. fed' = IF c.op = "Add" THEN [fed EXCEPT ![c.key] = @ + 1] ELSE fed
  BY <1>1, <1>4
<1>8. h \in Frame /\ h.op = "AddAt" /\ h.held = NoError /\ stack' = Push(stack, h)
  BY <1>1, <1>2, <1>3, <1>5
<1>. QED BY <1>1, <1>4, <1>6, <1>7, <1>8, EnterLog

LEMMA CallLoopLog ==
  ASSUME MaxDepth = 0, Inv, CallStop \/ \E t \in 1 .. MaxTime + 1 : CallFlushBefore(t)
  PROVE  LogStep
<1>1. PICK f \in Frame :
        /\ f.op \in {"FlushBefore", "Stop"} /\ f.held = NoError
        /\ f.op = "Stop" => f.before = Forever
        /\ stack' = Push(stack, f)
  <2>1. CASE CallStop
    <3>1. [op |-> "Stop", before |-> Forever, held |-> NoError] \in Frame
      BY BoundsAssumption DEF Frame, LoopFrame, NoError, Forever
    <3>. QED BY <2>1, <3>1 DEF CallStop
  <2>2. ASSUME NEW t \in 1 .. MaxTime + 1, CallFlushBefore(t)
        PROVE  \E f \in Frame : /\ f.op = "FlushBefore" /\ f.held = NoError
                                /\ stack' = Push(stack, f)
    <3>1. [op |-> "FlushBefore", before |-> t, held |-> NoError] \in Frame
      BY BoundsAssumption DEF Frame, LoopFrame, NoError
    <3>. QED BY <2>2, <3>1 DEF CallFlushBefore
  <2>. QED BY <2>1, <2>2
<1>2. MayCall /\ BeginCall /\ UNCHANGED <<result, fed, delivered, lost>>
  BY DEF CallStop, CallFlushBefore, history
<1>3. PICK c : c = [op |-> f.op]
  OBVIOUS
<1>4. c \in Log!Call /\ c.op # "Add"
  BY <1>1, <1>3 DEF Log!Call
<1>5. CallOf(f)' = c /\ f.op # "emit"
  BY <1>1, <1>3, KindsNext
<1>. QED BY <1>1, <1>2, <1>4, <1>5, EnterLog

LEMMA CallFlushLog ==
  ASSUME MaxDepth = 0, Inv, NEW k \in Keys, CallFlush(k)
  PROVE  LogStep
<1>1. /\ MayCall /\ BeginCall /\ UNCHANGED <<heap, result, fed, delivered, lost>>
      /\ groups[k] # Nil /\ stack' = Push(stack, FlushOf(groups[k]))
  BY DEF CallFlush, history
<1>2. PICK g \in Refs : g = groups[k]
  BY <1>1 DEF Inv, TypeOK
<1>3. heap[g].key = k
  BY <1>1, <1>2 DEF Inv, Mapped
<1>4. PICK f : f = FlushOf(g)
  OBVIOUS
<1>5. f \in Frame /\ f.op = "flush" /\ f.held = NoError /\ f.ref = g
  BY <1>4, FlushOfFrame DEF FlushOf
<1>6. PICK c : c = [op |-> "Flush", key |-> k]
  OBVIOUS
<1>7. c \in Log!Call /\ c.op # "Add"
  BY <1>6 DEF Log!Call, Log!StreamKeys
<1>8. CallOf(f)' = c
  BY <1>1, <1>3, <1>5, <1>6, KindsNext
<1>9. stack' = Push(stack, f)
  BY <1>1, <1>2, <1>4
<1>. QED BY <1>1, <1>5, <1>7, <1>8, <1>9, EnterLog
-----------------------------------------------------------------------------
(* Entries are handed over.                                                 *)

\* The log's count of what is settled, and how it moves.
LEMMA SettledCounts ==
  ASSUME Inv, NEW k \in StreamKeys
  PROVE  /\ Settled(k) \in Int /\ SettledNow[k] = Settled(k) /\ fed[k] \in Nat
         /\ Log!Unsettled(k) = fed[k] - Settled(k) /\ k \in Log!StreamKeys
         /\ \A n \in Int :
              (\/ delivered' = [delivered EXCEPT ![k] = @ + n] /\ lost' = lost
               \/ delivered' = delivered /\ lost' = [lost EXCEPT ![k] = @ + n])
              => SettledNow' = [SettledNow EXCEPT ![k] = @ + n]
<1>1. Settled(k) \in Int /\ SettledNow[k] = Settled(k) /\ fed[k] \in Nat
  BY LineCounts DEF SettledNow, Settled
<1>2. Log!Unsettled(k) = fed[k] - Settled(k) /\ k \in Log!StreamKeys
  BY <1>1 DEF Log!Unsettled, SettledNow, Log!StreamKeys, StreamKeys
<1>3. ASSUME NEW n \in Int,
             \/ delivered' = [delivered EXCEPT ![k] = @ + n] /\ lost' = lost
             \/ delivered' = delivered /\ lost' = [lost EXCEPT ![k] = @ + n]
      PROVE  SettledNow' = [SettledNow EXCEPT ![k] = @ + n]
  <2>1. delivered \in [StreamKeys -> Int] /\ lost \in [StreamKeys -> Int]
    BY DEF Inv, TypeOK
  <2>2. \A j \in StreamKeys :
          delivered'[j] + lost'[j] = (IF j = k THEN delivered[j] + lost[j] + n ELSE delivered[j] + lost[j])
    BY <1>3, <2>1
  <2>. QED BY <2>2 DEF SettledNow
<1>. QED BY <1>1, <1>2, <1>3

LEMMA CallAddBypassLog ==
  ASSUME MaxDepth = 0, Inv, Serial, NEW l \in Lines, NEW timed \in TimeModes,
         CallAddBypass(l, timed)
  PROVE  LogStep
<1>1. /\ MayCall /\ BeginCall /\ UNCHANGED <<result, lost>>
      /\ fed' = [fed EXCEPT ![NoKey] = @ + 1]
      /\ EmitLine(stack, NoKey, l, When(timed), fed[NoKey] + 1)
  BY DEF CallAddBypass, CallAddAtBypass
<1>2. /\ stack = <<>> /\ CallNow = NoCall /\ OutNow = NoEntry /\ BrokenNow = NoKey
      /\ raised' = NoError
  BY <1>1, Idle
<1>3. NoKey \in StreamKeys /\ fed \in [StreamKeys -> Nat] /\ fed[NoKey] + 1 \in Nat
      /\ When(timed) \in Time /\ stack \in Seq(Frame)
  BY BoundsAssumption DEF Inv, TypeOK, StreamKeys, When, Time, ZeroTime
<1>4. /\ Len(stack') = Len(stack) + 1
      /\ stack'[Len(stack) + 1].op = "emit"
      /\ stack'[Len(stack) + 1].entry.key = NoKey
      /\ stack'[Len(stack) + 1].entry.data = fed[NoKey] + 1
      /\ stack'[Len(stack) + 1].entry.lines = 1
      /\ delivered' = [delivered EXCEPT ![NoKey] = @ + 1]
  BY <1>1, <1>3, EmitLineEntry
<1>5. PICK em : em = stack'[1]
  OBVIOUS
<1>6. /\ Len(stack') = 1 /\ stack' # <<>> /\ em.op = "emit"
      /\ em.entry.key = NoKey /\ em.entry.data = fed[NoKey] + 1 /\ em.entry.lines = 1
  <2>1. Len(stack) = 0
    BY <1>2, LenOfEmpty
  <2>2. Len(stack') = 1 /\ Len(stack) + 1 = 1
    BY <1>4, <2>1
  <2>. QED BY <1>4, <1>5, <2>2, LenOfEmpty
<1>7. CallNow' = CallOf(em)' /\ OutNow' = OutOf(em)' /\ BrokenNow' = BrokenOf(em)'
  BY <1>5, <1>6, ViewsNext
<1>8. /\ CallNow' = [op |-> "Add", key |-> NoKey]
      /\ OutNow' = [key |-> NoKey, first |-> fed'[NoKey], lines |-> 1]
      /\ BrokenNow' = NoKey
  <2>1. fed'[NoKey] = fed[NoKey] + 1
    BY <1>1, <1>3
  <2>. QED BY <1>6, <1>7, <2>1, KindsNext
<1>9. Log!Unsettled(NoKey) = 0 /\ NoKey \in Log!StreamKeys
  BY <1>3, SettledCounts DEF Serial, Accounted
<1>10. SettledNow' = [SettledNow EXCEPT ![NoKey] = @ + 1]
  <2>1. PICK n \in Int : n = 1
    OBVIOUS
  <2>2. delivered' = [delivered EXCEPT ![NoKey] = @ + n] /\ lost' = lost
    BY <1>1, <1>4, <2>1
  <2>3. SettledNow' = [SettledNow EXCEPT ![NoKey] = @ + n]
    BY <1>3, <2>2, SettledCounts
  <2>. QED BY <2>1, <2>3
<1>11. Log!AskStraight(NoKey)
  BY <1>1, <1>2, <1>8, <1>9, <1>10 DEF Log!AskStraight, SettledNow
<1>12. Named'
  BY <1>5, <1>6 DEF Named, Handing
<1>. QED BY <1>9, <1>11, <1>12 DEF LogStep, Log!Next

\* The next lines of a key are handed over, in the entry of em.
LEMMA HandLog ==
  ASSUME Inv, UNCHANGED <<fed, lost, raised, result>>, stack # <<>>,
         OutNow = NoEntry, BrokenNow = NoKey,
         CallNow # NoCall, CallNow' = CallNow,
         NEW em, stack' # <<>>, em = stack'[Len(stack')], em.op = "emit",
         NEW k \in StreamKeys, k = em.entry.key,
         NEW n \in Nat \ {0}, n = em.entry.lines, n <= fed[k] - Settled(k),
         em.entry.data = Settled(k) + 1,
         delivered' = [delivered EXCEPT ![k] = @ + n],
         CallNow.op # "Add" => raised = NoError,
         CallNow.op = "Flush" => k = CallNow.key
  PROVE  Log!Next
<1>1. PICK f : f = stack'[1]
  OBVIOUS
<1>2. OutNow' = OutOf(em)' /\ BrokenNow' = BrokenOf(em)'
  BY <1>1, ViewsNext
<1>3. /\ Settled(k) \in Int /\ SettledNow[k] = Settled(k) /\ fed[k] \in Nat
      /\ Log!Unsettled(k) = fed[k] - Settled(k) /\ k \in Log!StreamKeys
  BY SettledCounts
<1>4. SettledNow' = [SettledNow EXCEPT ![k] = @ + n]
  <2>1. n \in Int
    OBVIOUS
  <2>. QED BY <2>1, SettledCounts
<1>5. OutNow' = [key |-> k, first |-> SettledNow[k] + 1, lines |-> n] /\ BrokenNow' = NoKey
  BY <1>2, <1>3, KindsNext
<1>6. n \in 1 .. Log!Unsettled(k) /\ n <= Log!Unsettled(k)
  BY <1>3
<1>7. Log!Hand(k, n)
  BY <1>4, <1>5, <1>6 DEF Log!Hand, Log!MayHand, SettledNow
<1>. QED BY <1>3, <1>6, <1>7 DEF Log!Next

\* The activation a call starts with is a call of the log.
LEMMA InCall ==
  ASSUME NEW f, f.op \in {"AddAt", "FlushBefore", "Stop", "FlushKeys", "flush", "emit"}
  PROVE  /\ CallOf(f) # NoCall
         /\ CallOf(f).op = "Add" <=> f.op \in {"AddAt", "emit"}
         /\ CallOf(f).op = "Flush" => f.op = "flush" /\ CallOf(f).key = heap[f.ref].key
         /\ CallOf(f).op = "Stop" => f.op = "Stop"
<1>1. CASE f.op = "AddAt"
  BY <1>1, KindsNow DEF NoCall
<1>2. CASE f.op = "emit"
  BY <1>2, KindsNow DEF NoCall
<1>3. CASE f.op = "flush"
  BY <1>3, KindsNow DEF NoCall
<1>4. CASE f.op \in {"FlushBefore", "Stop", "FlushKeys"}
  BY <1>4, KindsNow DEF NoCall
<1>. QED BY <1>1, <1>2, <1>3, <1>4

LEMMA PassThroughLog ==
  ASSUME Inv, Serial, Named, PassThrough
  PROVE  LogStep
<1>1. /\ Running("AddAt") /\ Top.pc = "start"
      /\ EmitLine(SetTop([Top EXCEPT !.pc = "return"]), Top.key, Top.line, Top.when, Top.data)
      /\ UNCHANGED <<heap, raised, result, fed, lost>>
  BY DEF PassThrough, At, aggregator
<1>2. /\ Len(stack) = 1 /\ stack # <<>> /\ Top = stack[1] /\ Top \in Frame /\ Top.op = "AddAt"
      /\ Top.key \in Keys /\ Top.key \in StreamKeys /\ Top.line \in Lines /\ Top.when \in Time
      /\ Top.data \in Nat
      /\ \A k \in Keys : OwedAt(2, k) = 0 /\
           OwedAt(1, k) = IF Top.key = k /\ Top.pc \in Unplaced THEN 1 ELSE 0
      /\ FrameNumbered(Top)
  BY <1>1, AloneAdd
<1>3. PICK f \in Frame : f = Top /\ f = stack[1] /\ f.op = "AddAt"
  BY <1>2
<1>4. PICK h : h = [f EXCEPT !.pc = "return"]
  OBVIOUS
<1>5. h \in Frame /\ h.op = "AddAt" /\ h.key = f.key
  BY <1>3, <1>4, PcFields
<1>6. PICK k \in StreamKeys : k = f.key /\ k \in Keys
  BY <1>2, <1>3
<1>7. Top.data = fed[k] /\ fed[k] = Settled(k) + 1
  <2>1. Top.data = fed[k] /\ groups[k] = Nil
    BY <1>1, <1>2, <1>3, <1>6 DEF FrameNumbered, Unplaced
  <2>2. OwedAt(1, k) = 1 /\ OwedAt(2, k) = 0 /\ PendingLines(k) = 0
    BY <1>1, <1>2, <1>3, <1>6, <2>1 DEF Unplaced, PendingLines
  <2>3. fed[k] = Settled(k) + PendingLines(k) + OwedAt(1, k) + OwedAt(2, k)
    BY <1>6 DEF Serial, Accounted
  <2>4. Settled(k) \in Int
    BY LineCounts
  <2>. QED BY <2>1, <2>2, <2>3, <2>4
<1>8. SetTop(h) \in Seq(Frame) /\ Len(SetTop(h)) = 1 /\ SetTop(h)[1] = h
  BY <1>2, <1>5, SetTopProperties DEF Inv, TypeOK
<1>9. /\ Len(stack') = 2 /\ stack'[1] = h /\ stack'[2].op = "emit"
      /\ stack'[2].entry.key = k /\ stack'[2].entry.data = fed[k]
      /\ stack'[2].entry.lines = 1
      /\ delivered' = [delivered EXCEPT ![k] = @ + 1]
  <2>1. EmitLine(SetTop(h), k, Top.line, Top.when, Top.data)
    BY <1>1, <1>3, <1>4, <1>6
  <2>2. /\ Len(stack') = Len(SetTop(h)) + 1
        /\ \A i \in 1 .. Len(SetTop(h)) : stack'[i] = SetTop(h)[i]
        /\ stack'[Len(SetTop(h)) + 1].op = "emit"
        /\ stack'[Len(SetTop(h)) + 1].entry.key = k
        /\ stack'[Len(SetTop(h)) + 1].entry.data = Top.data
        /\ stack'[Len(SetTop(h)) + 1].entry.lines = 1
        /\ delivered' = [delivered EXCEPT ![k] = @ + 1]
    BY <1>2, <1>8, <2>1, EmitLineEntry
  <2>. QED BY <2>2, <1>7, <1>8
<1>10. stack' # <<>>
  <2>1. Len(stack') # 0
    BY <1>9
  <2>. QED BY <2>1, LenOfEmpty
<1>11. /\ CallNow = CallOf(f) /\ CallNow' = CallOf(h)' /\ OutNow = NoEntry /\ BrokenNow = NoKey
  <2>1. f = stack[1] /\ f = stack[Len(stack)] /\ h = stack'[1]
    BY <1>2, <1>3, <1>9
  <2>2. CallNow = CallOf(f) /\ OutNow = OutOf(f) /\ BrokenNow = BrokenOf(f)
    BY <1>2, <2>1, ViewsNow
  <2>3. CallNow' = CallOf(h)'
    BY <1>10, <2>1, ViewsNext
  <2>. QED BY <1>3, <2>2, <2>3, KindsNow
<1>12. CallNow' = CallNow /\ CallNow # NoCall /\ CallNow.op = "Add"
  BY <1>3, <1>5, <1>11, KindsNow, KindsNext, InCall
<1>13. PICK em : em = stack'[2]
  OBVIOUS
<1>14. PICK n \in Nat \ {0} : n = 1
  OBVIOUS
<1>15. /\ em = stack'[Len(stack')] /\ em.op = "emit" /\ k = em.entry.key /\ n = em.entry.lines
       /\ em.entry.data = Settled(k) + 1 /\ delivered' = [delivered EXCEPT ![k] = @ + n]
       /\ n <= fed[k] - Settled(k)
  <2>1. Settled(k) \in Int
    BY LineCounts
  <2>. QED BY <2>1, <1>7, <1>9, <1>13, <1>14
<1>16. CallNow.op # "Flush" /\ ~(CallNow.op # "Add")
  BY <1>12
<1>17. Log!Next
  BY <1>1, <1>2, <1>10, <1>11, <1>12, <1>15, <1>16, HandLog
<1>18. Named'
  <2>1. \A i \in 1 .. Len(stack') : i = 1 \/ i = 2
    BY <1>9
  <2>. QED BY <2>1, <1>5, <1>9 DEF Named, Handing
<1>. QED BY <1>17, <1>18 DEF LogStep
-----------------------------------------------------------------------------
(* Flushes.                                                                 *)

\* The lines a flush has not handed over are unsettled.
LEMMA FlushOwes ==
  ASSUME Inv, Serial, Running("flush"), NEW k \in Keys, k = heap[Top.ref].key
  PROVE  /\ heap[Top.ref].total - Top.sent \in Nat
         /\ heap[Top.ref].total - Top.sent <= fed[k] - Settled(k)
<1>1. /\ heap[Top.ref] \in Group /\ GroupOK(heap[Top.ref]) /\ Account(Top, heap[Top.ref])
      /\ Top.at \in Nat /\ Top.sent \in Int /\ Top.op = "flush"
  BY FlushingTop
<1>2. heap[Top.ref].total \in Nat /\ Top.sent <= heap[Top.ref].total
  <2>1. heap[Top.ref].total \in Nat
    BY <1>1 DEF Group
  <2>. QED BY <1>1, <2>1, SentBound
<1>3. /\ Len(stack) \in {1, 2} /\ Top = stack[Len(stack)]
      /\ Len(stack) = 2 => stack[1].op \in {"AddAt", "FlushBefore", "Stop", "FlushKeys"}
  BY AloneFlush
<1>4. Owed(Top, k) = heap[Top.ref].total - Top.sent
  BY <1>1, OwedByKind
<1>5. /\ fed[k] = Settled(k) + PendingLines(k) + OwedAt(1, k) + OwedAt(2, k)
      /\ Settled(k) \in Int /\ PendingLines(k) \in Nat
  BY LineCounts DEF Serial, Accounted, StreamKeys
<1>6. CASE Len(stack) = 1
  <2>1. OwedAt(1, k) = Owed(Top, k) /\ OwedAt(2, k) = 0
    BY <1>3, <1>6 DEF OwedAt
  <2>. QED BY <1>1, <1>2, <1>4, <1>5, <2>1
<1>7. CASE Len(stack) = 2
  <2>1. OwedAt(1, k) = Owed(stack[1], k) /\ OwedAt(2, k) = Owed(Top, k)
    BY <1>3, <1>7 DEF OwedAt
  <2>2. Owed(stack[1], k) \in Nat
    BY <1>3, <1>7 DEF Owed
  <2>. QED BY <1>1, <1>2, <1>4, <1>5, <2>1, <2>2
<1>. QED BY <1>3, <1>6, <1>7

\* What the log sees of a flush: the call it serves, and whether its emitter failed.
LEMMA FlushViews ==
  ASSUME Inv, Serial, Running("flush")
  PROVE  /\ CallNow = CallOf(stack[1]) /\ CallNow # NoCall /\ OutNow = NoEntry
         /\ BrokenNow = IF Top.held = NoError THEN NoKey ELSE heap[Top.ref].key
         /\ stack[1].op \in {"AddAt", "FlushBefore", "Stop", "FlushKeys", "flush"}
         /\ stack[1].op = "flush" => Len(stack) = 1
         /\ CallNow.op = "Add" <=> stack[1].op = "AddAt"
         /\ CallNow.op = "Flush" => CallNow.key = heap[Top.ref].key
<1>1. /\ Len(stack) \in {1, 2} /\ stack # <<>> /\ Top = stack[Len(stack)] /\ Top.op = "flush"
      /\ Len(stack) = 2 => stack[1].op \in {"AddAt", "FlushBefore", "Stop", "FlushKeys"}
  BY AloneFlush
<1>2. PICK f : f = stack[1]
  OBVIOUS
<1>3. /\ f.op \in {"AddAt", "FlushBefore", "Stop", "FlushKeys", "flush"}
      /\ f.op = "flush" => Len(stack) = 1 /\ f = Top
  <2>1. CASE Len(stack) = 1
    BY <1>1, <1>2, <2>1
  <2>2. CASE Len(stack) = 2
    BY <1>1, <1>2, <2>2
  <2>. QED BY <1>1, <2>1, <2>2
<1>4. PICK t : t = Top /\ t = stack[Len(stack)] /\ t.op = "flush"
  BY <1>1
<1>5. CallNow = CallOf(f) /\ OutNow = OutOf(t) /\ BrokenNow = BrokenOf(t)
  BY <1>1, <1>2, <1>4, ViewsNow
<1>6. /\ CallOf(f) # NoCall
      /\ CallOf(f).op = "Add" <=> f.op \in {"AddAt", "emit"}
      /\ CallOf(f).op = "Flush" => f.op = "flush" /\ CallOf(f).key = heap[f.ref].key
  BY <1>3, InCall
<1>7. OutOf(t) = NoEntry /\ BrokenOf(t) = IF t.held = NoError THEN NoKey ELSE heap[t.ref].key
  BY <1>4, KindsNow
<1>. QED BY <1>2, <1>3, <1>4, <1>5, <1>6, <1>7

\* The next entry of a group is the next of its key.
LEMMA FlushEntryLog ==
  ASSUME Inv, Inv', Serial, Named, FlushPrefix \/ FlushLine
  PROVE  LogStep
<1> DEFINE n == Len(stack)
<1>1. PICK e \in Entry, at \in Nat :
        /\ EmitFromGroup(e, at)
        /\ e.key = heap[Top.ref].key /\ e.lines > 0 /\ e.data = Settled(e.key) + 1
  BY PrefixNext, LineNext
<1>2. Running("flush") /\ Top.held = NoError
  BY DEF FlushPrefix, FlushLine
<1>3. /\ n \in {1, 2} /\ stack # <<>> /\ Top = stack[n] /\ Top.op = "flush"
      /\ n = 2 => /\ stack[1].op \in {"AddAt", "FlushBefore", "Stop", "FlushKeys"} /\ stack[1] \in Frame
                  /\ stack[1].held \in Nat
                  /\ stack[1].op # "AddAt" => stack[1].held = NoError
      /\ raised = IF n = 1 THEN Top.held ELSE FirstErr(stack[1].held, Top.held)
      /\ heap[Top.ref].key \in Keys
  BY <1>2, AloneFlush
<1>4. /\ delivered' = [delivered EXCEPT ![e.key] = @ + e.lines]
      /\ UNCHANGED <<heap, raised, result, fed, lost>>
  BY <1>1 DEF EmitFromGroup, Deliver, KeepOutside, aggregator
<1>5. PICK f, em :
        /\ f.op = "flush" /\ f.ref = Top.ref /\ f.held = NoError
        /\ f.sent = Top.sent + e.lines
        /\ em.op = "emit" /\ em.entry = e
        /\ Len(stack') = Len(stack) + 1
        /\ stack'[Len(stack)] = f /\ stack'[Len(stack) + 1] = em
        /\ \A i \in 1 .. Len(stack) - 1 : stack'[i] = stack[i]
  BY <1>1, <1>2, EmittedStack
<1>6. PICK k \in StreamKeys : k = e.key /\ k \in Keys /\ k = heap[Top.ref].key
  BY <1>1, <1>3 DEF StreamKeys
<1>7. PICK m \in Nat \ {0} : m = e.lines
  BY <1>1 DEF Entry
<1>8. m <= fed[k] - Settled(k)
  <2>1. /\ heap[Top.ref].total - Top.sent \in Nat
        /\ heap[Top.ref].total - Top.sent <= fed[k] - Settled(k)
    BY <1>2, <1>6, FlushOwes
  <2>2. f.sent <= heap[Top.ref].total
    <3>1. PICK j \in Nat : j = Len(stack)
      BY <1>3
    <3>2. j \in 1 .. Len(stack') /\ stack'[j] = f
      BY <3>1, <1>3, <1>5
    <3>3. f \in Frame
      <4>1. stack' \in Seq(Frame)
        BY DEF Inv, TypeOK
      <4>. QED BY <4>1, <3>2, ElementOfSeq
    <3>4. f.ref \in Refs /\ f.at \in Nat /\ f.sent \in Int
      BY <3>3, <1>5, FrameKinds DEF FlushFrame
    <3>5. Account(f, heap[f.ref]) /\ heap[f.ref] \in Group /\ GroupOK(heap[f.ref])
      <4>1. heap' = heap
        BY <1>4
      <4>2. Flushing'
        BY DEF Inv
      <4>3. FlushOK(stack[j])'
        BY <4>2, <3>2, <1>5 DEF Flushing
      <4>4. Account(f, heap'[f.ref])
        BY <4>3, <3>2 DEF FlushOK
      <4>5. heap[f.ref] \in Group /\ GroupOK(heap[f.ref])
        BY <3>4 DEF Inv, TypeOK, Formed
      <4>. QED BY <4>1, <4>4, <4>5
    <3>6. PICK g \in Group : g = heap[f.ref]
      BY <3>5
    <3>7. f.sent <= g.total
      BY <3>4, <3>5, <3>6, SentBound
    <3>. QED BY <3>6, <3>7, <1>5
  <2>3. Top.sent \in Int /\ heap[Top.ref].total \in Nat
    BY <1>2, FlushingTop DEF Group
  <2>4. Settled(k) \in Int /\ fed[k] \in Nat
    BY LineCounts
  <2>. QED BY <2>1, <2>2, <2>3, <2>4, <1>5, <1>7
<1>9. /\ CallNow = CallOf(stack[1]) /\ CallNow # NoCall /\ OutNow = NoEntry /\ BrokenNow = NoKey
      /\ CallNow.op = "Add" <=> stack[1].op = "AddAt"
      /\ CallNow.op = "Flush" => CallNow.key = heap[Top.ref].key
  BY <1>2, FlushViews
<1>10. stack' # <<>>
  <2>1. Len(stack') # 0
    BY <1>3, <1>5
  <2>. QED BY <2>1, LenOfEmpty
<1>11. CallNow' = CallNow
  <2>1. PICK c, d : c = stack[1] /\ d = stack'[1]
    OBVIOUS
  <2>2. CallNow' = CallOf(d)'
    BY <2>1, <1>10, ViewsNext
  <2>3. CASE n = 1
    <3>1. d = f /\ c = Top /\ c.op = "flush" /\ c.ref = f.ref
      BY <2>1, <2>3, <1>3, <1>5
    <3>2. CallOf(c) = [op |-> "Flush", key |-> heap[c.ref].key]
      BY <3>1, KindsNow
    <3>3. CallOf(d)' = [op |-> "Flush", key |-> heap'[d.ref].key]
      BY <3>1, <1>5, KindsNext
    <3>4. heap' = heap
      BY <1>4
    <3>. QED BY <3>1, <3>2, <3>3, <3>4, <2>1, <2>2, <1>9
  <2>4. CASE n = 2
    <3>1. d = c /\ c.op \in {"AddAt", "FlushBefore", "Stop", "FlushKeys"}
      BY <2>1, <2>4, <1>3, <1>5
    <3>2. CallOf(c)' = CallOf(c)
      BY <3>1, KindsNow, KindsNext
    <3>. QED BY <3>1, <3>2, <2>1, <2>2, <1>9
  <2>. QED BY <2>3, <2>4, <1>3
<1>12. CallNow.op # "Add" => raised = NoError
  <2>1. CASE n = 1
    BY <2>1, <1>2, <1>3
  <2>2. CASE n = 2
    BY <2>2, <1>2, <1>3, <1>9, FirstErrs
  <2>. QED BY <2>1, <2>2, <1>3
<1>13. /\ em = stack'[Len(stack')] /\ em.op = "emit" /\ k = em.entry.key /\ m = em.entry.lines
       /\ em.entry.data = Settled(k) + 1 /\ delivered' = [delivered EXCEPT ![k] = @ + m]
       /\ CallNow.op = "Flush" => k = CallNow.key
  BY <1>1, <1>4, <1>5, <1>6, <1>7, <1>9
<1>14. Log!Next
  <2>1. UNCHANGED <<fed, lost, raised, result>> /\ stack # <<>>
    BY <1>3, <1>4
  <2>2. OutNow = NoEntry /\ BrokenNow = NoKey /\ CallNow # NoCall
    BY <1>9
  <2>. QED BY <2>1, <2>2, <1>8, <1>10, <1>11, <1>12, <1>13, HandLog
<1>15. Named'
  <2>1. em.entry.key = heap'[f.ref].key
    BY <1>4, <1>5, <1>6
  <2>2. CASE n = 1
    <3>1. /\ Len(stack') = 2 /\ stack'[1] = f /\ stack'[2] = em
          /\ \A i \in 1 .. Len(stack') : i = 1 \/ i = 2
      BY <2>2, <1>5
    <3>. QED BY <2>1, <3>1, <1>5 DEF Named, Handing
  <2>3. CASE n = 2
    <3>1. /\ Len(stack') = 3 /\ stack'[1] = stack[1] /\ stack'[2] = f /\ stack'[3] = em
          /\ \A i \in 1 .. Len(stack') : i = 1 \/ i = 2 \/ i = 3
      BY <2>3, <1>5
    <3>2. stack[1].op = "Stop" => stack[1].before = Forever
      BY <2>3 DEF Named, Handing
    <3>. QED BY <2>1, <3>1, <3>2, <1>3, <1>5 DEF Named, Handing
  <2>. QED BY <2>2, <2>3, <1>3
<1>. QED BY <1>14, <1>15 DEF LogStep

\* A call of the aggregator that is told of an error by a flush is still that call.
LEMMA HeldCall ==
  ASSUME NEW f \in Frame, f.op \in {"AddAt", "FlushBefore", "Stop", "FlushKeys"}, NEW err \in Nat,
         NEW h, h = [f EXCEPT !.held = FirstErr(@, err)]
  PROVE  /\ h.op = f.op
         /\ f.op = "AddAt" => h.key = f.key
         /\ f.op = "Stop" => h.before = f.before
         /\ CallOf(h)' = CallOf(f)
<1>1. h.op = f.op /\ (f.op = "AddAt" => h.key = f.key)
  BY HeldFields
<1>2. f.op = "Stop" => h.before = f.before
  <2>1. f.op = "Stop" => f \in LoopFrame
    BY FrameKinds
  <2>. QED BY <2>1 DEF LoopFrame
<1>3. CallOf(h)' = CallOf(f)
  <2>1. CASE f.op = "AddAt"
    BY <1>1, <2>1 DEF CallOf
  <2>2. CASE f.op \in {"FlushBefore", "Stop", "FlushKeys"}
    BY <1>1, <2>2 DEF CallOf
  <2>. QED BY <2>1, <2>2
<1>. QED BY <1>1, <1>2, <1>3

\* The call in progress ends with this step, without an entry handed over.
LEMMA ReturnLog ==
  ASSUME CallNow # NoCall, OutNow = NoEntry, BrokenNow = NoKey, stack' = <<>>,
         UNCHANGED <<fed, delivered, lost, raised>>,
         result' # NoError <=> raised # NoError,
         CallNow.op = "Stop" /\ result' = NoError =>
           \A k \in StreamKeys : SettledNow[k] = fed[k],
         CallNow.op = "Flush" /\ result' = NoError => SettledNow[CallNow.key] = fed[CallNow.key]
  PROVE  LogStep
<1>1. CallNow' = NoCall /\ OutNow' = NoEntry /\ BrokenNow' = NoKey
  BY ViewsNext
<1>2. SettledNow' = SettledNow
  BY DEF SettledNow
<1>3. Log!Returns
  BY <1>1, <1>2 DEF Log!Returns, Log!Proceeds, Log!Promise, SettledNow, Log!StreamKeys, StreamKeys
<1>4. Named'
  BY LenOfEmpty DEF Named
<1>. QED BY <1>3, <1>4 DEF LogStep, Log!Next

\* A flush that went well is not seen; one whose emitter failed gives the rest up.
LEMMA FlushEndsLog ==
  ASSUME Inv, Serial, Serial', Named, FlushDone \/ FlushAborts
  PROVE  LogStep
<1> DEFINE n == Len(stack)
<1>1. Running("flush") /\ Return(Top.held) /\ UNCHANGED <<raised, fed, delivered, groups>>
      /\ heap' = [heap EXCEPT ![Top.ref] = Blank]
  BY DEF FlushDone, FlushAborts, KeepOutside, history
<1>2. /\ n \in {1, 2} /\ stack # <<>> /\ Top = stack[n] /\ Top.op = "flush" /\ Top.held \in Nat
      /\ n = 2 => stack[1].op \in {"AddAt", "FlushBefore", "Stop", "FlushKeys"} /\ stack[1] \in Frame
      /\ raised = IF n = 1 THEN Top.held ELSE FirstErr(stack[1].held, Top.held)
      /\ heap[Top.ref].key \in Keys /\ groups[heap[Top.ref].key] = Nil
  BY <1>1, AloneFlush
<1>3. PICK err \in Nat : err = Top.held
  BY <1>2
<1>4. /\ Len(stack') = n - 1 /\ result' = IF n = 1 THEN err ELSE result
      /\ n = 2 => stack'[1] = [stack[1] EXCEPT !.held = FirstErr(@, err)]
  <2>1. stack \in Seq(Frame)
    BY DEF Inv, TypeOK
  <2>2. /\ Len(Pop(err)) = n - 1
        /\ \A i \in 1 .. n - 1 : Pop(err)[i] =
             IF i = n - 1 /\ stack[n - 1].op # "emit"
             THEN [stack[n - 1] EXCEPT !.held = FirstErr(@, err)] ELSE stack[i]
    BY <1>2, <2>1, PopExact
  <2>3. stack' = Pop(err) /\ (n = 2 => 1 \in 1 .. n - 1 /\ n - 1 = 1 /\ stack[1].op # "emit")
    BY <1>1, <1>2, <1>3 DEF Return
  <2>. QED BY <1>1, <1>3, <2>2, <2>3 DEF Return
<1>5. PICK k \in StreamKeys : k \in Keys /\ k = heap[Top.ref].key
  BY <1>2 DEF StreamKeys
<1>6. k # NoKey
  BY <1>5, NamesAssumption
<1>7. /\ CallNow # NoCall /\ OutNow = NoEntry
      /\ BrokenNow = IF err = NoError THEN NoKey ELSE k
      /\ CallNow = CallOf(stack[1])
      /\ stack[1].op = "flush" => n = 1
      /\ CallNow.op = "Flush" => CallNow.key = k
  BY <1>1, <1>3, <1>5, FlushViews
<1>8. Len(stack) \in Nat /\ (n = 1 => stack' = <<>>)
  BY <1>2, <1>4, LenOfEmpty DEF Inv, TypeOK
<1>9. CASE err = NoError /\ n = 1
  <2>1. UNCHANGED <<delivered, lost>> /\ stack' = <<>>
    BY <1>1, <1>3, <1>8, <1>9 DEF FlushDone, FlushAborts, history
  <2>2. result' = NoError /\ raised = NoError
    BY <1>2, <1>3, <1>4, <1>9
  <2>3. CallNow.op # "Stop"
    <3>1. PICK f : f = stack[1] /\ f.op = "flush"
      BY <1>2, <1>9
    <3>. QED BY <3>1, <1>7, KindsNow
  <2>4. SettledNow[k] = fed[k]
    <3>1. fed'[k] = Settled(k)' + PendingLines(k)' + OwedAt(1, k)' + OwedAt(2, k)'
      BY <1>5 DEF Serial, Accounted
    <3>2. PendingLines(k)' = 0
      BY <1>1, <1>2, <1>5 DEF PendingLines
    <3>3. OwedAt(1, k)' = 0 /\ OwedAt(2, k)' = 0
      BY <2>1, LenOfEmpty DEF OwedAt
    <3>4. Settled(k)' = Settled(k) /\ fed' = fed
      BY <1>1, <2>1 DEF Settled
    <3>. QED BY <3>1, <3>2, <3>3, <3>4, SettledCounts
  <2>. QED BY <1>1, <1>7, <1>9, <2>1, <2>2, <2>3, <2>4, ReturnLog
<1>10. CASE err = NoError /\ n = 2
  <2>1. UNCHANGED <<fed, delivered, lost, raised, result>>
    BY <1>1, <1>3, <1>4, <1>10 DEF FlushDone, FlushAborts, history
  <2>2. PICK f, h : f \in Frame /\ f = stack[1] /\ h = stack'[1] /\ h = [f EXCEPT !.held = FirstErr(@, err)]
    BY <1>2, <1>4, <1>10
  <2>3. /\ f.op \in {"AddAt", "FlushBefore", "Stop", "FlushKeys"} /\ h.op = f.op
        /\ f.op = "AddAt" => h.key = f.key
        /\ f.op = "Stop" => h.before = f.before
    BY <1>2, <1>10, <2>2, HeldCall
  <2>4. Len(stack) = 2 /\ stack[2].op = "flush" /\ stack[2].held = NoError /\ Len(stack') = 1
    <3>1. Len(stack) = 2 /\ Top = stack[2]
      BY <1>2, <1>10
    <3>2. Len(stack') = 1
      BY <1>4, <3>1
    <3>. QED BY <3>1, <3>2, <1>2, <1>3, <1>10
  <2>. QED BY <1>8, <2>1, <2>2, <2>3, <2>4, SilentStep
<1>11. CASE err # NoError
  <2>1. PICK m \in Nat : m = heap[Top.ref].total - Top.sent
    BY <1>1, <1>5, FlushOwes
  <2>2. SettledNow' = [SettledNow EXCEPT ![k] = @ + m]
    <3>1. lost' = [lost EXCEPT ![k] = @ + heap[Top.ref].total - Top.sent] /\ delivered' = delivered
      BY <1>1, <1>3, <1>5, <1>11 DEF FlushDone, FlushAborts
    <3>2. lost[k] \in Int /\ heap[Top.ref].total \in Nat /\ Top.sent \in Int
      BY <1>1, FlushingTop DEF Inv, TypeOK, Group
    <3>3. lost[k] + heap[Top.ref].total - Top.sent = lost[k] + m
      BY <2>1, <3>2
    <3>4. lost' = [lost EXCEPT ![k] = @ + m]
      BY <3>1, <3>3
    <3>5. m \in Int
      OBVIOUS
    <3>. QED BY <3>1, <3>4, <3>5, SettledCounts
  <2>3. m <= Log!Unsettled(k)
    <3>1. m <= fed[k] - Settled(k)
      BY <1>1, <1>5, <2>1, FlushOwes
    <3>. QED BY <3>1, SettledCounts
  <2>4. raised' = raised /\ raised # NoError /\ fed' = fed
    BY <1>1, <1>2, <1>3, <1>11 DEF FirstErr
  <2>5. BrokenNow = k /\ BrokenNow # NoKey /\ m \in 0 .. Log!Unsettled(BrokenNow)
    <3>1. Log!Unsettled(k) \in Int
      BY SettledCounts
    <3>. QED BY <1>6, <1>7, <1>11, <2>3, <3>1
  <2>6. ASSUME Log!GiveUp(m), Named'
        PROVE  LogStep
    BY <2>5, <2>6 DEF LogStep, Log!Next
  <2>7. CASE n = 1
    <3>1. CallNow' = NoCall /\ OutNow' = NoEntry /\ BrokenNow' = NoKey /\ result' # NoError
      BY <1>4, <1>8, <1>11, <2>7, ViewsNext
    <3>2. Log!GiveUp(m)
      BY <1>6, <1>7, <1>11, <2>2, <2>3, <2>4, <3>1
         DEF Log!GiveUp, Log!Proceeds, SettledNow
    <3>3. Named'
      BY <1>8, <2>7, LenOfEmpty DEF Named
    <3>. QED BY <2>6, <3>2, <3>3
  <2>8. CASE n = 2
    <3>1. PICK f, h : f \in Frame /\ f = stack[1] /\ h = stack'[1] /\ h = [f EXCEPT !.held = FirstErr(@, err)]
      BY <1>2, <1>4, <2>8
    <3>2. /\ f.op \in {"AddAt", "FlushBefore", "Stop", "FlushKeys"} /\ h.op = f.op
          /\ f.op = "Stop" => h.before = f.before
          /\ CallOf(h)' = CallOf(f)
      BY <1>2, <2>8, <3>1, HeldCall
    <3>3. Len(stack') = 1 /\ stack' # <<>>
      <4>1. Len(stack') = 1 /\ Len(stack') # 0
        BY <1>4, <2>8
      <4>. QED BY <4>1, LenOfEmpty
    <3>4. CallNow' = CallOf(h)' /\ OutNow' = OutOf(h)' /\ BrokenNow' = BrokenOf(h)'
      BY <3>1, <3>3, ViewsNext
    <3>5. CallNow' = CallNow /\ OutNow' = NoEntry /\ BrokenNow' = NoKey /\ result' = result
      <4>1. OutOf(h)' = NoEntry /\ BrokenOf(h)' = NoKey
        BY <3>2, KindsNext
      <4>2. result' = result
        BY <1>4, <2>8
      <4>. QED BY <1>7, <3>1, <3>2, <3>4, <4>1, <4>2
    <3>6. Log!GiveUp(m)
      BY <1>6, <1>7, <1>11, <2>2, <2>3, <2>4, <3>5
         DEF Log!GiveUp, Log!Proceeds, SettledNow
    <3>7. Named'
      <4>1. f.op = "Stop" => f.before = Forever
        BY <3>1, <2>8 DEF Named, Handing
      <4>2. \A i \in 1 .. Len(stack') : i = 1
        BY <3>3
      <4>. QED BY <3>1, <3>2, <4>1, <4>2 DEF Named, Handing
    <3>. QED BY <2>6, <3>6, <3>7
  <2>. QED BY <1>2, <2>7, <2>8
<1>. QED BY <1>2, <1>9, <1>10, <1>11
-----------------------------------------------------------------------------
(* The emitter returns.                                                     *)

\* A flush that is told of an error is still the flush of its group.
LEMMA HeldFlush ==
  ASSUME NEW f \in Frame, f.op = "flush", f.held = NoError, NEW err \in Nat,
         NEW h, h = [f EXCEPT !.held = FirstErr(@, err)]
  PROVE  h.op = "flush" /\ h.ref = f.ref /\ h.held = err
<1>1. h.op = "flush" /\ h.ref = f.ref /\ h.held = FirstErr(f.held, err)
  BY HeldFields
<1>. QED BY <1>1 DEF FirstErr, NoError

\* What the log sees after it.
LEMMA EmitterViews ==
  ASSUME Inv, Serial, Named, Running("emit"), NEW err \in Nat, Return(err), heap' = heap,
         NEW em, em = Top
  PROVE  /\ OutNow' = NoEntry /\ Named'
         /\ BrokenNow' \in {NoKey, em.entry.key}
         /\ err = NoError => BrokenNow' = NoKey
         /\ \/ CallNow' = CallNow /\ result' = result
            \/ /\ CallNow' = NoCall /\ BrokenNow' = NoKey /\ CallNow.op = "Add"
               /\ result' = err /\ raised = NoError
<1>1. em.op = "emit" /\ em = stack[Len(stack)] /\ stack # <<>> /\ OneCall
  BY Shape DEF Serial, Running
<1>2. PICK f : f = stack[1]
  OBVIOUS
<1>3. CallNow = CallOf(f)
  BY <1>1, <1>2, ViewsNow
<1>4. CASE Len(stack) = 1 /\ stack' = <<>> /\ result' = err
  <2>1. CallNow' = NoCall /\ OutNow' = NoEntry /\ BrokenNow' = NoKey
    BY <1>4, ViewsNext
  <2>2. CallNow.op = "Add"
    BY <1>1, <1>2, <1>3, <1>4, KindsNow
  <2>3. raised = NoError
    BY <1>1, <1>4 DEF Serial, ErrorsHeld, HeldAt, FirstErr, NoError
  <2>4. Named'
    BY <1>4, LenOfEmpty DEF Named
  <2>. QED BY <1>4, <2>1, <2>2, <2>3, <2>4
<1>5. CASE /\ Len(stack) = 2 /\ Len(stack') = 1 /\ result' = result
           /\ f.op \in {"flush", "AddAt"} /\ f \in Frame
           /\ f.op = "flush" => f.held = NoError
           /\ stack'[1] = [f EXCEPT !.held = FirstErr(@, err)]
  <2>1. PICK h : h = stack'[1]
    OBVIOUS
  <2>2. stack' # <<>> /\ h = stack'[Len(stack')] /\ \A i \in 1 .. Len(stack') : i = 1
    <3>1. Len(stack') = 1 /\ Len(stack') # 0
      BY <1>5
    <3>. QED BY <3>1, <2>1, LenOfEmpty
  <2>3. CallNow' = CallOf(h)' /\ OutNow' = OutOf(h)' /\ BrokenNow' = BrokenOf(h)'
    BY <2>1, <2>2, ViewsNext
  <2>4. CASE f.op = "AddAt"
    <3>1. h.op = "AddAt" /\ CallOf(h)' = CallOf(f)
      BY <1>5, <2>1, <2>4, HeldCall
    <3>2. OutOf(h)' = NoEntry /\ BrokenOf(h)' = NoKey
      BY <3>1, KindsNext
    <3>3. Named'
      BY <2>1, <2>2, <3>1 DEF Named, Handing
    <3>. QED BY <1>3, <1>5, <2>3, <3>1, <3>2, <3>3
  <2>5. CASE f.op = "flush"
    <3>1. h.op = "flush" /\ h.ref = f.ref /\ h.held = err
      BY <1>5, <2>1, <2>5, HeldFlush
    <3>2. em.entry.key = heap[f.ref].key
      <4>1. PICK j \in Nat : j = 2
        OBVIOUS
      <4>2. j \in 1 .. Len(stack) /\ stack[j] = em /\ stack[j - 1] = f
        BY <1>1, <1>2, <1>5, <4>1
      <4>. QED BY <1>1, <2>5, <4>1, <4>2 DEF Named, Handing
    <3>3. CallOf(h)' = CallOf(f)
      BY <2>5, <3>1 DEF CallOf
    <3>4. OutOf(h)' = NoEntry /\ BrokenOf(h)' = IF err = NoError THEN NoKey ELSE em.entry.key
      BY <3>1, <3>2, KindsNext
    <3>5. Named'
      BY <2>1, <2>2, <3>1 DEF Named, Handing
    <3>. QED BY <1>3, <1>5, <2>3, <3>3, <3>4, <3>5
  <2>. QED BY <1>5, <2>4, <2>5
<1>6. CASE /\ Len(stack) = 3 /\ Len(stack') = 2 /\ result' = result
           /\ f.op \in {"AddAt", "FlushBefore", "Stop", "FlushKeys"} /\ f \in Frame
           /\ stack[2].op = "flush" /\ stack[2] \in Frame /\ stack[2].held = NoError
           /\ stack'[1] = f
           /\ stack'[2] = [stack[2] EXCEPT !.held = FirstErr(@, err)]
  <2>1. PICK g, h : g \in Frame /\ g = stack[2] /\ h = stack'[2]
    BY <1>6
  <2>2. h.op = "flush" /\ h.ref = g.ref /\ h.held = err
    BY <1>6, <2>1, HeldFlush
  <2>3. em.entry.key = heap[g.ref].key
    <3>1. PICK j \in Nat : j = 3
      OBVIOUS
    <3>2. j \in 1 .. Len(stack) /\ stack[j] = em /\ stack[j - 1] = g /\ j > 1
      BY <1>1, <1>6, <2>1, <3>1
    <3>. QED BY <1>1, <1>6, <2>1, <3>2 DEF Named, Handing
  <2>4. stack' # <<>> /\ h = stack'[Len(stack')] /\ \A i \in 1 .. Len(stack') : i = 1 \/ i = 2
    <3>1. Len(stack') = 2 /\ Len(stack') # 0
      BY <1>6
    <3>. QED BY <3>1, <2>1, LenOfEmpty
  <2>5. CallNow' = CallOf(f)' /\ OutNow' = OutOf(h)' /\ BrokenNow' = BrokenOf(h)'
    BY <1>6, <2>1, <2>4, ViewsNext
  <2>6. CallOf(f)' = CallOf(f)
    BY <1>6 DEF CallOf
  <2>7. OutOf(h)' = NoEntry /\ BrokenOf(h)' = IF err = NoError THEN NoKey ELSE em.entry.key
    BY <2>2, <2>3, KindsNext
  <2>8. Named'
    <3>1. f.op = "Stop" => f.before = Forever
      BY <1>2, <1>6 DEF Named, Handing
    <3>. QED BY <1>6, <2>1, <2>2, <2>4, <3>1 DEF Named, Handing
  <2>. QED BY <1>3, <1>6, <2>5, <2>6, <2>7, <2>8
<1>. QED BY <1>1, <1>2, <1>4, <1>5, <1>6, EmitterStack

LEMMA EmitterLog ==
  ASSUME Inv, Serial, Named, Emitter
  PROVE  LogStep
<1>1. PICK err \in Nat :
        /\ Running("emit") /\ Return(err)
        /\ \/ err = NoError /\ raised' = raised
           \/ err # NoError /\ raised' # NoError
        /\ UNCHANGED <<heap, fed, delivered, lost>>
  <2>1. CASE EmitterSucceeds
    BY <2>1 DEF EmitterSucceeds, EmitterReturns, aggregator, history, NoError
  <2>2. CASE EmitterFails
    <3>1. errors + 1 \in Nat /\ errors + 1 # NoError
      BY DEF Inv, TypeOK, NoError
    <3>. QED BY <2>2, <3>1 DEF EmitterFails, EmitterReturns, aggregator, history
  <2>. QED BY <2>1, <2>2 DEF Emitter
<1>2. PICK em : em = Top
  OBVIOUS
<1>3. /\ em.op = "emit" /\ em = stack[Len(stack)] /\ stack # <<>>
      /\ Len(stack) \in 1 .. Len(stack)
  BY <1>1, <1>2, Shape DEF Serial, Running
<1>4. em.entry.lines > 0
  BY <1>3 DEF Serial, Numbered, FrameNumbered
<1>5. OutNow = OutOf(em) /\ BrokenNow = BrokenOf(em)
  BY <1>3, ViewsNow
<1>6. OutNow # NoEntry /\ OutNow.key = em.entry.key /\ BrokenNow = NoKey
  <2>1. OutNow = [key |-> em.entry.key, first |-> em.entry.data, lines |-> em.entry.lines]
        /\ BrokenNow = NoKey
    BY <1>3, <1>5, KindsNow
  <2>. QED BY <1>4, <2>1 DEF NoEntry
<1>7. /\ OutNow' = NoEntry /\ Named'
      /\ BrokenNow' \in {NoKey, em.entry.key}
      /\ err = NoError => BrokenNow' = NoKey
      /\ \/ CallNow' = CallNow /\ result' = result
         \/ /\ CallNow' = NoCall /\ BrokenNow' = NoKey /\ CallNow.op = "Add"
            /\ result' = err /\ raised = NoError
  BY <1>1, <1>2, EmitterViews
<1>8. SettledNow' = SettledNow
  BY <1>1 DEF SettledNow
<1>9. Log!Proceeds
  <2>1. CASE CallNow' = CallNow /\ result' = result
    BY <2>1 DEF Log!Proceeds
  <2>2. CASE /\ CallNow' = NoCall /\ BrokenNow' = NoKey /\ CallNow.op = "Add"
             /\ result' = err /\ raised = NoError
    <3>1. result' # NoError <=> raised' # NoError
      BY <1>1, <2>2
    <3>2. Log!Promise(CallNow)
      BY <2>2 DEF Log!Promise
    <3>. QED BY <1>7, <2>2, <3>1, <3>2 DEF Log!Proceeds
  <2>. QED BY <1>7, <2>1, <2>2
<1>10. CASE err = NoError
  <2>1. Log!Accepts
    BY <1>1, <1>6, <1>7, <1>8, <1>9, <1>10 DEF Log!Accepts, SettledNow
  <2>. QED BY <1>7, <2>1 DEF LogStep, Log!Next
<1>11. CASE err # NoError
  <2>1. Log!Fails
    BY <1>1, <1>6, <1>7, <1>8, <1>9, <1>11 DEF Log!Fails, SettledNow
  <2>. QED BY <1>7, <2>1 DEF LogStep, Log!Next
<1>. QED BY <1>10, <1>11
-----------------------------------------------------------------------------
(* A call of the aggregator returns.                                        *)

\* When Stop finds no more to flush, nothing is pending.
LEMMA StopIsThorough ==
  ASSUME Inv, Serial, Named, Running("Stop"), ~Stale
  PROVE  \A k \in StreamKeys : SettledNow[k] = fed[k]
<1>1. Len(stack) = 1 /\ Top = stack[1] /\ Top.op = "Stop"
  BY AloneLoop DEF Running, Looping
<1>2. Top.before = Forever
  BY <1>1 DEF Named, Handing
<1>3. order = <<>>
  <2>1. SUFFICES ASSUME order # <<>> PROVE FALSE
    OBVIOUS
  <2>2. Head(order) \in Refs
    BY <2>1 DEF Inv, TypeOK
  <2>3. heap[Head(order)].when \in Time
    BY <2>2 DEF Inv, TypeOK, Group
  <2>4. heap[Head(order)].when < Forever
    BY <2>3, BoundsAssumption DEF Time, Forever
  <2>. QED BY <1>2, <2>1, <2>4 DEF Stale
<1>4. Linked = {}
  BY <1>3, EmptySeq DEF Linked, ToSet
<1>5. ASSUME NEW k \in Keys PROVE Settled(k) = fed[k]
  <2>1. groups[k] = Nil
    BY <1>4 DEF Inv, Mapped
  <2>2. PendingLines(k) = 0
    BY <2>1 DEF PendingLines
  <2>3. OwedAt(1, k) = 0
    BY <1>1, OwedByKind DEF OwedAt
  <2>4. OwedAt(2, k) = 0
    BY <1>1 DEF OwedAt
  <2>5. fed[k] = Settled(k) + PendingLines(k) + OwedAt(1, k) + OwedAt(2, k)
    BY DEF Serial, Accounted
  <2>. QED BY <2>2, <2>3, <2>4, <2>5, LineCounts
<1>6. Settled(NoKey) = fed[NoKey]
  BY DEF Serial, Accounted
<1>. QED BY <1>5, <1>6, SettledCounts DEF StreamKeys

LEMMA CallReturnsLog ==
  ASSUME Inv, Serial, Named, AddReturns \/ LoopReturns
  PROVE  LogStep
<1>1. /\ stack' = <<>> /\ Len(stack) = 1 /\ Top = stack[1]
      /\ result' = Top.held /\ raised = Top.held
      /\ UNCHANGED <<fed, delivered, lost, raised>>
  BY CallReturnsSerial
<1>2. PICK f : f = Top /\ f.op \in {"AddAt", "FlushBefore", "Stop", "FlushKeys"}
  BY DEF AddReturns, LoopReturns, At, Looping, Running
<1>3. stack # <<>>
  BY <1>1, LenOfEmpty
<1>4. CallNow = CallOf(f) /\ OutNow = NoEntry /\ BrokenNow = NoKey
  <2>1. CallNow = CallOf(f) /\ OutNow = OutOf(f) /\ BrokenNow = BrokenOf(f)
    BY <1>1, <1>2, <1>3, ViewsNow
  <2>. QED BY <1>2, <2>1, KindsNow
<1>5. /\ CallNow # NoCall
      /\ CallNow.op = "Stop" => f.op = "Stop"
      /\ CallNow.op # "Flush"
  BY <1>2, <1>4, InCall
<1>6. ASSUME CallNow.op = "Stop", result' = NoError
      PROVE  \A k \in StreamKeys : SettledNow[k] = fed[k]
  <2>1. Running("Stop") /\ Top.held = NoError
    BY <1>1, <1>2, <1>3, <1>5, <1>6 DEF Running
  <2>2. ~Stale
    BY <2>1 DEF AddReturns, LoopReturns, At, Running
  <2>. QED BY <2>1, <2>2, StopIsThorough
<1>7. result' # NoError <=> raised # NoError
  BY <1>1
<1>. QED BY <1>1, <1>4, <1>5, <1>6, <1>7, ReturnLog
-----------------------------------------------------------------------------
(* The refinement.                                                          *)

LEMMA InitLog == Init => Log!Init /\ Named
<1>. SUFFICES ASSUME Init PROVE Log!Init /\ Named
  OBVIOUS
<1>1. stack = <<>> /\ raised = NoError /\ result = NoError
  BY DEF Init
<1>2. CallNow = NoCall /\ OutNow = NoEntry /\ BrokenNow = NoKey
  BY <1>1, ViewsNow
<1>3. fed = [k \in StreamKeys |-> 0] /\ SettledNow = [k \in StreamKeys |-> 0]
  BY DEF Init, SettledNow
<1>4. Named
  BY <1>1, LenOfEmpty DEF Named
<1>. QED BY <1>1, <1>2, <1>3, <1>4 DEF Log!Init, Log!StreamKeys, StreamKeys, SettledNow

LEMMA NextLog ==
  ASSUME MaxDepth = 0, Inv, Inv', Serial, Serial', Named, [Next]_vars
  PROVE  LogStep
<1>1. CASE UNCHANGED vars \/ Tick
  BY <1>1, TickLog
<1>2. CASE Calls
  <2>1. ASSUME NEW k \in Keys, NEW l \in Lines, NEW timed \in TimeModes,
               CallAdd(k, l, timed)
        PROVE  LogStep
    BY <2>1, CallAddLog
  <2>2. ASSUME NEW l \in Lines, NEW timed \in TimeModes, CallAddBypass(l, timed)
        PROVE  LogStep
    BY <2>2, CallAddBypassLog
  <2>3. ASSUME NEW k \in Keys, CallFlush(k) PROVE LogStep
    BY <2>3, CallFlushLog
  <2>4. CASE CallStop \/ \E t \in 1 .. MaxTime + 1 : CallFlushBefore(t)
    BY <2>4, CallLoopLog
  <2>. QED BY <1>2, <2>1, <2>2, <2>3, <2>4 DEF Calls
<1>3. CASE Emitter
  BY <1>3, EmitterLog
<1>4. CASE AddAt
  <2>1. CASE Continue \/ Break \/ Miss \/ Starts \/ Claim
    BY <2>1, AddLog
  <2>2. CASE PassThrough
    BY <2>2, PassThroughLog
  <2>3. CASE Drain
    BY <2>3, NoDrain
  <2>4. CASE Evict
    BY <2>4, FlushHeadLog
  <2>5. CASE AddReturns
    BY <2>5, CallReturnsLog
  <2>. QED BY <1>4, <2>1, <2>2, <2>3, <2>4, <2>5 DEF AddAt
<1>5. CASE FlushLoop
  BY <1>5, FlushHeadLog, CallReturnsLog DEF FlushLoop
<1>6. CASE Flush
  BY <1>6, FlushEntryLog, FlushEndsLog DEF Flush
<1>. QED BY <1>1, <1>2, <1>3, <1>4, <1>5, <1>6 DEF Next, Machine

\* For an emitter that does not call back, the aggregator is a line log under the
\* mapping of MultilineLog: each block of AddAt, Flush, FlushBefore, Stop and flush
\* (multiline.go:319-618) and each return of the emitter is a step of the log or
\* changes nothing of it.  So entries of a key follow each other without gap or
\* overlap, a failing emitter costs lines of the group it failed on alone, a call
\* returns an error exactly when its emitter returned one, and a Stop that returns
\* none leaves no line behind.
THEOREM ImplementsLog ==
  ASSUME MaxDepth = 0
  PROVE  Spec => ImplementsLineLog
<1>1. Init => Log!Init /\ Named
  BY InitLog
<1>2. ASSUME Inv, Inv', Serial, Serial', Named, [Next]_vars
      PROVE  [Log!Next]_(Log!vars) /\ Named'
  BY <1>2, NextLog DEF LogStep
<1>3. Spec => []Serial
  BY SerialInvariance
<1>4. Inv /\ Inv' /\ Serial /\ Serial' /\ Named /\ [Next]_vars =>
        [Log!Next]_(Log!vars) /\ Named'
  BY <1>2
<1>. QED BY <1>1, <1>3, <1>4, Invariance, PTL DEF Spec, ImplementsLineLog, Log!Spec
=============================================================================
