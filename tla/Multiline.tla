------------------------------ MODULE Multiline ------------------------------
(***************************************************************************)
(* The aggregator of multiline.go.  Lines are fed one at a time under a    *)
(* key; a matcher decides which of them belong together; a group of lines  *)
(* that cannot grow any more is handed to the emitter as one entry.        *)
(*                                                                         *)
(* The package is single-threaded, but the emitter may call the aggregator *)
(* again while it is handling an entry.  The module therefore keeps the    *)
(* call stack as state: `stack` holds one frame per active call, only the  *)
(* top frame moves, and what the code does between two emitter calls is    *)
(* split into one action per block of the source.  When the stack is empty,*)
(* or its top frame is an activation of the emitter, the outside world     *)
(* runs: it may call any operation, let time pass, or return from the      *)
(* emitter, with or without an error.                                      *)
(*                                                                         *)
(* Groups live on a heap and are named by references, so that the key map, *)
(* the last-touched list, the free list and the frames of the calls in     *)
(* progress can alias them, or fail to agree, as pointers do.              *)
(***************************************************************************)
EXTENDS Integers, Sequences, SequencesExt, FiniteSetsExt

CONSTANTS
  Keys,             \* the non-empty keys
  NoKey,            \* the empty key, which bypasses aggregation
  Lines,            \* the line texts, told apart only as the matcher does
  Size(_),          \* length in bytes of a line text
  Runes(_),         \* offsets of a line text at which a rune starts
  States,           \* the matcher's state indices
  StartState,       \* index 0, the state every group starts from
  NoState,          \* the accepted = -1 of Matcher.Step
  Step(_, _),       \* Matcher.Step: [next |-> set of states, accepted |-> state or NoState]
  Format(_),        \* Matcher.Format
  NoFormat,         \* the "" of Entry.Match
  Final(_),         \* FinalMatcher.Final; FALSE everywhere for a plain Matcher
  Refs,             \* addresses of groups
  Nil,              \* the nil *group
  MaxLines, MaxBytes, MaxGroups, MaxTotalBytes,   \* the caps, 0 = unlimited
  MaxFreeGroups,    \* 4 in the source
  TimeModes         \* {TRUE}: AddAt with a time, {FALSE}: Add; or both

CONSTANTS           \* bounds of the model
  MaxFeed,          \* lines fed per key
  MaxBypass,        \* lines fed under the empty key
  MaxTime,          \* last reading of the clock
  MaxDepth,         \* emitter activations that may re-enter, 0 = none does
  MaxErrors         \* times the emitter fails

VARIABLES
  heap,             \* the groups, by reference
  groups,           \* Aggregator.groups, key -> reference or Nil
  order,            \* the first/last list: references, least recently touched first
  bytes,            \* Aggregator.bytes
  free,             \* the free list, most recently released first
  scratch,          \* Aggregator.scratch, the slots below Aggregator.depth
  stack,            \* the active calls, innermost last
  clock,            \* what time.Now would return
  errors,           \* errors the emitter has returned so far; an error is its number
  result,           \* what the last call from outside returned, 0 = nil
  fed,              \* history: lines fed per key
  delivered,        \* history: Entry.Lines handed to the emitter per key
  lost,             \* history: lines of failed flushes never handed over
  raised            \* history: first error since the call from outside began

aggregator == <<heap, groups, order, bytes, free>>
history    == <<fed, delivered, lost>>
vars == <<aggregator, scratch, stack, clock, errors, result, history, raised>>

StreamKeys == Keys \union {NoKey}
ZeroTime   == 0
NoError    == 0
Forever    == MaxTime + 2       \* later than any time a caller passes: Stop's bound

ASSUME BoundsAssumption ==
  /\ MaxLines \in Nat /\ MaxBytes \in Nat /\ MaxGroups \in Nat
  /\ MaxTotalBytes \in Nat /\ MaxFreeGroups \in Nat
  /\ MaxFeed \in Nat /\ MaxBypass \in Nat /\ MaxTime \in Nat \ {0} /\ MaxDepth \in Nat /\ MaxErrors \in Nat
  /\ TimeModes \subseteq BOOLEAN

ASSUME NamesAssumption ==
  /\ NoKey \notin Keys
  /\ Nil \notin Refs
  /\ Refs \subseteq Nat

ASSUME LineAssumption ==
  \A l \in Lines : Size(l) \in Nat /\ Runes(l) \subseteq Nat

\* What the Matcher and FinalMatcher interfaces let the aggregator rely on.
ASSUME MatcherAssumption ==
  /\ StartState \in States
  /\ NoState \notin States
  /\ \A l \in Lines, active \in SUBSET States :
       /\ Step(l, active).next \in SUBSET States
       /\ Step(l, active).accepted \in States \union {NoState}
  /\ \A s \in States : Final(s) \in BOOLEAN

Formats == {Format(s) : s \in States}

-----------------------------------------------------------------------------
(* The values the state is made of.                                         *)

Time == 0 .. MaxTime

\* A retained line: its text, the bytes of it that were kept, and lineAux.
RetainedLine == [line : Lines, size : Nat, when : Time, data : Nat]

Group ==
  [key : StreamKeys, when : Time, lines : Seq(RetainedLine), bytes : Nat,
   total : Nat, capped : BOOLEAN, active : SUBSET States,
   match : Formats \union {NoFormat}, acceptedLines : Nat, acceptedTotal : Nat]

Blank ==
  [key |-> NoKey, when |-> ZeroTime, lines |-> <<>>, bytes |-> 0, total |-> 0,
   capped |-> FALSE, active |-> {}, match |-> NoFormat,
   acceptedLines |-> 0, acceptedTotal |-> 0]

Entry ==
  [key : StreamKeys, match : Formats \union {NoFormat}, when : Time, data : Nat,
   lines : Int, truncated : BOOLEAN, texts : Seq(RetainedLine)]

\* One record shape per kind of activation.  `held` is the error the activation
\* has collected from the calls it made.
AddFrame ==
  [op : {"AddAt"}, pc : {"lookup", "start", "drain", "evict", "return"},
   key : Keys, line : Lines, when : Time, data : Nat, held : Nat]
LoopFrame  == [op : {"FlushBefore", "Stop"}, before : Nat, held : Nat]
FlushFrame == [op : {"flush"}, ref : Refs, at : Nat, sent : Int, held : Nat]
EmitFrame  == [op : {"emit"}, entry : Entry, slot : Nat]
\* Not the aggregator's: a stage built around it flushes some keys, one by one.
StageFrame == [op : {"FlushKeys"}, keys : SUBSET Keys, left : Seq(Keys), held : Nat]
Frame == AddFrame \union LoopFrame \union FlushFrame \union EmitFrame \union StageFrame

Top == Last(stack)

Emitting == {i \in DOMAIN stack : stack[i].op = "emit"}

InFlight == {stack[i].ref : i \in {j \in DOMAIN stack : stack[j].op = "flush"}}

\* References nothing holds: the allocator, or the garbage collector, has them.
Unused == Refs \ (ToSet(order) \union ToSet(free) \union InFlight)

-----------------------------------------------------------------------------
(* Calling and returning.                                                   *)

\* Mutant: the last error wins.
LastErr(held, err) == IF err # NoError THEN err ELSE held

FirstErr(held, err) == IF held # NoError THEN held ELSE err

Push(st, frame) == Append(st, frame)

SetTop(frame) == [stack EXCEPT ![Len(stack)] = frame]

\* The top activation of st returns err.  An activation of the aggregator folds
\* it into the error it holds; the emitter, or the caller outside, does as it likes.
Pop(err) ==
  LET rest == Front(stack)
  IN  IF rest = <<>> \/ Last(rest).op = "emit"
      THEN rest
      ELSE [rest EXCEPT ![Len(rest)].held = FirstErr(@, err)]

Return(err) ==
  /\ stack' = Pop(err)
  /\ result' = IF Len(stack) = 1 THEN err ELSE result

\* Code of the aggregator is running, in an activation of `op`.
Running(op) == stack # <<>> /\ Top.op = op

\* The outside world has control, and may call the aggregator.
Outside == stack # <<>> => Top.op = "emit"
MayCall == Outside /\ Cardinality(Emitting) <= MaxDepth

\* A call from outside starts with nothing raised.
BeginCall == raised' = IF stack = <<>> THEN NoError ELSE raised

-----------------------------------------------------------------------------
(* The key map, the last-touched list, the free list.                       *)

Linked == ToSet(order)

Detached(g) == RemoveFirst(order, g)

\* Mutant: a touched group keeps its place.
NotMoved(g) == order

\* Aggregator.moveLast.
MovedLast(g) == Append(Detached(g), g)

\* The map without g, which is deleted by identity and not by name.
Unmapped(g) ==
  [k \in Keys |-> IF k = heap[g].key /\ groups[k] = g THEN Nil ELSE groups[k]]

\* Mutants: the gauge is not lowered; the group stays in the list.
UnlinkCharged(g) == order' = Detached(g) /\ groups' = Unmapped(g) /\ UNCHANGED bytes
UnlinkFromMap(g) == groups' = Unmapped(g) /\ bytes' = bytes - heap[g].bytes /\ UNCHANGED order

\* Aggregator.unlink: g leaves the list, and the map when the map holds it.
Unlink(g) ==
  /\ order' = Detached(g)
  /\ bytes' = bytes - heap[g].bytes
  /\ groups' = Unmapped(g)

\* Aggregator.release: park g on the free list, or leave it to the collector.
Released(g) == IF Len(free) >= MaxFreeGroups THEN free ELSE <<g>> \o free

Stamp(when) == IF when = ZeroTime THEN clock ELSE when

-----------------------------------------------------------------------------
(* Aggregator.append and Aggregator.flush, as functions of a group.         *)

\* Mutant: a negative room is not raised to zero.
CutAtUnclamped(l, n) == IF n <= 0 THEN n ELSE Max({0} \union {b \in Runes(l) : b <= n})

\* The bytes of l kept when n are available: back off to a rune boundary.
CutAt(l, n) == IF n <= 0 THEN 0 ELSE Max({0} \union {b \in Runes(l) : b <= n})

\* Lines are joined by one byte, and charged for it.
Separator(g) == IF g.lines = <<>> THEN 0 ELSE 1

\* Mutant: the separator is not charged.
RoomIgnoringSeparator(g) == MaxBytes - g.bytes

\* The bytes the next line of g may take.
Room(g) == MaxBytes - g.bytes - Separator(g)

AppendLine(g, l, when, data) ==
  LET over == MaxBytes > 0 /\ Size(l) > Room(g)
      full == g.capped \/ (MaxLines > 0 /\ Len(g.lines) >= MaxLines)
      kept == IF over THEN CutAt(l, Room(g)) ELSE Size(l)
      gone == full \/ (over /\ kept = 0 /\ g.lines # <<>>)
      text == [line |-> l, size |-> kept, when |-> when, data |-> data]
  IN  [g EXCEPT !.total = @ + 1,
                !.capped = full \/ over,
                !.lines = IF gone THEN @ ELSE Append(@, text),
                !.bytes = IF gone THEN @ ELSE @ + Separator(g) + kept]

\* A group that consumes a line continuing it: append, then the bookkeeping of AddAt.
Grown(g, l, when, data) ==
  LET step == Step(l, g.active)
      more == AppendLine(g, l, when, data)
      hit  == step.accepted # NoState
  IN  [more EXCEPT !.active = step.next,
                   !.when = Stamp(when),
                   !.match = IF hit THEN Format(step.accepted) ELSE @,
                   !.acceptedLines = IF hit THEN Len(more.lines) ELSE @,
                   !.acceptedTotal = IF hit THEN more.total ELSE @]

\* Aggregator.newGroup: the fields a recycled or a fresh group starts with.
Opened(key, when, active) ==
  [key |-> key, when |-> Stamp(when), lines |-> <<>>, bytes |-> 0, total |-> 0,
   capped |-> FALSE, active |-> active, match |-> NoFormat,
   acceptedLines |-> 0, acceptedTotal |-> 0]

\* Mutant: the first line of a group can complete it.
NewGroupAccepting(key, l, when, data) ==
  LET step == Step(l, {StartState})
      new  == AppendLine(Opened(key, when, step.next), l, when, data)
  IN  IF step.accepted = NoState THEN new
      ELSE [new EXCEPT !.match = Format(step.accepted),
                       !.acceptedLines = 1, !.acceptedTotal = 1]

\* A group and the first line of it.  What the matcher accepts is ignored here.
NewGroup(key, l, when, data) ==
  AppendLine(Opened(key, when, Step(l, {StartState}).next), l, when, data)

AllFinal(next) == \A s \in next : Final(s)

\* Mutants: lines the prefix already covers are dropped again; none is ever dropped.
DroppedOfAll(g) == g.total - Len(g.lines)
DroppedNone(g) == 0

\* Lines the caps consumed that neither the aggregated entry nor a retained
\* line stands for.
Dropped(g) == g.total - g.acceptedTotal - (Len(g.lines) - g.acceptedLines)

\* Mutant: the prefix is flagged for text lost after it.
PrefixEntryFlagged(g) ==
  [key |-> g.key, match |-> g.match,
   when |-> g.lines[1].when, data |-> g.lines[1].data,
   lines |-> g.acceptedTotal + (IF g.acceptedLines = Len(g.lines) THEN Dropped(g) ELSE 0),
   truncated |-> g.capped,
   texts |-> SubSeq(g.lines, 1, g.acceptedLines)]

\* The entry for the longest accepted prefix.
PrefixEntry(g) ==
  LET tail == g.acceptedLines
      last == tail = Len(g.lines)
  IN  [key |-> g.key, match |-> g.match,
       when |-> g.lines[1].when, data |-> g.lines[1].data,
       lines |-> g.acceptedTotal + (IF last THEN Dropped(g) ELSE 0),
       truncated |-> g.capped /\ last,
       texts |-> SubSeq(g.lines, 1, tail)]

\* Mutant: every line carries the data of the first.
LineEntryOfFirst(g, i) ==
  [key |-> g.key, match |-> NoFormat, when |-> g.lines[1].when, data |-> g.lines[1].data,
   lines |-> 1 + (IF i = Len(g.lines) THEN Dropped(g) ELSE 0),
   truncated |-> g.capped /\ i = Len(g.lines),
   texts |-> <<g.lines[i]>>]

\* The entry for the i-th retained line, emitted on its own.
LineEntry(g, i) ==
  LET last == i = Len(g.lines)
  IN  [key |-> g.key, match |-> NoFormat,
       when |-> g.lines[i].when, data |-> g.lines[i].data,
       lines |-> 1 + (IF last THEN Dropped(g) ELSE 0),
       truncated |-> g.capped /\ last,
       texts |-> <<g.lines[i]>>]

FlushOf(g) == [op |-> "flush", ref |-> g, at |-> 0, sent |-> 0, held |-> NoError]

\* The emitter is entered with e, its Texts borrowed from a scratch slot, or
\* (slot = 0) from the lines of the group being flushed.
EmitOf(e, slot) == [op |-> "emit", entry |-> e, slot |-> slot]

Deliver(e) == delivered' = [delivered EXCEPT ![e.key] = @ + e.lines]

\* Mutant: one slot for every depth.
SharedSlot == 1

\* The scratch slot emitLine takes: one per depth of emitter re-entrancy.
Slot == Len(scratch) + 1

\* emitLine on top of st.
EmitLine(st, key, l, when, data) ==
  LET text == [line |-> l, size |-> Size(l), when |-> when, data |-> data]
      e    == [key |-> key, match |-> NoFormat, when |-> when, data |-> data,
               lines |-> 1, truncated |-> FALSE, texts |-> <<text>>]
  IN  /\ scratch' = SubSeq(scratch, 1, Slot - 1) \o <<text>>
      /\ stack' = Push(st, EmitOf(e, Slot))
      /\ Deliver(e)

-----------------------------------------------------------------------------
(* What the outside world does.                                             *)

Init ==
  /\ heap = [g \in Refs |-> Blank]
  /\ groups = [k \in Keys |-> Nil]
  /\ order = <<>> /\ free = <<>> /\ scratch = <<>> /\ stack = <<>>
  /\ bytes = 0 /\ clock = 1 /\ errors = 0
  /\ result = NoError /\ raised = NoError
  /\ fed = [k \in StreamKeys |-> 0]
  /\ delivered = [k \in StreamKeys |-> 0]
  /\ lost = [k \in StreamKeys |-> 0]

Tick ==
  /\ Outside
  /\ clock < MaxTime
  /\ clock' = clock + 1
  /\ UNCHANGED <<aggregator, scratch, stack, errors, result, history, raised>>

\* AddAt with a non-empty key.
CallAddAt(k, l, when) ==
  /\ MayCall
  /\ fed[k] < MaxFeed
  /\ fed' = [fed EXCEPT ![k] = @ + 1]
  /\ stack' = Push(stack,
       [op |-> "AddAt", pc |-> "lookup", key |-> k, line |-> l,
        when |-> when, data |-> fed[k] + 1, held |-> NoError])
  /\ BeginCall
  /\ UNCHANGED <<aggregator, scratch, clock, errors, result, delivered, lost>>

\* AddAt with an empty key: emitted on the spot.
CallAddAtBypass(l, when) ==
  /\ MayCall
  /\ fed[NoKey] < MaxBypass
  /\ fed' = [fed EXCEPT ![NoKey] = @ + 1]
  /\ EmitLine(stack, NoKey, l, when, fed[NoKey] + 1)
  /\ BeginCall
  /\ UNCHANGED <<aggregator, clock, errors, result, lost>>

\* Add, which passes no time, and AddAt with the time of the line.
When(timed) == IF timed THEN clock ELSE ZeroTime
CallAdd(k, l, timed) == CallAddAt(k, l, When(timed))
CallAddBypass(l, timed) == CallAddAtBypass(l, When(timed))

\* Flush(key), when key has a group; it does nothing otherwise.
CallFlush(k) ==
  /\ MayCall
  /\ groups[k] # Nil
  /\ Unlink(groups[k])
  /\ stack' = Push(stack, FlushOf(groups[k]))
  /\ BeginCall
  /\ UNCHANGED <<heap, free, scratch, clock, errors, result, history>>

CallFlushBefore(t) ==
  /\ MayCall
  /\ stack' = Push(stack, [op |-> "FlushBefore", before |-> t, held |-> NoError])
  /\ BeginCall
  /\ UNCHANGED <<aggregator, scratch, clock, errors, result, history>>

CallStop ==
  /\ MayCall
  /\ stack' = Push(stack, [op |-> "Stop", before |-> Forever, held |-> NoError])
  /\ BeginCall
  /\ UNCHANGED <<aggregator, scratch, clock, errors, result, history>>

\* The emitter returns: its scratch slot, if it had one, is free again.
EmitterReturns(err) ==
  /\ Running("emit")
  /\ Return(err)
  /\ scratch' = IF Top.slot = 0 THEN scratch ELSE SubSeq(scratch, 1, Top.slot - 1)
  /\ UNCHANGED <<aggregator, clock, history>>

EmitterSucceeds == EmitterReturns(NoError) /\ UNCHANGED <<errors, raised>>

EmitterFails ==
  /\ errors < MaxErrors
  /\ EmitterReturns(errors + 1)
  /\ errors' = errors + 1
  /\ raised' = IF raised = NoError THEN errors + 1 ELSE raised

-----------------------------------------------------------------------------
(* AddAt, block by block.  `me` is its activation.                          *)

At(pc) == Running("AddAt") /\ Top.pc = pc

KeepOutside == UNCHANGED <<scratch, clock, errors, raised>>

\* The line continues the pending group of its key.
Continue ==
  /\ At("lookup")
  /\ LET me    == Top
         g     == groups[me.key]
         next  == Step(me.line, heap[g].active).next
         grown == Grown(heap[g], me.line, me.when, me.data)
     IN  /\ g # Nil
         /\ next # {}
         /\ heap' = [heap EXCEPT ![g] = grown]
         /\ \/ /\ AllFinal(next)                \* unlink undoes append's charge
               /\ order' = Detached(g)
               /\ bytes' = bytes - heap[g].bytes
               /\ groups' = [groups EXCEPT ![me.key] = Nil]
               /\ stack' = Push(SetTop([me EXCEPT !.pc = "return"]), FlushOf(g))
            \/ /\ ~AllFinal(next)
               /\ order' = MovedLast(g)
               /\ bytes' = bytes + grown.bytes - heap[g].bytes
               /\ stack' = SetTop([me EXCEPT
                    !.pc = IF MaxTotalBytes > 0 THEN "evict" ELSE "return"])
               /\ UNCHANGED groups
  /\ KeepOutside
  /\ UNCHANGED <<free, result, history>>

\* The line does not continue the group of its key: the group is flushed.
Break ==
  /\ At("lookup")
  /\ LET g == groups[Top.key]
     IN  /\ g # Nil
         /\ Step(Top.line, heap[g].active).next = {}
         /\ Unlink(g)
         /\ stack' = Push(SetTop([Top EXCEPT !.pc = "start"]), FlushOf(g))
  /\ KeepOutside
  /\ UNCHANGED <<heap, free, result, history>>

\* No group is pending under the key.
Miss ==
  /\ At("lookup")
  /\ groups[Top.key] = Nil
  /\ stack' = SetTop([Top EXCEPT !.pc = "start"])
  /\ KeepOutside
  /\ UNCHANGED <<aggregator, result, history>>

\* A line no group starts with is emitted as it is.
PassThrough ==
  /\ At("start")
  /\ Step(Top.line, {StartState}).next = {}
  /\ EmitLine(SetTop([Top EXCEPT !.pc = "return"]),
              Top.key, Top.line, Top.when, Top.data)
  /\ UNCHANGED <<aggregator, clock, errors, raised, result, fed, lost>>

\* The line starts a group.
Starts ==
  /\ At("start")
  /\ Step(Top.line, {StartState}).next # {}
  /\ stack' = SetTop([Top EXCEPT !.pc = "drain"])
  /\ KeepOutside
  /\ UNCHANGED <<aggregator, result, history>>

\* Mutant: the key is taken to be free once its group was flushed.
KeyTakenAsFree == TRUE

\* The emitter may have left a group under the key.
KeyIsFree == groups[Top.key] = Nil

\* It did: flush that group first.
Drain ==
  /\ At("drain")
  /\ ~KeyIsFree
  /\ Unlink(groups[Top.key])
  /\ stack' = Push(stack, FlushOf(groups[Top.key]))
  /\ KeepOutside
  /\ UNCHANGED <<heap, free, result, history>>

\* Mutant: the recycled group stays on the free list.
AllocatesShared(g) ==
  IF free # <<>>
  THEN g = Head(free) /\ UNCHANGED free
  ELSE g \in Unused /\ (\A r \in Unused : g <= r) /\ UNCHANGED free

\* newGroup: from the free list, or a fresh one (the least unused address).
Allocates(g) ==
  IF free # <<>>
  THEN g = Head(free) /\ free' = Tail(free)
  ELSE /\ g \in Unused
       /\ \A r \in Unused : g <= r
       /\ UNCHANGED free

\* The key is free: the line becomes the first of a new group.
Claim ==
  /\ At("drain")
  /\ KeyIsFree
  /\ \E g \in Refs :
       LET next == Step(Top.line, {StartState}).next
           new  == NewGroup(Top.key, Top.line, Top.when, Top.data)
       IN  /\ Allocates(g)
           /\ heap' = [heap EXCEPT ![g] = new]
           /\ \/ /\ AllFinal(next)            \* linked, unlinked and flushed at once
                 /\ stack' = Push(SetTop([Top EXCEPT !.pc = "return"]), FlushOf(g))
                 /\ UNCHANGED <<groups, order, bytes>>
              \/ /\ ~AllFinal(next)
                 /\ groups' = [groups EXCEPT ![Top.key] = g]
                 /\ order' = Append(order, g)
                 /\ bytes' = bytes + new.bytes
                 /\ stack' = SetTop([Top EXCEPT !.pc = "evict"])
  /\ KeepOutside
  /\ UNCHANGED <<result, history>>

\* Mutants: the group cap is off by one; the byte cap is forgotten.
OverCapsByOne ==
  /\ Len(order) > 1
  /\ \/ MaxGroups > 0 /\ Cardinality({k \in Keys : groups[k] # Nil}) > MaxGroups + 1
     \/ MaxTotalBytes > 0 /\ bytes > MaxTotalBytes
OverGroupCap ==
  /\ Len(order) > 1
  /\ MaxGroups > 0 /\ Cardinality({k \in Keys : groups[k] # Nil}) > MaxGroups

\* The caps over all groups; the most recently touched group is never evicted.
OverCaps ==
  /\ Len(order) > 1
  /\ \/ MaxGroups > 0 /\ Cardinality({k \in Keys : groups[k] # Nil}) > MaxGroups
     \/ MaxTotalBytes > 0 /\ bytes > MaxTotalBytes

Evict ==
  /\ At("evict")
  /\ OverCaps
  /\ Unlink(Head(order))
  /\ stack' = Push(stack, FlushOf(Head(order)))
  /\ KeepOutside
  /\ UNCHANGED <<heap, free, result, history>>

\* Mutant: an error of the flush a line triggers ends the call before the line is placed.
AddReturnsEarly ==
  /\ At("return") \/ (At("evict") /\ ~OverCaps) \/ (At("start") /\ Top.held # NoError)
  /\ Return(Top.held)
  /\ KeepOutside
  /\ UNCHANGED <<aggregator, history>>

AddReturns ==
  /\ At("return") \/ (At("evict") /\ ~OverCaps)
  /\ Return(Top.held)
  /\ KeepOutside
  /\ UNCHANGED <<aggregator, history>>

-----------------------------------------------------------------------------
(* FlushBefore and Stop: the loops over the last-touched list.              *)

Looping == Running("FlushBefore") \/ Running("Stop")

\* Mutant: the loop spares the last group, as evict does.
StaleUnlessLast == Len(order) > 1 /\ heap[Head(order)].when < Top.before

Stale == order # <<>> /\ heap[Head(order)].when < Top.before

FlushFirst ==
  /\ Looping
  /\ Top.held = NoError
  /\ Stale
  /\ Unlink(Head(order))
  /\ stack' = Push(stack, FlushOf(Head(order)))
  /\ KeepOutside
  /\ UNCHANGED <<heap, free, result, history>>

LoopReturns ==
  /\ Looping
  /\ Top.held # NoError \/ ~Stale
  /\ Return(Top.held)
  /\ KeepOutside
  /\ UNCHANGED <<aggregator, history>>

-----------------------------------------------------------------------------
(* flush: one entry per emitter call, then the group is released.           *)

EmitFromGroup(e, at) ==
  /\ stack' = Push(SetTop([Top EXCEPT !.at = at, !.sent = @ + e.lines]), EmitOf(e, 0))
  /\ Deliver(e)
  /\ KeepOutside
  /\ UNCHANGED <<aggregator, result, fed, lost>>

FlushPrefix ==
  /\ Running("flush")
  /\ LET g == heap[Top.ref]
     IN  /\ Top.held = NoError
         /\ Top.at = 0 /\ g.acceptedLines > 0
         /\ EmitFromGroup(PrefixEntry(g), g.acceptedLines)

FlushLine ==
  /\ Running("flush")
  /\ LET g == heap[Top.ref]
     IN  /\ Top.held = NoError
         /\ Top.at >= g.acceptedLines /\ Top.at < Len(g.lines)
         /\ EmitFromGroup(LineEntry(g, Top.at + 1), Top.at + 1)

\* Every entry was handed over: the group is recycled.
FlushDone ==
  /\ Running("flush")
  /\ Top.held = NoError
  /\ Top.at = Len(heap[Top.ref].lines)
  /\ free' = Released(Top.ref)
  /\ heap' = [heap EXCEPT ![Top.ref] = Blank]
  /\ Return(NoError)
  /\ KeepOutside
  /\ UNCHANGED <<groups, order, bytes, history>>

\* Mutant: a group whose emitter failed is linked again, for a retry.
FlushRelinks ==
  /\ Running("flush")
  /\ Top.held # NoError
  /\ order' = <<Top.ref>> \o order
  /\ bytes' = bytes + heap[Top.ref].bytes
  /\ groups' = [groups EXCEPT ![heap[Top.ref].key] = Top.ref]
  /\ Return(Top.held)
  /\ KeepOutside
  /\ UNCHANGED <<heap, free, history>>

\* The emitter failed: the rest of the group is dropped with it.
FlushAborts ==
  /\ Running("flush")
  /\ Top.held # NoError
  /\ LET g == heap[Top.ref]
     IN  lost' = [lost EXCEPT ![g.key] = @ + g.total - Top.sent]
  /\ heap' = [heap EXCEPT ![Top.ref] = Blank]
  /\ Return(Top.held)
  /\ KeepOutside
  /\ UNCHANGED <<groups, order, bytes, free, fed, delivered>>

-----------------------------------------------------------------------------
Calls ==
  \/ \E k \in Keys, l \in Lines, timed \in TimeModes : CallAdd(k, l, timed)
  \/ \E l \in Lines, timed \in TimeModes : CallAddBypass(l, timed)
  \/ \E k \in Keys : CallFlush(k)
  \/ \E t \in 1 .. MaxTime + 1 : CallFlushBefore(t)
  \/ CallStop

Emitter == EmitterSucceeds \/ EmitterFails

AddAt == Continue \/ Break \/ Miss \/ PassThrough \/ Starts \/ Drain \/ Claim
         \/ Evict \/ AddReturns

FlushLoop == FlushFirst \/ LoopReturns

Flush == FlushPrefix \/ FlushLine \/ FlushDone \/ FlushAborts

\* What the aggregator's own code does, as opposed to its callers and the emitter.
Machine == AddAt \/ FlushLoop \/ Flush

Next == Tick \/ Calls \/ Emitter \/ Machine

Spec == Init /\ [][Next]_vars

\* The thread keeps running the aggregator's code, and an emitter, however often
\* it calls back, returns in the end.
FairSpec == Spec /\ WF_vars(Machine) /\ SF_vars(Emitter)
-----------------------------------------------------------------------------
(* Properties.                                                              *)

TypeOK ==
  /\ heap \in [Refs -> Group]
  /\ groups \in [Keys -> Refs \union {Nil}]
  /\ order \in Seq(Refs)
  /\ bytes \in Int
  /\ free \in Seq(Refs)
  /\ scratch \in Seq(RetainedLine)
  /\ stack \in Seq(Frame)
  /\ clock \in 1 .. MaxTime
  /\ errors \in Nat /\ result \in Nat /\ raised \in Nat
  /\ fed \in [StreamKeys -> Nat]
  /\ delivered \in [StreamKeys -> Int]
  /\ lost \in [StreamKeys -> Int]

Quiet == stack = <<>>

\* The key map and the last-touched list hold the same groups, each under its own
\* key and once, whatever calls an emitter made while a call was in progress: no
\* group is stranded in the list where its key no longer reaches it (the drain
\* loop of AddAt, and unlink's comparison by identity).
MapMatchesList ==
  /\ IsInjective(order)
  /\ \A g \in Linked : heap[g].key \in Keys /\ groups[heap[g].key] = g
  /\ \A k \in Keys : groups[k] # Nil => groups[k] \in Linked /\ heap[groups[k]].key = k

\* A group has one owner: the list, the free list, or one flush in progress.  A
\* released group is never one that a suspended call still emits from, and no two
\* suspended calls flush the same group.
OneOwner ==
  /\ IsInjective(order) /\ IsInjective(free)
  /\ Linked \intersect ToSet(free) = {}
  /\ InFlight \intersect (Linked \union ToSet(free)) = {}
  /\ \A i, j \in DOMAIN stack :
       stack[i].op = "flush" /\ stack[j].op = "flush" /\ stack[i].ref = stack[j].ref
         => i = j

\* What the Texts view of the i-th activation, one of the emitter, shows now: a slot of
\* scratch, the lines of the group being flushed, or what a stage around the
\* aggregator passes on without borrowing anything.
View(i) ==
  LET e == stack[i].entry
      f == stack[i - 1]
  IN  IF stack[i].slot > 0 THEN <<scratch[stack[i].slot]>>
      ELSE IF i > 1 /\ f.op = "flush"
      THEN SubSeq(heap[f.ref].lines, f.at - Len(e.texts) + 1, f.at)
      ELSE e.texts

\* The Texts lent to an emitter do not change under it until it returns, even when
\* it calls the aggregator again (a scratch slot per depth; release after the emits).
TextsIntact == \A i \in Emitting : View(i) = stack[i].entry.texts

\* The size of a group's text: its lines joined by one byte each.
JoinedSize(g) ==
  IF g.lines = <<>> THEN 0
  ELSE FoldLeft(LAMBDA n, text : n + text.size, Len(g.lines) - 1, g.lines)

\* Bytes() is the size of the text retained in the groups that are pending: what
\* append charges and unlink discharges add up, cut and dropped lines included.
BytesIsGauge == bytes = MapThenSumSet(LAMBDA g : JoinedSize(heap[g]), Linked)

\* Whatever a group consumes, it retains no more than the caps over one group allow:
\* the cut of the line that crosses the byte cap leaves room for its separator.
GroupWithinCaps ==
  \A g \in Linked \union InFlight :
    /\ MaxBytes > 0 => heap[g].bytes <= MaxBytes
    /\ MaxLines > 0 => Len(heap[g].lines) <= MaxLines

\* When no call is in progress the caps over all groups hold, the byte cap up to
\* the one group that is never evicted.
TotalsWithinCaps ==
  Quiet => /\ MaxGroups > 0 => Len(order) <= MaxGroups
           /\ MaxTotalBytes > 0 => bytes <= MaxTotalBytes \/ Len(order) = 1

\* Across the entries of one group, Lines sums to the lines the group consumed:
\* when its flush has emitted everything, what it sent is the group's total.
LinesSumToTotal ==
  \A i \in DOMAIN stack :
    stack[i].op = "flush" /\ stack[i].at = Len(heap[stack[i].ref].lines)
      => stack[i].sent = heap[stack[i].ref].total

\* Every line fed is handed over, lost to an emitter error, or pending.
NothingMissing ==
  Quiet => \A k \in Keys :
    fed[k] = delivered[k] + lost[k] + (IF groups[k] = Nil THEN 0 ELSE heap[groups[k]].total)

Emits == Len(stack') > Len(stack) /\ Last(stack').op = "emit"

\* Entries of a key come out in the order its lines went in, each starting at the
\* first line not yet accounted for: nothing is skipped, repeated or reordered.
InOrder ==
  [][Emits => LET e == Last(stack').entry
              IN  e.data = delivered[e.key] + lost[e.key] + 1]_vars

\* Truncated is set exactly on an entry that lost text: one with a cut line, or
\* one that stands for more lines than it carries.
Lossy(e) ==
  \/ e.lines > Len(e.texts)
  \/ \E i \in DOMAIN e.texts : e.texts[i].size < Size(e.texts[i].line)

TruncatedWhereLost ==
  [][Emits => (Last(stack').entry.truncated <=> Lossy(Last(stack').entry))]_vars

\* An entry that names a format stands for at least two source lines.
AggregateSpansLines ==
  [][Emits => (Last(stack').entry.match # NoFormat => Last(stack').entry.lines >= 2)]_vars

\* The last-touched list is in the order of the groups' times, which FlushBefore
\* relies on when it stops at the first group that is not stale.
SortedByTime ==
  \A i, j \in DOMAIN order : i < j => heap[order[i]].when <= heap[order[j]].when

\* When FlushBefore returns without an error, no group last touched before its
\* time is pending; when Stop does, nothing is.
FlushBeforeIsComplete ==
  [][(LoopReturns /\ Top.held = NoError) =>
       \A g \in Linked : ~(heap[g].when < Top.before)]_vars

\* The first error an emitter returned during a call is the error the call returns.
FirstErrorReturned == Quiet => result = raised

\* An AddAt whose line lands in a dead end flushes its own group; when that flush
\* fails, the line passed to the call has been handed to the emitter all the same
\* ("The line is always accounted for", multiline.go:318).
OwnLineAccounted ==
  \A i \in DOMAIN stack :
    /\ i < Len(stack)
    /\ stack[i].op = "AddAt" /\ stack[i].pc = "return"
    /\ stack[i + 1].op = "flush" /\ stack[i + 1].held # NoError
    => stack[i + 1].sent = heap[stack[i + 1].ref].total

\* Every call returns: the loops of Stop, FlushBefore, evict and the drain loop of
\* AddAt, which re-read the state an emitter may have changed, all terminate.
CallsReturn == stack # <<>> ~> stack = <<>>
=============================================================================
