------------------------------ MODULE Pipeline ------------------------------
(***************************************************************************)
(* The two-stage pipeline of examples/cri: the CRI stage rejoins fragments *)
(* and hands each application line to an aggregator of traces, whose AddAt *)
(* is the next stage as it stands (cri.New(traces.AddAt)).                 *)
(*                                                                         *)
(* The CRI stage is the module Cri, and the traces are an instance of      *)
(* Multiline with variables of its own.  One thread runs both: while a     *)
(* line is with the traces, their stack moves and that of the CRI stage    *)
(* waits with its emitter on top, which then returns what AddAt returned.  *)
(* A line of the traces is the length of its text, which is what their     *)
(* matcher tells lines apart by.                                           *)
(***************************************************************************)
EXTENDS Cri

CONSTANTS
  TraceRefs,        \* addresses of groups of the traces
  TraceGroups       \* WithMaxGroups of the traces

CONSTANT            \* bound of the model
  MaxRaw            \* raw lines fed, over all keys

VARIABLES
  theap, tgroups, torder, tbytes, tfree, tscratch, tstack, terrors, tresult,
  tfed, tdelivered, tlost, traised,
  passed,           \* the line on top of the stack is with the traces, or was
  logged,           \* history: times of the raw lines fed, per key
  origin,           \* history: what each line of the traces was made from, per key
  before            \* history: failures of the last emitter before the call from outside

traces == <<theap, tgroups, torder, tbytes, tfree, tscratch, tstack, terrors, tresult,
            tfed, tdelivered, tlost, traised>>
pvars == <<vars, traces, passed, logged, origin, before>>

-----------------------------------------------------------------------------
(* The traces.                                                              *)

\* An application line that is not empty opens a trace, and an empty one continues it,
\* as the blank line of a Go panic does, or is no part of one.
TraceLines == 0 .. MaxFeed * Max(ContentSizes)

TraceStep(line, active) ==
  CASE line > 0 /\ 0 \in active -> [next |-> {1}, accepted |-> -1]
    [] line = 0 /\ 1 \in active       -> [next |-> {1}, accepted |-> 1]
    [] OTHER                          -> [next |-> {}, accepted |-> -1]

TraceFormat(state) == "trace"
TraceFinal(state)  == FALSE
TraceSize(line)    == line
TraceRunes(line)   == 0 .. line - 1

Traces == INSTANCE Multiline WITH
  Lines <- TraceLines, Size <- TraceSize, Runes <- TraceRunes,
  States <- {0, 1}, StartState <- 0, NoState <- -1, Step <- TraceStep,
  Format <- TraceFormat, Final <- TraceFinal, Refs <- TraceRefs,
  MaxLines <- 0, MaxBytes <- 0, MaxGroups <- TraceGroups, MaxTotalBytes <- 0,
  MaxDepth <- 0,
  heap <- theap, groups <- tgroups, order <- torder, bytes <- tbytes, free <- tfree,
  scratch <- tscratch, stack <- tstack, errors <- terrors, result <- tresult,
  fed <- tfed, delivered <- tdelivered, lost <- tlost, raised <- traised

-----------------------------------------------------------------------------
(* The CRI stage runs, while the traces are idle.                           *)

\* The length of the text rejoin puts together.
Joined(e) == FoldFunction(+, 0, [i \in DOMAIN e.texts |-> Rejoined(e)[i].size])

Idle == stack = <<>> /\ tstack = <<>>

\* A call feeds at most one raw line, whose time is the clock's, or none if it is not CRI.
Feeds(k, when) == logged' = [logged EXCEPT ![k] = Append(@, when)]

FeedCall ==
  /\ MapThenSumSet(LAMBDA k : fed[k], StreamKeys) < MaxRaw
  /\ \/ \E s \in Sources : AddNotCri(s) /\ Feeds(StreamKey(s, Bare), ZeroTime)
     \/ \E s \in Sources, raw \in CriLine :
          /\ AddStraight(s, raw) \/ AddBuffered(s, raw)
          /\ Feeds(StreamKey(s, raw.stream), clock)
     \/ \E raw \in CriLines :
          AddUnkeyed(raw) /\ Feeds(NoKey, IF raw = NotCri THEN ZeroTime ELSE clock)

CriCall ==
  /\ Idle
  /\ \/ FeedCall
     \/ /\ \/ \E s \in Sources : CallFlushSource(s)
           \/ \E t \in 1 .. MaxTime + 1 : CallFlushBefore(t)
           \/ CallStop
        /\ UNCHANGED logged
  /\ before' = terrors
  /\ UNCHANGED <<traces, passed, origin>>

CriMachine ==
  /\ tstack = <<>>
  /\ Machine \/ FlushStream \/ FlushSourceReturns
  /\ UNCHANGED <<traces, passed, logged, origin, before>>

-----------------------------------------------------------------------------
(* A line goes to the traces, and comes back.                               *)

\* Mutant: the line is stamped with the time it is handed over, not with its own.
ForwardNow ==
  /\ Running("emit") /\ ~passed
  /\ LET e == Top.entry
     IN  /\ IF e.key = NoKey
            THEN Traces!CallAddAtBypass(Joined(e), clock)
            ELSE Traces!CallAddAt(e.key, Joined(e), clock)
         /\ origin' = [origin EXCEPT ![e.key] = Append(@, [data |-> e.data, lines |-> e.lines,
                         straight |-> Len(stack) = 1])]
  /\ passed' = TRUE
  /\ UNCHANGED <<vars, logged, before>>

\* next(ctx, e.Key, text, e.When, e.Data).
Forward ==
  /\ Running("emit") /\ ~passed
  /\ LET e == Top.entry
     IN  /\ IF e.key = NoKey
            THEN Traces!CallAddAtBypass(Joined(e), e.when)
            ELSE Traces!CallAddAt(e.key, Joined(e), e.when)
         /\ origin' = [origin EXCEPT ![e.key] = Append(@, [data |-> e.data, lines |-> e.lines,
                         straight |-> Len(stack) = 1])]
  /\ passed' = TRUE
  /\ UNCHANGED <<vars, logged, before>>

\* The traces run: their own code, or the last emitter returns to it.
TraceMachine ==
  /\ tstack # <<>>
  /\ Traces!Machine \/ Traces!Emitter
  /\ UNCHANGED <<vars, passed, logged, origin, before>>

\* Mutant: rejoin does not look at what next returned.
BackIgnoringErrors ==
  /\ passed /\ tstack = <<>>
  /\ EmitterSucceeds
  /\ passed' = FALSE
  /\ UNCHANGED <<traces, logged, origin, before>>

\* rejoin, or AddParsed, returns what AddAt of the traces returned.
Back ==
  /\ passed /\ tstack = <<>>
  /\ \/ tresult = NoError /\ EmitterSucceeds
     \/ tresult # NoError /\ EmitterFails
  /\ passed' = FALSE
  /\ UNCHANGED <<traces, logged, origin, before>>

\* The caller flushes the traces itself.
TraceCall ==
  /\ Idle
  /\ \/ \E k \in Keys : Traces!CallFlush(k)
     \/ \E t \in 1 .. MaxTime + 1 : Traces!CallFlushBefore(t)
     \/ Traces!CallStop
  /\ UNCHANGED <<vars, passed, logged, origin, before>>

PipelineInit ==
  /\ Init /\ Traces!Init
  /\ passed = FALSE /\ before = 0
  /\ logged = [k \in StreamKeys |-> <<>>]
  /\ origin = [k \in StreamKeys |-> <<>>]

PipelineTick ==
  /\ Idle
  /\ Tick
  /\ UNCHANGED <<traces, passed, logged, origin, before>>

PipelineNext ==
  PipelineTick \/ CriCall \/ CriMachine \/ Forward \/ TraceMachine \/ Back \/ TraceCall

PipelineSpec == PipelineInit /\ [][PipelineNext]_pvars

-----------------------------------------------------------------------------
(* Properties.                                                              *)

\* The raw lines behind the first n lines of the traces under k.
RawLines(k, n) == FoldFunction(+, 0, [i \in 1 .. n |-> origin[k][i].lines])

\* Raw lines that left the pipeline, at its end or for an emitter's failure.
Gone(k) == lost[k] + RawLines(k, tdelivered[k] + tlost[k])

\* Stop of the CRI stage and then of the traces, neither failing, leaves nothing in
\* the pipeline: every raw line was in an entry of the last emitter, or in a group or
\* a run that an earlier failure dropped ("Stop any downstream stage afterwards").
StoppedInOrderIsDrained ==
  [][(TraceMachine /\ Idle' /\ stack = <<>> /\ Traces!Top.op = "Stop" /\ tresult' = NoError /\ order = <<>>)
       => torder' = <<>> /\ \A k \in StreamKeys : Gone(k) = fed[k]]_pvars

\* Under each key the entries of the last emitter start at ever later raw lines, past
\* the ones behind the entries before, and carry the time that raw line was logged
\* with: When survives rejoining, buffering and recycling in both stages.
EndToEnd ==
  [][Traces!Emits =>
       LET e == Last(tstack').entry
           o == origin'[e.key]
       IN  /\ e.data > 1 => o[e.data].data >= o[e.data - 1].data + o[e.data - 1].lines
           /\ e.data = tdelivered[e.key] + tlost[e.key] + 1
           /\ e.when = logged'[e.key][o[e.data].data]]_pvars

\* A call of the CRI stage fails exactly when the last emitter failed during it,
\* however far inside the traces, and whichever key's group it was.
ErrorsComeBack ==
  [][(stack # <<>> /\ stack' = <<>>) => (result' # NoError <=> terrors > before)]_pvars

\* A FlushBefore of the traces that returns no error leaves a stale group behind only if
\* the last line of that group was rejoined, and so came with the time of its first
\* fragment: lines that were never buffered keep the time order of the list that
\* FlushBefore stops by (rejoin; FlushBefore; "Times are assumed to be non-decreasing
\* across calls", multiline.go:314).
MissesOnlyRejoined ==
  [][(TraceMachine /\ Traces!LoopReturns /\ Traces!Top.held = NoError) =>
       \A g \in ToSet(torder) : theap[g].when < Traces!Top.before =>
         ~origin[theap[g].key][Last(theap[g].lines).data].straight]_pvars
=============================================================================
