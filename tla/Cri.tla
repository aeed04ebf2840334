-------------------------------- MODULE Cri --------------------------------
(***************************************************************************)
(* The CRI rejoining stage of cri/cri.go.  A container runtime splits a    *)
(* long log line into fragments, tagged P but for the last one, tagged F.  *)
(* The stage buffers the fragments of each source and stream in an inner   *)
(* multiline aggregator, under a matcher of its own, and hands each line   *)
(* it puts together to the next stage.                                     *)
(*                                                                         *)
(* The inner aggregator is the module Multiline, its emitter being rejoin: *)
(* the call that hands a line on shares the stack of Multiline, so the     *)
(* next stage may fail, or call the CRI stage again.  The two ways around  *)
(* the inner aggregator, for lines that need no rejoining, are calls of    *)
(* the next stage with nothing borrowed (slot = 0).                        *)
(***************************************************************************)
EXTENDS Multiline

CONSTANTS
  Sources,          \* the non-empty keys the caller uses, one per container
  Bare,             \* marks the key of a line that is not CRI, kept unsuffixed
  ContentSizes,     \* lengths of application text in a line
  TagEnd            \* bytes of a raw line up to and with the P or F of its tag

Stdout == "stdout"
Stderr == "stderr"
Streams == {Stdout, Stderr}

\* A raw line as Parse sees it, its time apart.  A line that is not CRI has no stream.
CriLine  == [stream : Streams, partial : BOOLEAN, content : ContentSizes]
NotCri   == [stream |-> Bare, partial |-> FALSE, content |-> 0]
CriLines == CriLine \union {NotCri}

\* A space ends the tag.  The prefix is ASCII; so, here, is the content.
PrefixSize == TagEnd + 1
CriSize(raw) == IF raw = NotCri THEN 1 ELSE PrefixSize + raw.content
CriRunes(raw) == 0 .. CriSize(raw) - 1

\* "<key>/<stream>", or the key as it is.
StreamKey(source, stream) == <<source, stream>>
CriKeys == Sources \X (Streams \union {Bare})

ASSUME CriAssumption ==
  /\ Bare \notin Streams
  /\ ContentSizes \subseteq Nat
  /\ TagEnd \in Nat \ {0}

-----------------------------------------------------------------------------
(* The fragment matcher.                                                    *)

CriStates == {"start", "partial", "full"}
CriNoState == "none"

Nowhere == [next |-> {}, accepted |-> CriNoState]

\* Mutant: a fragment that stays open is as good as one that closes the run.
StepAcceptingPartial(raw, active) ==
  IF raw = NotCri \/ "full" \in active THEN Nowhere
  ELSE IF raw.partial
       THEN [next |-> {"partial"},
             accepted |-> IF "partial" \in active THEN "partial" ELSE CriNoState]
       ELSE IF "partial" \in active THEN [next |-> {"full"}, accepted |-> "full"]
       ELSE Nowhere

\* matcher.Step: a P line opens or extends a run, an F line closes one.
CriStep(raw, active) ==
  IF raw = NotCri \/ "full" \in active THEN Nowhere
  ELSE IF raw.partial THEN [next |-> {"partial"}, accepted |-> CriNoState]
  ELSE IF "partial" \in active THEN [next |-> {"full"}, accepted |-> "full"]
  ELSE Nowhere

CriFormat(state) == "cri"

\* Mutant: a plain Matcher, whose closed runs wait for the stream's next line.
CriFinalNever(state) == FALSE

\* matcher.Final.
CriFinal(state) == state = "full"

\* The inner aggregator is fed raw lines under the keys of their streams, with their
\* times, and given this matcher (New, AddParsed).
ASSUME StageAssumption ==
  /\ Keys = CriKeys /\ Lines = CriLines /\ TimeModes = {TRUE}
  /\ \A raw \in CriLines : Size(raw) = CriSize(raw) /\ Runes(raw) = CriRunes(raw)
  /\ States = CriStates /\ StartState = "start" /\ NoState = CriNoState
  /\ \A raw \in CriLines, active \in SUBSET CriStates : Step(raw, active) = CriStep(raw, active)
  /\ \A state \in CriStates : Format(state) = CriFormat(state) /\ Final(state) = CriFinal(state)

-----------------------------------------------------------------------------
(* rejoin: what the next stage is handed for an entry.                      *)

\* meta: the bytes kept of a raw line still parse when they reach past its tag.
Parses(text) == text.line # NotCri /\ text.size >= TagEnd

\* Mutant: text that does not parse is shipped as it is.
FragmentContentRaw(e, i) ==
  LET text == e.texts[i]
  IN  IF Parses(text)
      THEN [raw |-> FALSE, size |-> Max({0, text.size - PrefixSize})]
      ELSE [raw |-> TRUE, size |-> text.size]

\* fragmentContent: the bytes shipped for the i-th fragment, and whether they are
\* the raw line rather than its content.
FragmentContent(e, i) ==
  LET text == e.texts[i]
  IN  IF Parses(text)
      THEN [raw |-> FALSE, size |-> Max({0, text.size - PrefixSize})]
      ELSE IF e.truncated /\ i = Len(e.texts)
      THEN [raw |-> FALSE, size |-> 0]
      ELSE [raw |-> TRUE, size |-> text.size]

\* rejoin, its pieces not yet joined.
Rejoined(e) == [i \in DOMAIN e.texts |-> FragmentContent(e, i)]

-----------------------------------------------------------------------------
(* Add and AddParsed.                                                       *)

\* next is called with a line that was never buffered.
HandOn(key, raw, when) ==
  LET text == [line |-> raw, size |-> Size(raw), when |-> when, data |-> fed[key] + 1]
      e    == [key |-> key, match |-> NoFormat, when |-> when, data |-> fed[key] + 1,
               lines |-> 1, truncated |-> FALSE, texts |-> <<text>>]
  IN  /\ fed' = [fed EXCEPT ![key] = @ + 1]
      /\ stack' = Push(stack, EmitOf(e, 0))
      /\ Deliver(e)
      /\ BeginCall
      /\ UNCHANGED <<aggregator, scratch, clock, errors, result, lost>>

\* A line that is not CRI: the bare key, and no time.
AddNotCri(source) ==
  LET key == StreamKey(source, Bare)
  IN  /\ MayCall
      /\ fed[key] < MaxFeed
      /\ HandOn(key, NotCri, ZeroTime)

\* Mutant: a full line always goes straight on.
StraightAlways(source, raw) == ~raw.partial

\* A full line has nothing to wait for when its stream has no fragments.
Straight(source, raw) ==
  ~raw.partial /\ groups[StreamKey(source, raw.stream)] = Nil

AddStraight(source, raw) ==
  LET key == StreamKey(source, raw.stream)
  IN  /\ MayCall
      /\ fed[key] < MaxFeed
      /\ Straight(source, raw)
      /\ HandOn(key, raw, clock)

AddBuffered(source, raw) ==
  /\ ~Straight(source, raw)
  /\ CallAdd(StreamKey(source, raw.stream), raw, TRUE)

\* Without a key nothing is buffered: full lines and lines that are not CRI are
\* handed on, and the inner aggregator emits a fragment as it comes.
AddUnkeyed(raw) ==
  \/ /\ MayCall
     /\ fed[NoKey] < MaxBypass
     /\ ~raw.partial
     /\ HandOn(NoKey, raw, IF raw = NotCri THEN ZeroTime ELSE clock)
  \/ /\ raw.partial
     /\ CallAddBypass(raw, TRUE)

-----------------------------------------------------------------------------
(* Flush: stdout, then stderr unless that failed.                           *)

\* Mutant: only stdout is flushed.
FlushOrderStdout(source) == <<StreamKey(source, Stdout)>>

FlushOrder(source) == <<StreamKey(source, Stdout), StreamKey(source, Stderr)>>

CallFlushSource(source) ==
  /\ MayCall
  /\ stack' = Push(stack, [op |-> "FlushKeys", keys |-> {StreamKey(source, s) : s \in Streams},
                           left |-> FlushOrder(source), held |-> NoError])
  /\ BeginCall
  /\ UNCHANGED <<aggregator, scratch, clock, errors, result, history>>

\* Mutant: stderr is flushed although the flush of stdout failed.
FlushStreamAnyway ==
  /\ Running("FlushKeys")
  /\ Top.left # <<>>
  /\ LET key  == Head(Top.left)
         rest == SetTop([Top EXCEPT !.left = Tail(@)])
     IN  \/ /\ groups[key] = Nil
            /\ stack' = rest
            /\ UNCHANGED <<order, bytes, groups>>
         \/ /\ groups[key] # Nil
            /\ Unlink(groups[key])
            /\ stack' = Push(rest, FlushOf(groups[key]))
  /\ KeepOutside
  /\ UNCHANGED <<heap, free, result, history>>

\* The inner Flush of the next stream, whose group, if any, is unlinked and flushed.
FlushStream ==
  /\ Running("FlushKeys")
  /\ Top.held = NoError /\ Top.left # <<>>
  /\ LET key  == Head(Top.left)
         rest == SetTop([Top EXCEPT !.left = Tail(@)])
     IN  \/ /\ groups[key] = Nil
            /\ stack' = rest
            /\ UNCHANGED <<order, bytes, groups>>
         \/ /\ groups[key] # Nil
            /\ Unlink(groups[key])
            /\ stack' = Push(rest, FlushOf(groups[key]))
  /\ KeepOutside
  /\ UNCHANGED <<heap, free, result, history>>

FlushSourceReturns ==
  /\ Running("FlushKeys")
  /\ Top.held # NoError \/ Top.left = <<>>
  /\ Return(Top.held)
  /\ KeepOutside
  /\ UNCHANGED <<aggregator, history>>

-----------------------------------------------------------------------------
CriCalls ==
  \/ \E s \in Sources : AddNotCri(s)
  \/ \E s \in Sources, raw \in CriLine : AddStraight(s, raw)
  \/ \E s \in Sources, raw \in CriLine : AddBuffered(s, raw)
  \/ \E raw \in CriLines : AddUnkeyed(raw)
  \/ \E s \in Sources : CallFlushSource(s)
  \/ \E t \in 1 .. MaxTime + 1 : CallFlushBefore(t)
  \/ CallStop

CriNext ==
  Tick \/ CriCalls \/ Emitter \/ Machine \/ FlushStream \/ FlushSourceReturns

CriSpec == Init /\ [][CriNext]_vars

-----------------------------------------------------------------------------
(* Properties.                                                              *)

CriTypeOK ==
  /\ TypeOK
  /\ bytes \in Nat
  /\ delivered \in [StreamKeys -> Nat]
  /\ lost \in [StreamKeys -> Nat]

\* Only a stream of a source is ever buffered, and only in a run still open: every
\* fragment of it is a P, so that a full line which finds nothing pending is right
\* to go around the buffer (AddParsed; Final hands a closed run on at once).
OnlyOpenRunsPending ==
  \A g \in Linked :
    /\ heap[g].key[2] \in Streams
    /\ heap[g].active = {"partial"}
    /\ \A i \in DOMAIN heap[g].lines :
         heap[g].lines[i].line.partial /\ heap[g].lines[i].line.stream = heap[g].key[2]

\* Fragments are put together only as one application line: all of them P but the
\* last, which is the F that closed the run unless the caps consumed it.  A run
\* that was cut short is handed on one fragment at a time.
JoinsOneLine ==
  [][Emits =>
       LET e == Last(stack').entry
           n == Len(e.texts)
       IN  /\ \A i \in 1 .. n - 1 : e.texts[i].line.partial
           /\ n > 1 => e.truncated \/ ~e.texts[n].line.partial]_vars

\* What is shipped for a CRI line is a prefix of its content, the whole of it unless
\* the entry is flagged and the line its last; never a piece of the raw metadata a
\* byte cap cut into ("only reachable on the last retained line of a truncated
\* entry", cri.go:291).
ShipsContent ==
  [][Emits =>
       LET e == Last(stack').entry
       IN  \A i \in DOMAIN e.texts :
             LET raw == e.texts[i].line
             IN  raw # NotCri =>
                   /\ ~Rejoined(e)[i].raw
                   /\ Rejoined(e)[i].size <= raw.content
                   /\ Rejoined(e)[i].size < raw.content => e.truncated /\ i = Len(e.texts)]_vars

\* When Flush of a source returns no error, neither of its streams is pending.  Whatever
\* it returns, each line of either stream has been handed on, was lost with the run whose
\* hand-over failed, or is still pending, for a retry to find.
FlushCoversStreams ==
  [][FlushSourceReturns =>
       \A k \in Top.keys :
         /\ Top.held = NoError => groups[k] = Nil
         /\ fed[k] = delivered[k] + lost[k]
                      + (IF groups[k] = Nil THEN 0 ELSE heap[groups[k]].total)]_vars

\* The calls that hand over what is buffered, one run after the other.
FlushCalls == {"FlushKeys", "FlushBefore", "Stop"}

\* A Flush, FlushBefore or Stop of the stage whose hand-over failed is done: it takes no
\* further run, of the other stream or of any, out of the buffer, hands nothing more on,
\* and loses no line but those of the run at hand (Flush; FlushBefore, Stop and flush of
\* the inner aggregator: "groups emitted before the error are not re-delivered by a
\* retry", multiline.go:512).
FailedFlushStops ==
  [][(stack # <<>> /\ stack[1].op \in FlushCalls /\ raised # NoError) =>
       /\ UNCHANGED <<groups, order, bytes, fed, delivered>>
       /\ \A k \in Keys : groups[k] # Nil =>
            heap'[groups[k]] = heap[groups[k]] /\ lost'[k] = lost[k]]_vars
=============================================================================
