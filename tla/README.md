# Verification of multiline

TLA+ models of `github.com/JohanLindvall/multiline`, a Go library that joins log
entries spanning several lines (stack traces, lines split by a container
runtime) into single entries, with model-checking configurations for TLC and
proofs for TLAPS. Paths below are relative to the repository root.

1. [Inventory](#1-inventory): the parts, their state, what is hard about them
2. [Modules](#2-modules): which module models what, and how
3. [Runs](#3-runs): what is checked, within which bounds
4. [Proofs](#4-proofs): what is proved, and along which argument
5. [Where code and documentation disagree](#5-where-code-and-documentation-disagree)
6. [Limits of the models](#6-limits-of-the-models)
7. [What is left](#7-what-is-left)
8. [Running it](#8-running-it)

---------------------------------------------------------------------------

## 1. Inventory

The library is single-threaded by contract ("not safe for concurrent use").
Its difficulty is elsewhere: **the emitter runs in the middle of every operation
and may call the same aggregator again**, may fail, and borrows memory the
aggregator recycles; four caps cut, drop and evict while an exact account of
lines, bytes and truncation has to be kept; and the matcher is guarded by a
filter that must never change what it decides.

### 1.1 Aggregator (`multiline.go`)

| | |
|---|---|
| State | `groups` (key → group), the intrusive last-touched list `first`/`last`, the gauge `bytes`, the free list `free`/`freeLen`, the scratch slots `scratch`/`depth` lent to emitters; per group its retained lines, `bytes`, `total`, `capped`, active matcher states, and the longest accepted prefix (`match`, `acceptedLines`, `acceptedTotal`) |
| Operations | `Add`/`AddAt`, `Flush`, `FlushBefore`, `Stop`; internally `append`, `flush`, `evict`, `emitLine`, `newGroup`, `release`, `link`, `unlink`, `moveLast`; `Pending`, `Len`, `Bytes`, `Keys` only read |
| Calls out | `Matcher.Step`, `Format`, `FinalMatcher.Final`, the clock, and the emitter, from `flush` and `emitLine` |
| Hard | An emitter that re-enters under the same or another key while a group is unlinked but not released, or before its key is claimed; an emitter error in the middle of a group; a line that crosses a cap before, at, or after the accepted prefix; eviction by a line of another key; times that are not monotone although the calls were |

Correct means: the map and the list hold the same groups and no group is
stranded (`MapMatchesList`); a group has one owner, and is recycled only when
nobody emits from it (`OneOwner`, `TextsIntact`); every line fed is delivered,
pending, or lost with an error that was reported (`NothingMissing`,
`LinesSumToTotal`, `FirstErrorReturned`); entries of a key come out in order
(`InOrder`), and seen from outside each key is a log settled from the front
(`ImplementsLineLog`); caps hold and what they cost is flagged, exactly (`GroupWithinCaps`,
`TotalsWithinCaps`, `BytesIsGauge`, `TruncatedWhereLost`); flushing by time misses
nothing (`SortedByTime`, `FlushBeforeIsComplete`); every call returns
(`CallsReturn`); and the pointers the list and the free list are made of stand for
what the code takes them for (`PointersMatch`).

### 1.2 CRI stage (`cri/cri.go`)

| | |
|---|---|
| State | an inner aggregator whose emitter is `rejoin`; a cache of the two stream keys of the last source |
| Operations | `Add`, `AddParsed`, `Flush`, `FlushBefore`, `Stop`; the fragment matcher; `rejoin`, `fragmentContent` |
| Calls out | `Next`, from `rejoin` and directly from `AddParsed` |
| Hard | A full line goes *around* the buffer when nothing is pending under its stream: right only if no closed run is ever pending; a byte cap may cut a raw line inside its metadata, which must not be shipped as log text; `Flush` covers two streams and stops at an error of the first |

Correct means: only open runs are pending (`OnlyOpenRunsPending`), so no line
overtakes a fragment (`InOrder`); fragments are joined only as one application
line (`JoinsOneLine`); what is shipped is application text (`ShipsContent`); a
flush that succeeds leaves neither stream behind and one that fails loses nothing but the
run at hand (`FlushCoversStreams`), the stream it did not reach being left as it was for
a retry (`FailedFlushStops`).

### 1.3 State machine matcher (`patterns/patterns.go`)

| | |
|---|---|
| State | immutable after `Compile`: per state its transitions, format and `nonTerminal`; the compiled start prefilter |
| Operations | `Compile` (errors included), `Step`, `stepStart`, `Format`, `Final` |
| Hard | Names are private to their set except the shared start state; one state may be declared in several entries; at most `MaxActiveStates` successors are tracked, but one beyond the bound may still be accepted; the filtered start path has to agree with the plain one |

Correct means: the indices stand for the named states a reading of the
declarations reaches (`ActiveIsReached`), acceptance is reported exactly when
the line landed in an accepting state (`AcceptedIsLanded`), ties between formats go
by the order of the sets (`TiesGoByOrder`), a final state is a dead end
(`FinalIsDeadEnd`), and the filter is invisible (`FilterIsInvisible`).

### 1.4 Start-line prefilter (`patterns/prefilter.go`)

State: the kept literals with a mask of the start transitions each implies and
the literal they extend, `roots` before children, the `always` mask, `wide`.
Operations: `startPrefilter` (collect, sort, fold, partition), `scan`,
`requiredLiterals`. Hard: masks have 64 bits while transitions and literals may
be more; a literal is folded into a shorter one only when that implies at least
as much; children are skipped when their root did not hit, so the renumbering of
parents by `partition` must be exact; above a threshold an automaton replaces the
loop and must agree with it. And the literals themselves are derived by rules over
a parse tree (`literalsOf`, `exactSet`, `product`): a rule that proves too much makes
the filter drop a line that should have started a group.

Correct means: a scan finds exactly the candidates whose literals are in the line
(`ScanIsExact`), whatever matches contains one of the literals derived
(`RequiredIsNecessary`), and a tree taken as exact has the language listed for it
(`ExactIsLanguage`).

### 1.5 Aho-Corasick automaton (`patterns/ahocorasick.go`)

State: the trie completed to a goto table, with an output mask per node.
Hard: outputs have to be inherited along failure links, in breadth-first order.
Correct means that one pass collects the masks of every literal the text contains
(`ScanIsExact`, where the automaton is chosen).

### 1.6 Chained stages (`examples/cri/main.go`, `multiline.go:56`)

`cri.Next` is satisfied by `multiline.Aggregator.AddAt` directly: chaining is one
stage's emitter calling the other. State: that of both stages, on one thread. Hard: a
rejoined line carries the time of its first fragment, so the times the second stage
sees go back although the raw lines' times do not; a stop has to go through the stages
in order; an error raised deep in the second stage has to come back through the first.

Correct means: entries come out in the order of the raw lines behind them, with the
time of the first (`EndToEnd`); a stop in order drains both stages
(`StoppedInOrderIsDrained`); errors surface in the call that caused them
(`ErrorsComeBack`); and a `FlushBefore` of the second stage that returns no error misses a
stale group only if the last line of that group was rejoined (`MissesOnlyRejoined`).

### 1.7 Bundled state sets, the rest

The bundled state sets (`patterns/*.go`) are data for `Compile`, as is the custom set of
`examples/custom`. The other examples, tests and fixtures hold no logic of their own;
the tests were read as a statement of intent.

The hazards, each at the line where it bites and with the properties that would
catch it, are listed in `PROJECT.json`.

---------------------------------------------------------------------------

## 2. Modules

```
LineLog ............................ what an aggregator promises (abstract)
   ^ implemented by, through the mapping in MultilineLog
Multiline .......................... the aggregator
   |-- MultilineInv ................ its inductive invariant
   |      |-- Intrusive ............ first/last/prev/next and the free list as pointers
   |      |-- SerialInv ............ what holds besides when emitters do not call back
   |-- Cri ......................... the CRI stage, over the aggregator
          |-- CriInv ............... what its groups hold, with SerialInv
          |-- Pipeline ............. Cri feeding an instance of Multiline

AhoCorasick -- Prefilter -- StateMachine    the matcher and its filter
Literals -- PatternTrees                    literals from a parse tree; trees and languages
Bundled                                     the state sets shipped with the package

MCMultiline (caps, errors, live, ownline, staletime)   MCIntrusive (reentrant)
MCCri (cri)   MCPipeline (pipeline)
MCStateMachine (machine, width)             MCPatternTrees (literals, fffd)

SeqLemmas -- MultilineProofs -- IntrusiveProofs
    |              |----------- SerialProofs -- CriProofs (with CriInv)
    |------- Ladder (instantiated for each folded operator)
    |------- PrefilterProofs -- MachineProofs
```

### 2.1 `Multiline`: the aggregator

The emitter can call back, so an operation is not atomic. **The call stack is
part of the state**: `stack` is a sequence of frames, one per active call, and
only the last moves. What the code does between two emitter calls is one action
per block of the source; while the stack is empty, or its top is an activation
of the emitter, the outside world has control (`Outside`) and may make any call,
let time pass, or return.

| Variable | Code |
|---|---|
| `heap` | the groups, by reference: aliasing is explicit, so that the map, the list, the free list and the frames can disagree as pointers can |
| `groups`, `order`, `bytes`, `free` | `Aggregator.groups`, `first`/`last`, `bytes`, `free` |
| `scratch` | `Aggregator.scratch[:depth]` |
| `stack` | the Go stack: frames `AddAt` (with a program counter), `FlushBefore`, `Stop`, `flush` (the group, the loop index `at`, and `sent`, a sum for the properties), `emit` (the entry, and the slot its `Texts` borrow) |
| `clock`, `errors` | what `now()` would return; the errors the emitter has raised, numbered so that the first can be told from the others |
| `result` | what the last call from outside returned |
| `fed`, `delivered`, `lost`, `raised` | history: the accounts the properties compare |

| Action | Code |
|---|---|
| `CallAddAt`, `CallAddAtBypass` | entry of `AddAt`; the empty key is emitted on the spot |
| `CallAdd`, `CallAddBypass` | the callers of the model: with the time of the clock, or, as `Add` does, with none |
| `Continue` | the matched branch of `AddAt`: append, acceptance, stamp, move to the end, then either the final flush, or eviction |
| `Break`, `Miss` | the group is flushed, or there is none |
| `PassThrough`, `Starts` | the second `Step`, from the start state |
| `Drain` | the loop that flushes whatever re-entry left under the key |
| `Claim` | `newGroup`, append, map, link, and the final case of a first line |
| `Evict`, `AddReturns` | the loop of `evict`, and the return of the held error |
| `CallFlush`, `CallFlushBefore`, `CallStop`, `FlushFirst`, `LoopReturns` | the three flushing calls and their loops |
| `FlushPrefix`, `FlushLine`, `FlushDone`, `FlushAborts` | `flush`: the aggregated entry, each line after it, `release`, and the return at the first error |
| `EmitterSucceeds`, `EmitterFails` | the emitter returns |

`AppendLine`, `NewGroup`, `Grown`, `PrefixEntry`, `LineEntry` and `Dropped` are
the pure parts of `append`, `newGroup` and `flush`. The matcher is a constant
operator `Step` that takes the *set* of active states, constrained only by what
the `Matcher` interface demands (`MatcherAssumption`). Line texts are model
values with a size and the offsets at which a rune may begin, which is all that
a cut by `WithMaxBytes` looks at.

### 2.2 `Cri`: the CRI stage

Extends `Multiline`, with the fragment matcher given for its `Step`: the inner
aggregator is that module, not a copy. The stage adds the ways around the buffer
(`AddNotCri`, `AddStraight`, `AddUnkeyed`), the way into it (`AddBuffered`), and a
frame for `Flush` that visits stdout, then stderr (`CallFlushSource`,
`FlushStream`, `FlushSourceReturns`), which `Multiline` knows as `StageFrame`, the frame
of a stage built around it, so that its invariants speak of every stack there can be.
`StageAssumption` says how the stage sets the aggregator up. `Rejoined` and `FragmentContent` are what
`rejoin` makes of an entry. A raw line is a record of what `Parse` tells apart
(stream, P or F, length of the content) behind a prefix of fixed size.

### 2.3 `AhoCorasick`, `Prefilter` and `StateMachine`: the matcher

`Prefilter` builds the filter (`Probes`, `Fold`, `Partitioned`, `Always`) and
evaluates it (`LinearScan`, or the automaton when there are `AcMinLiterals` literals)
as pure functions; a 64-bit mask is the set of its bits below `WordBits`.
`AhoCorasick` is the automaton: the trie is built edge by edge (`Insert`) and
completed by visiting its nodes in breadth-first order (`Visit`), which is where a
node absorbs the mask of its failure node. `StateMachine` compiles
declarations into a machine (`Rejects`, `Nodes`, `Compiled`) and steps it line by
line; its actions are `CompileSets`, `Feed` and `Restart`, the life of a group as
the aggregator drives it. Beside the indices it keeps `reached` and `landed`, computed
from the *declarations* by name: the reference the compiled machine is compared with.

### 2.4 `Literals` and `PatternTrees`: from expressions to literals

`Literals` is `literalsOf`, `exactSet` and `product` over a parse tree, with the caps
on the expansion. `PatternTrees` supplies the trees, grown an operation at a time as
the parser would build them, and `Lang`, the texts a tree matches: a reference that
knows nothing of literals. How `regexp` reads bytes as runes (`DecodedAs`) and folds
case (`Orbit`) are constants.

### 2.5 `Bundled`

The nine state sets in the order of `patterns.All`, and the one of `examples/custom`,
transcribed state by state. An expression is a name for what it looks for; which of
them a line matches is given by the instance.

### 2.6 `Intrusive`: the pointers

Runs `link`, `detach`, `moveLast`, `newGroup` and `release` on a record of pointers
next to the actions of `Multiline` that call them, in the order the code calls them
(`Claim` on a line that is final at once links the group and detaches it again). Where
the code reads a pointer to choose a group (`a.first`, `a.free`), so does the step.

### 2.7 `LineLog` and `MultilineLog`: the promise

`LineLog` knows no groups, no matcher and no list: per key there is a log of lines,
settled from the front, by an entry that hands over the next `n` of them or by giving
up what is left of one failed group; a call that returns no error keeps `Promise`.
`MultilineLog` maps the aggregator to it: `accepted` is `fed`, `settled` is `delivered +
lost`, the call and the entry in the emitter's hands are read off the stack. The
mapping is meant for an emitter that does not call back. One that adds under the key it
is handling interleaves two groups of that key, and a log is then not what comes out.

### 2.8 `Pipeline`: two stages

`Cri` extended by an *instance* of `Multiline` with variables of its own, for the
traces. While a line is with the traces their stack moves, and the stack of the CRI
stage waits with its emitter on top; `Forward` is `next(ctx, key, text, when, data)`,
`Back` returns what `AddAt` of the traces returned. `logged` and `origin` relate
what comes out at the end to the raw lines.

### 2.9 Invariants and proofs

`MultilineInv`, `SerialInv` and `CriInv` hold the inductive invariants, apart from the
proofs so that TLC can check them: `Inv` and `Serial` are invariants of `reentrant` and
`errors`; `Runs` and `Covered` were checked by naming them under `INVARIANTS` in
`MCCri.cfg`, `Runs` with `MaxDepth = 1` as well. `MachineInv`, the invariant of the
matcher, is stated with notions of its proof and stands in `MachineProofs`; it was checked by
letting `MCStateMachine` extend that module and naming it in `MCStateMachine.cfg`.
`SeqLemmas` has facts about sequences, sums and folds, `Ladder` the one about left folds that
needs the folded operator as a parameter; the six `...Proofs` modules have the theorems.

---------------------------------------------------------------------------

## 3. Runs

| Run | Question | Distinct states |
|---|---|---|
| `caps` | Under every cap at once, is every line, byte and flag accounted for? | 933,360 |
| `errors` | With a failing emitter and a clock, what is lost, what is returned, what does `FlushBefore` find? | 2,374,129 |
| `reentrant` | With an emitter that calls back and may fail, do map, list, pointers, free list and lent texts stay consistent, and is the invariant of the proofs an invariant? | 1,371,706 |
| `live` | Does every call return? | 365,572 |
| `cri` | Does the CRI stage join, order and strip as promised? | 536,154 |
| `pipeline` | Do order, times and errors survive both stages, what do a flush of two streams and a flush by time leave, and does a stop drain them? | 2,226,378 |
| `machine` | Does the compiled and filtered machine decide what the declarations say? | 1,632 |
| `literals` | Does every match contain one of the literals derived from its expression? | 140,659 |
| `ownline`, `staletime`, `fffd`, `width` | Four statements of the documentation (violated, section 5) | |

**Instances and bounds.** `MCMultiline` gives the aggregator a matcher with every
shape of landing the code distinguishes: not accepting (`head`, `gap`), accepting
(`body`), accepting and final (`end`), final but not accepting (`dud`), final for
a first line (`solo`), and no landing (`text`). Sizes are chosen at the edges of
the caps. With `MaxBytes = 7` a `big` line (8 bytes, no rune start past the first)
is cut to nothing, and is kept if it opens a group; after `head`, `body` a `gap`
fills the cap exactly, a further one has negative room, and a `body` has none for
its text; after `head`, `gap`, `gap` a `body` is cut in the middle of a rune and
backs off. `MaxLines = 4` and `MaxFeed = 5` reach a line dropped by count, before
and after an acceptance, and a cut or dropped line behind an accepted prefix that
is not itself truncated. Two keys suffice for eviction, for one key's line flushing
another's group, and for an emitter that answers under the same or the other key; the
keys are interchangeable and used as a symmetry, except under `live`. `MaxDepth`
bounds nested emitter activations that may call back: 1 in the runs about
re-entry, enough for a suspended call's group, key or slot to be disturbed once
at each of its emitter calls, and 0 where a property is promised only of an emitter that
does not call back. `MaxErrors = 2` tells a first error from a later one, `MaxTime = 3`
gives `FlushBefore` a bound between two groups. `MaxBypass` counts lines under the empty
key, which is no key of `Keys` and not bounded by `MaxFeed`: one is enough, as such a
line meets nothing. `MaxFreeGroups = 1`, against 4 in the source, makes both outcomes of
`release` happen. `Refs` is never
exhausted: TLC would report the disabled `Claim` as a deadlock. All bounds
are guards of the outside world (`CallAddAt`, `CallAddAtBypass`, `Tick`,
`EmitterFails`, `MayCall`): none limits what the aggregator itself does.

`MCIntrusive` has two keys and `MaxGroups = 1`, so at most two groups are linked,
first, last or alone when they are detached. A group in the middle of a longer list is
not reached by this run; it is covered by the proof (section 4). `MaxTime = 2` lets the
clock move while a call is suspended in the emitter. `MaxBypass = 0` keeps the run
small: lines without a key are in the runs without re-entry, in `staletime`, and in the
proofs, which do not bound them.

`MCPipeline` feeds one container: two streams, fragments of no or one byte, at most
`MaxRaw = 3` raw lines, over two readings of the clock; the traces hold up to
`TraceGroups = 2` groups. Three raw lines are what it takes for a line of the other
stream to come between two fragments, and for a rejoined line to reach the traces
behind a later one; a `FlushBefore` of the traces then does leave a stale group, which is
what `MissesOnlyRejoined` limits. Both streams can be pending here (`MaxGroups = 0`), as they
cannot in `cri`, so a `Flush` of the source has something to do, and to leave, in each:
the two properties about it are checked by this run.

`MCStateMachine` compiles every set of a menu alone and every ordered pair:
sets that share names and patterns, return to the start state, split a state
over two entries, fan out past `MaxActiveStates = 2`, or are malformed; and the bundled
sets with a custom one. With `WordBits = 3` and `AcMinLiterals = 3` there are more start
transitions than bits, and both the loop and the automaton are chosen. The literals come
from `Literals`, and are stems of one another or end inside one another, so that probes
fold, have parents, and overlap in the automaton. Lines of the custom sets are all
consistent combinations of patterns matched and literals contained; those of the bundled
sets are what the lines of the traces under `tests/` match, and lines that look like
several formats at once.

`MCPatternTrees` grows every tree in three steps (`MaxGrowth`) from a few leaves, with a
probe of two bytes and products of at most three strings of four bytes, so that each
cap of `product` cuts an expansion short; `MaxRepeat = 2` repetitions are enough for a
part to occur more than once, or not at all. The texts of a tree are those a match can
consume.

`machine`, `width`, `literals` and `fffd` do not check deadlock: after `Compile` has
refused its input the program has nothing to do, and a tree stops growing.

**Fairness.** `FairSpec` (run `live`) assumes weak fairness of `Machine`, the
aggregator's own code, which a running thread justifies, and strong fairness of
`Emitter`: an emitter activation, however often it calls back, returns in the
end. Strong, because each call back disables its return for a while. The number
of lines an emitter can feed is bounded (`MaxFeed`); that is the condition the documentation
of `Emitter` states ("must make progress rather than add a line
unconditionally"), without which the drain loop of `AddAt` never settles. Callers
and the clock are not assumed to do anything. `live` uses no symmetry.

**Sensitivity.** For every property of a passing run, `PROJECT.json` names a
mutation of a definition that models code, such as a dropped guard, a missing
release or an off-by-one, under which that run finds the property violated. The
mutated operators stand next to the originals, commented `Mutant:`.

---------------------------------------------------------------------------

## 4. Proofs

Five groups of theorems. The first holds for **every** matcher, set of keys and lines,
value of the caps, number of emitter failures and depth of re-entry:

| Theorem | Property | Module |
|---|---|---|
| `Invariance` | `Inv`, the inductive invariant | `MultilineProofs` |
| `TypeCorrectness` | `TypeOK` | |
| `MapAndListAgree` | `MapMatchesList` | |
| `GroupsHaveOneOwner` | `OneOwner` | |
| `TextsStayIntact` | `TextsIntact` | |
| `GroupsWithinCaps` | `GroupWithinCaps` | |
| `LinesAddUp` | `LinesSumToTotal` | |
| `TruncatedIsExact` | `TruncatedWhereLost` (a step property) | |
| `AggregatesSpanLines` | `AggregateSpansLines` (a step property) | |
| `CapsInvariance` | `CapsOK`, inductive with `Inv` | |
| `TotalsHold` | `TotalsWithinCaps` | |
| `BytesAddUp` | `BytesIsGauge` | |
| `PointersStandForLists` | `PointersMatch` | `IntrusiveProofs` |

The second assumes an emitter that does not call back (`MaxDepth = 0`), and leaves
everything else open:

| Theorem | Property | Module |
|---|---|---|
| `SerialInvariance` | `Serial`, inductive with `Inv` | `SerialProofs` |
| `NothingIsMissing` | `NothingMissing` | |
| `FirstErrorIsReturned` | `FirstErrorReturned` | |
| `ListIsSorted` | `SortedByTime` | |
| `FlushBeforeCompletes` | `FlushBeforeIsComplete` (a step property) | |
| `EntriesInOrder` | `InOrder` (a step property) | |

The third, under the same condition, is the refinement: `ImplementsLog` (`SerialProofs`)
proves `Spec => ImplementsLineLog`. Every action of the aggregator is mapped to a step
of `LineLog` or a stutter, with one lemma per action.

The fourth is about the CRI stage, for every set of sources and of line lengths, every
value of the caps and any number of failures of the next stage. The upper part holds
whatever the next stage calls while it handles a line, the lower one for a next stage
that does not call back (`MaxDepth = 0`):

| Theorem | Property | Module |
|---|---|---|
| `CriInvariance` | `Inv` | `CriProofs` |
| `CriTypes` | `CriTypeOK` | |
| `CriCapsInvariance`, `CriCapsHold` | `CapsOK`; `BytesIsGauge` and `TotalsWithinCaps` | |
| `RunsInvariance` | `Runs`, inductive with `Inv` | |
| `OpenRuns` | `OnlyOpenRunsPending` | |
| `OneLineJoined` | `JoinsOneLine` (a step property) | |
| `ContentIsShipped` | `ShipsContent` (a step property) | |
| `CriSerial` | `Serial`, inductive with `Inv` and `Runs` | |
| `CriNothingIsMissing` | `NothingMissing` and `FirstErrorReturned` | |
| `LinesInOrder` | `InOrder` (a step property) | |
| `CriFlushBeforeCompletes` | `FlushBeforeIsComplete` (a step property) | |
| `FlushCovers` | `FlushCoversStreams` (a step property) | |
| `FailedFlushIsOver` | `FailedFlushStops` (a step property) | |

The fifth is about the matcher, for every menu of state sets, every set of lines and
patterns, every width of the masks and every bound on the active states. What a line matches
is open, except that a line that matches a pattern contains one of the literals required of
it (`ContentAssumption`; patterns that name U+FFFD do not meet this, section 5). The invariant
`MachineInv`, and so every theorem but `AhoCorasickExact`, is proved with it:

| Theorem | Property | Module |
|---|---|---|
| `AhoCorasickExact` | the automaton of any probes reports exactly those a text contains | `PrefilterProofs` |
| `MachineCorrect` | `MachineInv`, inductive | `MachineProofs` |
| `MachineTypes` | `MachineTypeOK` | |
| `FilterUnseen` | `FilterIsInvisible` | |
| `ScansExactly` | `ScanIsExact` | |
| `ActiveReached` | `ActiveIsReached` | |
| `AcceptedLanded` | `AcceptedIsLanded` | |
| `TiesOrdered` | `TiesGoByOrder` | |
| `FinalEnds` | `FinalIsDeadEnd` | |

`FinalIsDeadEnd` is the one property here that no run names: it follows from the invariant, and
the mistake it would catch, entries of a state that replace one another instead of being
merged, already breaks `ActiveIsReached` in `machine`.

**Assumptions.** The named `ASSUME`s of `Multiline`: the caps are naturals, names
are distinct, references are naturals, line sizes are naturals, `Step` returns states
and `NoState` is not one of them. For the stage, those of `Cri`: the two streams are not
the mark of a line that is not CRI, lengths are naturals, and the inner aggregator is set
up as `New` does it (`StageAssumption`): keys of streams, raw lines, the fragment matcher
for its `Step` and `Final`. TLC evaluates them in every run that uses the module. Nothing
else is assumed of `Final` beyond being Boolean, of `Runes` beyond being offsets, or of
how the emitter behaves, but for `MaxDepth = 0` where stated. The history bounds play no
role in any proof. For the matcher: the menu holds sequences of state sets of the type
the source declares, over the patterns of the instance; bytes are finitely many numbers; the
literals required of a pattern are finitely many and not empty; and a line that
matches a pattern contains one of them (`ContentAssumption`), which is what `literals` checks
of their derivation. Nothing else is assumed of which lines match, nor of which expressions are
valid.

**The argument.** None of the properties is inductive alone.

- `Owned` and `Mapped` say that list, free list and map are consistent. When a
  suspended `AddAt` claims its key, `Mapped` survives only because `KeyIsFree` is
  read after the last emitter call.
- `Flushing` says that a flush in progress owns its group: no list holds it, and
  no other flush. `Claim` takes a group that is on the free list or unused, so
  by `Flushing` it is never one a suspended flush is still emitting from.
- `Account`, inside `Flushing`, relates `sent` to the place the flush has reached;
  it is stable because the group does not change while it is in flight.
- `Formed` is the bookkeeping of `append`: only the last retained line may be cut,
  nothing is retained after something was dropped, so lines dropped *before* an
  acceptance have no retained line after it. This is what makes `Dropped`
  non-negative and `truncated` exact, and is the argument the comments in
  `append` and `flush` make in words.
- `Lent` says that scratch slots are taken in the order of the depth and a
  group's lines are lent by the flush one frame below, so returning emitters
  free exactly their own slot.
- `PointersMatch` needs `Inv`: list and free list share the field `next`, and do not
  disturb each other only because no group is in both (`Owned`).
- `CapsOK`: the gauge is the sum of the bytes of the listed groups (`Sums`, with the
  sums of the prefixes as a witness, so that no induction is needed), and while a cap
  over all groups is exceeded some activation of `AddAt` has its eviction loop before it.
  A re-entrant call that exceeds a cap evicts by itself; a suspended one that is in the
  loop stays in it. When nothing is in progress nobody is evicting, so no cap is
  exceeded.
- `Charges`, for `BytesIsGauge`: the `bytes` of every group, pending or not, are the sizes
  of its lines and one separator between each two (`Charged`), which `append` keeps up
  whether it cuts, drops or keeps a line. The property says so with folds, which are
  recursive functions; see below for how a fold is reasoned about.
- `Serial` follows one call from end to end: the stack is the call, at most one flush
  and at most one emitter (`OneCall`); the error a call will return is in one of these
  frames (`ErrorsHeld`); a line fed is settled, pending or owed by a frame
  (`Accounted`), under the number it was fed with (`Numbered`); a line not placed yet is
  not older than any pending group (`Timely`). `Named` adds what the refinement needs:
  an entry has the key of its group.
- `Runs` is what the fragment matcher makes of `Inv`. A pending group has nothing but
  P lines of one stream, and its matcher waits for more (`Open`); a group in flight may
  have an F line at its end (`Run`), which `JoinsOneLine` needs to tell a closed run
  from one that is given up. A full line enters the buffer only when a group is pending
  under its key, so `AddParsed` and the first block of `AddAt`, which are two steps, have
  to agree: an `AddAt` that has just begun is on top of the stack and its line is a
  fragment or still has a group to close. With a run that was closed left pending
  (`CriFinalNever`), or an F line starting a group, it breaks.
- `ShipsContent` needs no more than `Inv`: only the last retained line of a group may be
  cut, and an entry that has a cut line is flagged.
- What a line handed on unbuffered does to `Serial` rests on `Runs`: nothing is pending
  under its key, so the line is the next one to be settled (`FreeKeys`).
- `MachineInv` follows the indices back to names. `Nodes` numbers each declared name once, the
  start state first and the sets in order; the transitions of an index are those of its
  entries, in order, with the index of the next name (`CompiledLinks`), so the successors of
  indices stand for `DeclaredNext` of their names (`SuccessorsAre`). `Step` is the outcome of
  these successors (`StepIs`): with the filter, because a transition that is no candidate does
  not match (`CandidatesSuffice`). For `TiesGoByOrder` the invariant also says that the active
  states come in the order of their sets, and the start state alone (`PlacedOK`), as long as no
  set leads back to it: a step keeps this, as a successor stays in the set of its state.
- `ScanIsExact` rests on two arguments. A child is in a text only with its stem, which
  has a bit in the hits bitmap also after the reordering: the new number of a stem is at most the
  old one (`PartitionedOK`). A node of the automaton stands for the string that leads to it;
  after a node was visited its failure link is the longest proper suffix of that string in
  the trie, and its mask the union of those of all literals that end there, because the search
  reaches shorter strings first (`VisitStep`, `SearchEnd`). So after any text the
  automaton is at the longest suffix of it that is in the trie, and has missed nothing
  (`ScanExact`).
- `Covered`: a `Flush` has no group under the keys it is done with. Without re-entry
  nothing is buffered while it is in progress, so what it unlinked stays away. That the lines
  add up when it returns is `Serial`; that nothing moves once an error is on its way out
  (`FailedHolds`) is too, since the error is in the one flush or in the frame of the call.

Each of the proof modules has one lemma per action, and under it one step per part of
the invariant the action can disturb. The facts about `append` and `flush` are at the
beginning of `MultilineProofs`, those about sequences in `SeqLemmas`.

**Folds.** The induction theorems of the library take an operator as parameter and cannot
be used here. Sums over a sequence are therefore stated with their partial sums as a
witness (`Sums`), and `SeqLemmas` proves what is needed of the folds of the community
modules from the fact that `<` on the naturals is well-founded: a set of naturals that has 0
and is closed under successor has all of them (`SetInduction`), and a function that unfolds as the fold does exists
(`FoldExists`), so the `CHOOSE` in the fold's definition denotes one; that all such
functions agree follows by an induction over a set (`SizesFold`, `SetSum`). A left fold over a
sequence is the last of the values it passes through (`FoldClimbs` in `Ladder`, whose
constant `Op` is instantiated with the operator folded: `Descend`, `Insert`, `Visit`, `Follow`,
`Keep`, `Numbered`, `Collects`), and what it preserves follows by an induction over the
positions. What is flattened is seen in the same way (`FlattenLadder`). The models sort and filter by
ranks (`Ranked`) and by flattening (`Selected`) for this reason.

**Only model-checked.** `CallsReturn`, because liveness under fairness is out of the
prover's reach; `NothingMissing` and `FlushBeforeIsComplete` under re-entry, the latter for
lines stamped by the clock only, as it fails for others (section 5); everything about
`Pipeline`; and that the derived literals are necessary (`RequiredIsNecessary`,
`ExactIsLanguage`). `Literals` and `PatternTrees` are recursive over parse trees, and stay so:
the prover loses its SMT backend in a module with a `RECURSIVE` operator, and what the recursion
computes for every tree would take an induction over data. So the theorems about the filter
assume of the literals what `literals` checks.

---------------------------------------------------------------------------

## 5. Where code and documentation disagree

All were met while writing the properties down. Each has a run in which TLC finds the
statement violated by what the code does.

**`ownline`.** The documentation of `AddAt` says (`multiline.go:318-320`): "The
line is always accounted for, even when an emitter error is on its way out: an
error raised by a flush this line triggered is held back until the line itself
has been buffered or emitted, so no input is lost to it." When a line lands in a
dead end it is appended to the pending group and the group is flushed at once
(338-342). If the landing did not accept, the line comes out as an
entry of its own after others; when the emitter fails on one of those, `flush` returns
there (599-601, 617-619): the line passed to this call is neither buffered nor
emitted. The run: `head`, then `dud`; the emitter fails on `head`.

**`staletime`.** The documentation of `FlushBefore` says (`multiline.go:492`) it
"emits every pending group last touched before t", and rests on the list being in
order of non-decreasing times. With an emitter that feeds the aggregator, which
`multiline.go:69-70` allows, calls may start in the order of their times and finish
in another: `AddAt` at time 1 breaks a group; the emitter adds a line at time 2
under another key; the suspended call then links a group stamped 1 behind it.
`FlushBefore(2)` stops at the first group and leaves the stale one pending. The
`reentrant` run checks the same property with lines stamped by the clock when they
are buffered (`Add`) and a clock that moves during suspended calls, where it holds; `errors` checks it with caller-supplied times
and no re-entry, where it holds as well.

**`fffd`.** The documentation of `requiredLiterals` says (`patterns/prefilter.go:248-249`)
that "every match of pattern contains at least one of them". For a literal that holds
U+FFFD it returns the three bytes that encode this rune. Package `regexp` reads each byte
of a line that is not valid UTF-8 as U+FFFD, so that such a line matches without
containing them, and the start prefilter rejects a line its pattern matches. No bundled
expression names U+FFFD; a custom one could. `literals` checks the same property without
that rune, where it holds.

**`width`.** `patterns/patterns.go:181-182` says that the bundled sets "never exceed an
active width of 3", and `docs/usage.md:198-199` repeats it. Nothing makes the start
patterns exclusive: one line that reports a chain of errors across several runtimes lands
in five states at once. It is harmless, as `MaxActiveStates` is far above, but the width
is a property of the lines seen, not of the sets.

---------------------------------------------------------------------------

## 6. Limits of the models

- `Entry.Text`, the joined text, is left out; `Texts` is modelled with the memory it
  borrows. Line buffers are not recycled apart from their group, and
  `release`'s clearing of them is modelled as the group becoming `Blank`.
- An emitter that panics is not modelled (a scratch slot is then never reused).
- The order of lines under re-entry into the *same* key is promised nowhere and
  stated nowhere; `InOrder` is checked with emitters that do not re-enter.
- `Multiline` takes the active states as a set. The order `StateMachine` gives
  them decides which of several accepted states is reported, and what the bound
  drops, and is modelled there.
- Parsing and simplifying a regular expression belong to `regexp/syntax`; the models
  start from the simplified tree. In `StateMachine` an expression is a relation between
  lines and patterns, and that a matching line contains a required literal is a condition
  on the lines of the instance, which `literals` checks of the derivation.
- The literals of the bundled expressions are not derived (their `Required` is empty),
  so the filter passes all bundled transitions; the filter is checked with the custom sets.
- In `Cri`, `Parse` is what it tells apart; sub-tags, time zones and streams other
  than stdout and stderr (possible through `AddParsed` only) are left out, and so
  is the cache of stream keys, which is a function of the key.
- In `Pipeline` the time in a raw line and the clock are one and the same, and the clock
  moves only between calls; neither stage's last emitter calls back.
- Counters are unbounded integers: line and byte counts stay far below the range
  of Go's `int`.
- `StartLiterals` and `UnfilteredStarts` report on a compiled machine, `Pending`, `Len`,
  `Bytes` and `Keys` on an aggregator; they change nothing and are not modelled as actions.
- The examples other than the two modelled read lines and print entries.

---------------------------------------------------------------------------

## 7. What is left

Models: an emitter that panics and a caller that recovers (`multiline.go:438`); the
literals of the bundled expressions, for which their parse trees would have to be
written down; a chain of stages in which the last emitter feeds the first.

Theorems: `Pipeline`, whose two stages have both been proved
about, each on its own; `NothingMissing` under re-entry, where each frame of any stack owes
lines and the sum runs over the whole stack; `FlushBeforeIsComplete` under re-entry for
lines stamped by the clock.

---------------------------------------------------------------------------

## 8. Running it

```
tlc -workers 2 -config MCMultilineCaps.cfg MCMultiline.tla
tlc -workers 2 -config MCIntrusive.cfg MCIntrusive.tla
tlc -workers 2 -config MCCri.cfg MCCri.tla
tlc -workers 2 -config MCPipeline.cfg MCPipeline.tla
tlc -workers 2 -config MCStateMachine.cfg MCStateMachine.tla
tlc -workers 2 -config MCPatternTrees.cfg MCPatternTrees.tla
tlapm MultilineProofs.tla
tlapm IntrusiveProofs.tla
tlapm SerialProofs.tla
tlapm CriProofs.tla
tlapm PrefilterProofs.tla
tlapm MachineProofs.tla
tlapm SeqLemmas.tla
tlapm Ladder.tla
```

Each run takes a few minutes at most on two cores, and no proof module more than about
ten from nothing. `PROJECT.json` lists every run with
its configuration and properties, the mutants, the source lines each
definition models, the hazards, and the theorems.
