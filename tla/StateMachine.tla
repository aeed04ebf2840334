---------------------------- MODULE StateMachine ----------------------------
(***************************************************************************)
(* The matcher of patterns/patterns.go: declared state sets, by name, are  *)
(* compiled into one machine over state indices, which the aggregator then *)
(* steps line by line.  It is nondeterministic: a line moves a sequence of *)
(* active states to the sequence of their successors.                      *)
(*                                                                         *)
(* The module keeps, next to the compiled machine and its active states,   *)
(* the declarations it came from and the named states a line-by-line       *)
(* reading of them would have reached (`reached`): the indices must stand  *)
(* for those names.                                                        *)
(***************************************************************************)
EXTENDS Prefilter

CONSTANTS
  Menu,             \* what Compile is called with: sequences of state sets
  Valid(_),         \* the pattern is a regular expression
  NoName,           \* the empty string
  MaxActiveStates   \* 20 in the source

VARIABLES
  declared,         \* the sets the machine was compiled from
  machine,          \* the StateMachine, or NoMachine
  outcome,          \* of the last Compile: "none", "ok" or "error"
  active,           \* the active set of a group, a sequence of indices
  accepted,         \* what the last Step reported
  reached,          \* history: the named states a reading of the sets has reached
  landed,           \* history: those the last line landed in from `active`
  excess            \* history: a line of this group had more than MaxActiveStates

vars == <<declared, machine, outcome, active, accepted, reached, landed, excess>>

Start      == 0
NoState    == -1
NoMachine  == [transitions |-> <<>>]
NoStates   == <<>>

\* State and StateSet of the source.
States    == [name : STRING, nonTerminal : BOOLEAN,
              transitions : Seq([pattern : Patterns, next : STRING])]
StateSets == [name : STRING, states : Seq(States)]

ASSUME MachineAssumption ==
  /\ MaxActiveStates \in Nat \ {0}
  /\ \A p \in Patterns : Valid(p) \in BOOLEAN
  /\ Menu \subseteq Seq(StateSets)

-----------------------------------------------------------------------------
(* Compile.                                                                 *)

\* The states of all sets in the order they are declared.
Declarations(sets) ==
  FlattenSeq([i \in DOMAIN sets |->
    [j \in DOMAIN sets[i].states |-> [set |-> i, state |-> sets[i].states[j]]]])

\* The start state is shared; every other name is private to its set.
NodeOf(set, name) == IF name = StartName THEN <<0, StartName>> ELSE <<set, name>>

\* Mutant: names are not scoped to their set.
NodeUnscoped(set, name) == IF name = StartName THEN <<0, StartName>> ELSE <<1, name>>

\* What Compile looks a name up under.
Scoped(set, name) == NodeOf(set, name)

\* A declaration of a state that is not numbered yet numbers it.
Numbered(nodes, d) ==
  LET node == Scoped(d.set, d.state.name)
  IN  IF node \in ToSet(nodes) THEN nodes ELSE Append(nodes, node)

\* The nodes in the order Compile numbers them, the start state first.
Nodes(sets) == FoldLeft(Numbered, <<Scoped(0, StartName)>>, Declarations(sets))

IndexOf(nodes, set, name) == SelectInSeq(nodes, LAMBDA n : n = Scoped(set, name)) - 1

\* The errors of Compile.
Rejects(sets) ==
  LET ds == ToSet(Declarations(sets))
  IN  \/ \E i \in DOMAIN sets : sets[i].name = NoName
      \/ \E i, j \in DOMAIN sets : i # j /\ sets[i].name = sets[j].name
      \/ \E d \in ds : d.state.name = NoName
      \/ \E d, e \in ds :
           /\ d.set = e.set /\ d.state.name = e.state.name /\ d.state.name # StartName
           /\ d.state.nonTerminal # e.state.nonTerminal
      \/ \E d \in ds : \E t \in ToSet(d.state.transitions) :
           \/ ~Valid(t.pattern)
           \/ /\ t.next # StartName
              /\ \A e \in ds : e.set = d.set => e.state.name # t.next

\* The declarations that give a state its transitions.
Entries(sets, node) == {d \in ToSet(Declarations(sets)) : Scoped(d.set, d.state.name) = node}

\* The entries that make up one state.
Merged(sets, node) == Selected(Declarations(sets), Entries(sets, node))

\* The transitions of a state, those of its entries one after the other.
CompiledTransitions(sets, nodes, node) ==
  LET ds == Merged(sets, node)
  IN  FlattenSeq([k \in DOMAIN ds |->
        LET ts == ds[k].state.transitions
        IN  [j \in DOMAIN ts |->
              [pattern |-> ts[j].pattern,
               next |-> IndexOf(nodes, ds[k].set, ts[j].next)]]])

Compiled(sets) ==
  LET nodes == Nodes(sets)
      index == 0 .. Len(nodes) - 1
  IN  [transitions |-> [i \in index |-> CompiledTransitions(sets, nodes, nodes[i + 1])],
       format |-> [i \in index |-> IF i = Start THEN NoName ELSE sets[nodes[i + 1][1]].name],
       nonTerminal |-> [i \in index |->
         i = Start \/ Merged(sets, nodes[i + 1])[1].state.nonTerminal],
       pf |-> StartPrefilter(sets)]

-----------------------------------------------------------------------------
(* Step.                                                                    *)

\* The states a transition takes a line to.
Target(t, line) == IF Matches(line, t.pattern) THEN <<t.next>> ELSE <<>>

\* The states the transitions ts take a line to, in the order they are declared.
Targets(ts, line) == FlattenSeq([i \in DOMAIN ts |-> Target(ts[i], line)])

Successors(m, line, states) ==
  FlattenSeq([k \in DOMAIN states |-> Targets(m.transitions[states[k]], line)])

\* Mutant: a successor reached twice is collected twice.
CollectsAll(buf, s) == IF Len(buf) < MaxActiveStates THEN Append(buf, s) ELSE buf

\* A successor is kept once, while there is room.
Collects(buf, s) ==
  IF Len(buf) < MaxActiveStates /\ s \notin ToSet(buf) THEN Append(buf, s) ELSE buf

\* Mutant: only a state that was kept can be accepted.
FirstAcceptedKept(m, succ) ==
  LET kept == FoldLeft(Collects, <<>>, succ)
      k    == SelectInSeq(kept, LAMBDA s : ~m.nonTerminal[s])
  IN  IF k = 0 THEN NoState ELSE kept[k]

\* Mutant: the last accepting state wins.
LastAccepted(m, succ) ==
  LET k == SelectLastInSeq(succ, LAMBDA s : ~m.nonTerminal[s])
  IN  IF k = 0 THEN NoState ELSE succ[k]

\* The first accepting state the line lands in, kept or not.
FirstAccepted(m, succ) ==
  LET k == SelectInSeq(succ, LAMBDA s : ~m.nonTerminal[s])
  IN  IF k = 0 THEN NoState ELSE succ[k]

Outcome(m, succ) ==
  [next |-> FoldLeft(Collects, <<>>, succ), accepted |-> FirstAccepted(m, succ)]

\* The i-th start transition is tried.
Candidate(i, mask) == i \in mask \/ i > WordBits

\* stepStart: only the candidate transitions are tried.
StepStart(m, line) ==
  LET mask == Scan(m.pf, Text(line))
      ts   == m.transitions[Start]
  IN  IF mask = {} /\ ~m.pf.wide
      THEN [next |-> NoStates, accepted |-> NoState]
      ELSE Outcome(m, FlattenSeq([i \in DOMAIN ts |->
                        IF Candidate(i, mask) THEN Target(ts[i], line) ELSE <<>>]))

Step(m, line, states) ==
  IF Filtering(m.pf) /\ states = <<Start>> THEN StepStart(m, line)
  ELSE Outcome(m, Successors(m, line, states))

\* StateMachine.Format and StateMachine.Final.
Format(m, i) == m.format[i]
Final(m, i) == m.transitions[i] = <<>>

-----------------------------------------------------------------------------
(* A reading of the declarations, by name and without a machine.            *)

\* The named states a line leads to from the states in `from`.
DeclaredNext(sets, from, line) ==
  LET leaving == {d \in ToSet(Declarations(sets)) : NodeOf(d.set, d.state.name) \in from}
  IN  UNION {{NodeOf(d.set, t.next) : t \in {u \in ToSet(d.state.transitions) :
                                               Matches(line, u.pattern)}} : d \in leaving}

\* A named state a group may complete in.
Terminal(sets, node) ==
  \E d \in ToSet(Declarations(sets)) :
    /\ NodeOf(d.set, d.state.name) = node
    /\ d.state.name # StartName /\ ~d.state.nonTerminal

\* The names the indices of a sequence stand for.
Named(states) == LET nodes == Nodes(declared) IN {nodes[states[k] + 1] : k \in DOMAIN states}

NameOf(i) == Nodes(declared)[i + 1]

-----------------------------------------------------------------------------
Init ==
  /\ declared = <<>> /\ machine = NoMachine /\ outcome = "none"
  /\ active = NoStates /\ accepted = NoState
  /\ reached = {} /\ landed = {} /\ excess = FALSE

CompileSets(sets) ==
  /\ outcome = "none"
  /\ IF Rejects(sets)
     THEN /\ outcome' = "error"
          /\ UNCHANGED <<declared, machine, active, reached>>
     ELSE /\ outcome' = "ok"
          /\ declared' = sets
          /\ machine' = Compiled(sets)
          /\ active' = <<Start>>
          /\ reached' = {NodeOf(0, StartName)}
  /\ UNCHANGED <<accepted, landed, excess>>

\* The aggregator matches the next line against the group's active states.
Feed(line) ==
  /\ active # NoStates
  /\ LET step == Step(machine, line, active)
     IN  /\ active' = step.next
         /\ accepted' = step.accepted
         /\ excess' = (excess \/ Cardinality(ToSet(Successors(machine, line, active)))
                                   > MaxActiveStates)
  /\ landed' = DeclaredNext(declared, Named(active), line)
  /\ reached' = DeclaredNext(declared, reached, line)
  /\ UNCHANGED <<declared, machine, outcome>>

\* The line continued nothing: the next group starts from the start state.
Restart ==
  /\ outcome = "ok" /\ active = NoStates
  /\ active' = <<Start>> /\ accepted' = NoState
  /\ reached' = {NodeOf(0, StartName)} /\ landed' = {} /\ excess' = FALSE
  /\ UNCHANGED <<declared, machine, outcome>>

Next == (\E sets \in Menu : CompileSets(sets)) \/ (\E l \in Lines : Feed(l)) \/ Restart

Spec == Init /\ [][Next]_vars

-----------------------------------------------------------------------------
(* Properties.                                                              *)

Index == DOMAIN machine.transitions
Texts == {Text(l) : l \in Lines}

\* The states are indices of the machine, none twice, no more than the bound.
MachineTypeOK ==
  outcome = "ok" =>
    /\ machine.format \in [Index -> {s.name : s \in ToSet(declared)} \union {NoName}]
    /\ machine.nonTerminal \in [Index -> BOOLEAN]
    /\ \A i \in Index : \A t \in ToSet(machine.transitions[i]) : t.next \in Index
    /\ active \in Seq(Index) /\ IsInjective(active) /\ Len(active) <= MaxActiveStates
    /\ accepted \in Index \union {NoState}

\* The prefilter only saves work: for every line a group could start with, the
\* candidates it selects give what trying every start transition gives, with masks
\* too short for all transitions, literals folded into shorter ones, and children
\* skipped when their stem is missing (stepStart against the loop of Step).
FilterIsInvisible ==
  outcome = "ok" /\ active = <<Start>> =>
    \A l \in Lines :
      Step(machine, l, active) = Outcome(machine, Successors(machine, l, active))

\* A scan finds exactly the candidates: those no literal speaks for, and those of
\* every probe the text contains, be it found by the loop that skips the children of
\* a missing stem, or by one pass of the automaton, whose nodes must also report the
\* literals that end inside a longer one (prefilter.scan, buildAhoCorasick).
ScanIsExact ==
  outcome = "ok" =>
    LET pf == machine.pf
    IN  \A text \in Texts :
          Scan(pf, text) =
            pf.always \union
              Implied(pf, {i \in DOMAIN pf.kept : Occurs(pf.kept[i].lit, text)})

\* The active indices stand for the named states that the declarations lead to, in
\* the sets they were declared in: all of them while the bound on active states has
\* dropped none, and none besides them after it has (Compile, Step).
ActiveIsReached ==
  outcome = "ok" =>
    /\ Named(active) \subseteq reached
    /\ ~excess => Named(active) = reached

\* Step reports an accepting state exactly when the line landed in one, also when
\* that state is among those the bound dropped; its format is the set it is in.
AcceptedIsLanded ==
  outcome = "ok" =>
    /\ accepted = NoState <=> \A n \in landed : ~Terminal(declared, n)
    /\ accepted # NoState =>
         /\ NameOf(accepted) \in landed /\ Terminal(declared, NameOf(accepted))
         /\ Format(machine, accepted) = declared[NameOf(accepted)[1]].name

\* When a line completes a group in several formats, the set declared first gives the
\* format, however many lines the group went on in all of them; provided no set leads
\* back to the start state, whose transitions are those of every set (all.go, Step).
TiesGoByOrder ==
  /\ outcome = "ok" /\ accepted # NoState
  /\ \A i \in Index : \A t \in ToSet(machine.transitions[i]) : t.next # Start
  => \A n \in landed : Terminal(declared, n) => NameOf(accepted)[1] <= n[1]

\* What is said of MaxActiveStates: the bundled sets never exceed an active width of 3
\* (patterns.go, the comment of the constant; docs/usage.md).
StaysNarrow == outcome = "ok" => Len(active) <= 3

\* No declared continuation leaves a final state, so the aggregator is right to hand
\* a group over without waiting for another line (Final; entries of a state merged).
FinalIsDeadEnd ==
  outcome = "ok" /\ (\A k \in DOMAIN active : Final(machine, active[k])) =>
    \A l \in Lines : DeclaredNext(declared, Named(active), l) = {}
=============================================================================
