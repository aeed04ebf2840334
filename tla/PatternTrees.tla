---------------------------- MODULE PatternTrees ----------------------------
(***************************************************************************)
(* The parse trees Literals is asked about, one operation at a time, next  *)
(* to what a regular expression of that shape can match.  A tree grows by  *)
(* being captured, repeated or made optional, and by getting a part before *)
(* or after it, or a branch beside it; no bigger than MaxSize nodes.       *)
(*                                                                         *)
(* Lang(re) holds the texts a match can consume.  What package regexp does *)
(* with a rune is a constant: DecodedAs(r) are the byte strings it reads   *)
(* as r, which for U+FFFD includes every byte that is not valid UTF-8, and *)
(* Orbit(r) are the runes r stands for under (?i).                         *)
(***************************************************************************)
EXTENDS Literals

CONSTANTS
  DecodedAs(_),
  Orbit(_),
  Classes,          \* sets of runes: the character classes
  Literals0,        \* the literal leaves
  Parts,            \* the trees another one is combined with
  MaxGrowth,        \* bound on the steps a tree grows by
  MaxRepeat         \* bound on the repetitions in Lang

VARIABLES
  re,               \* the tree
  growth            \* how often it has grown

vars == <<re, growth>>

Class(runes) == [op |-> "class", runes |-> runes]
Empty        == [op |-> "empty"]
Anchor       == [op |-> "begin"]

Leaves == Literals0 \union {Class(c) : c \in Classes} \union {Empty, Anchor}

-----------------------------------------------------------------------------
\* The texts of S one after the other with those of T.
Catenated(S, T) == {s \o t : s \in S, t \in T}

RECURSIVE Power(_, _)
Power(S, n) == IF n = 0 THEN {<<>>} ELSE Catenated(Power(S, n - 1), S)

Spelled(r, fold) == UNION {DecodedAs(q) : q \in IF fold THEN Orbit(r) ELSE {r}}

\* Every operation of a simplified tree; the other zero-width ones are like "begin".
RECURSIVE Lang(_)
Lang(t) ==
  CASE t.op = "literal" ->
         FoldLeft(LAMBDA S, r : Catenated(S, Spelled(r, t.fold)), {<<>>}, t.runes)
    [] t.op = "class" -> UNION {DecodedAs(r) : r \in t.runes}
    [] t.op \in {"empty", "begin"} -> {<<>>}
    [] t.op = "capture" -> Lang(t.sub[1])
    [] t.op = "concat" -> FoldLeft(LAMBDA S, s : Catenated(S, Lang(s)), {<<>>}, t.sub)
    [] t.op = "alternate" -> UNION {Lang(t.sub[i]) : i \in DOMAIN t.sub}
    [] t.op = "quest" -> Lang(t.sub[1]) \union {<<>>}
    [] t.op = "plus" -> UNION {Power(Lang(t.sub[1]), n) : n \in 1 .. MaxRepeat}
    [] t.op = "star" -> UNION {Power(Lang(t.sub[1]), n) : n \in 0 .. MaxRepeat}

-----------------------------------------------------------------------------
Init == re \in Leaves \union Parts /\ growth = 0

Wrap(op) == re' = Node(op, <<re>>)

\* The parser flattens a concatenation or an alternation in itself.
Operands(op, t) == IF t.op = op THEN t.sub ELSE <<t>>

After(op, part)  == re' = Node(op, Operands(op, re) \o <<part>>)
Before(op, part) == re' = Node(op, <<part>> \o Operands(op, re))

Next ==
  /\ \/ \E op \in {"capture", "plus", "star", "quest"} : Wrap(op)
     \/ \E op \in {"concat", "alternate"}, part \in Parts :
          After(op, part) \/ Before(op, part)
  /\ growth < MaxGrowth /\ growth' = growth + 1

Spec == Init /\ [][Next]_vars

-----------------------------------------------------------------------------
(* Properties.                                                              *)

\* strings.Contains(text, lit)
Contained(lit, text) ==
  \E i \in 0 .. Len(text) - Len(lit) : SubSeq(text, i + 1, i + Len(lit)) = lit

\* The literals derived from a tree are required: whatever a match consumes contains
\* one of them, through captures, repetitions, optional parts, branches, and products
\* that a cap cut short.  A line without any may be skipped (requiredLiterals).
RequiredIsNecessary ==
  LiteralsOf(re) # None =>
    \A text \in Lang(re) : \E lit \in ToSet(LiteralsOf(re)) : Contained(lit, text)

\* A tree taken as exact matches the strings listed for it and no others, so that a
\* product of neighbours spells what they match together (exactSet, product).
ExactIsLanguage ==
  ExactSet(re) # None => ToSet(ExactSet(re)) = Lang(re)
=============================================================================
