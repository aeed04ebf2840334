------------------------------ MODULE Literals ------------------------------
(***************************************************************************)
(* The derivation of patterns/prefilter.go: from the parse tree of a       *)
(* regular expression, substrings of which every match contains at least   *)
(* one.  A tree is a record of its operation and its subtrees; a literal   *)
(* holds runes, which are compared and measured as the bytes they encode   *)
(* to.                                                                     *)
(*                                                                         *)
(* A result is the list the code builds, with its duplicates: the caps     *)
(* count them.  The empty list stands for (nil, false), nothing is proven. *)
(***************************************************************************)
EXTENDS Integers, Sequences, SequencesExt, FiniteSetsExt

CONSTANTS
  Encode(_),        \* the UTF-8 bytes of a rune
  MinLiteral,       \* 3: the bytes a probe must have to be selective
  MaxProductSet,    \* 16
  MaxProductLen     \* 64

ASSUME CapAssumption ==
  MinLiteral \in Nat \ {0} /\ MaxProductSet \in Nat \ {0} /\ MaxProductLen \in Nat \ {0}

Literal(runes, fold) == [op |-> "literal", runes |-> runes, fold |-> fold]
Node(op, sub)        == [op |-> op, sub |-> sub]

None == <<>>

\* string(re.Rune)
BytesOf(runes) == FlattenSeq([i \in DOMAIN runes |-> Encode(runes[i])])

-----------------------------------------------------------------------------
\* product: every string of a before every string of b, unless a cap is exceeded.
Product(a, b) ==
  LET pairs == [k \in 1 .. Len(a) * Len(b) |->
                  a[((k - 1) \div Len(b)) + 1] \o b[((k - 1) % Len(b)) + 1]]
  IN  IF Len(pairs) > MaxProductSet \/ \E k \in DOMAIN pairs : Len(pairs[k]) > MaxProductLen
      THEN None ELSE pairs

\* What the branches of an alternation give together, if each gives something.
Branches(lists) ==
  IF None \in ToSet(lists) \/ Len(FlattenSeq(lists)) > MaxProductSet
  THEN None ELSE FlattenSeq(lists)

\* Mutant: a repetition is what it repeats.
TransparentPlus == {"capture", "plus"}

\* The operations whose language is that of their subtree.
Transparent == {"capture"}

\* exactSet: the whole language of the tree, when it is small and finite.
RECURSIVE ExactSet(_)
ExactSet(re) ==
  CASE re.op = "literal" -> IF re.fold THEN None ELSE <<BytesOf(re.runes)>>
    [] re.op = "empty" -> <<<<>>>>
    [] re.op \in Transparent -> ExactSet(re.sub[1])
    [] re.op = "alternate" -> Branches([i \in DOMAIN re.sub |-> ExactSet(re.sub[i])])
    [] re.op = "concat" ->
         FoldLeft(LAMBDA acc, sub : Product(acc, ExactSet(sub)), <<<<>>>>, re.sub)
    [] OTHER -> None

-----------------------------------------------------------------------------
MinLen(ls) == Min({Len(ls[i]) : i \in DOMAIN ls})

\* The longer shortest member wins, then the fewer alternatives.
MoreSelective(a, b) ==
  MinLen(a) > MinLen(b) \/ (MinLen(a) = MinLen(b) /\ Len(a) < Len(b))

Consider(best, ls) ==
  IF ls # None /\ MinLen(ls) >= MinLiteral /\ (best = None \/ MoreSelective(ls, best))
  THEN ls ELSE best

\* The product of the exact children from the i-th on, and the child it stops at; a
\* product past a cap is given up, not cut back to what it was.
Expansion(exact, i) ==
  FoldLeft(LAMBDA run, j :
             IF run.next # j \/ exact[j] = None \/ run.acc = None THEN run
             ELSE LET acc == Product(run.acc, exact[j])
                  IN  [acc |-> acc, next |-> IF acc = None THEN j ELSE j + 1],
           [acc |-> <<<<>>>>, next |-> i],
           [k \in 1 .. Len(exact) - i + 1 |-> i + k - 1])

\* The products of the contiguous runs of exact children, from the i-th child on.
RECURSIVE Expansions(_, _)
Expansions(exact, i) ==
  IF i > Len(exact) THEN <<>>
  ELSE LET run == Expansion(exact, i)
       IN  IF run.next = i THEN Expansions(exact, i + 1)
           ELSE <<run.acc>> \o Expansions(exact, run.next)

\* Mutant: a part that may be absent counts as one that is there.
RequiredPartsStar == {"capture", "plus", "star"}

\* The operations every match of which holds a match of the subtree.
RequiredParts == {"capture", "plus"}

\* literalsOf
RECURSIVE LiteralsOf(_)
LiteralsOf(re) ==
  CASE re.op = "literal" ->
         IF re.fold \/ Len(BytesOf(re.runes)) < MinLiteral
         THEN None ELSE <<BytesOf(re.runes)>>
    [] re.op = "concat" ->
         LET exact == [i \in DOMAIN re.sub |-> ExactSet(re.sub[i])]
             own   == [i \in DOMAIN re.sub |-> LiteralsOf(re.sub[i])]
         IN  FoldLeft(Consider, None, Expansions(exact, 1) \o own)
    [] re.op = "alternate" -> Branches([i \in DOMAIN re.sub |-> LiteralsOf(re.sub[i])])
    [] re.op \in RequiredParts -> LiteralsOf(re.sub[1])
    [] OTHER -> None
=============================================================================
