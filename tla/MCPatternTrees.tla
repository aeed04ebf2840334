--------------------------- MODULE MCPatternTrees ---------------------------
(***************************************************************************)
(* Instances of PatternTrees.  The runes are a letter and its capital, a   *)
(* second letter, and one of two bytes; the second instance adds U+FFFD.   *)
(* A probe needs two bytes, a product holds three strings of four bytes.   *)
(***************************************************************************)
EXTENDS PatternTrees

LowerA == 97
UpperA == 65
LowerB == 98
EAcute == 233
Replacement == 65533

MCEncode(r) == CASE r = EAcute -> <<195, 169>> [] r = Replacement -> <<239, 191, 189>>
                 [] OTHER -> <<r>>

\* A byte that begins no rune is read as U+FFFD.
MCDecodedAs(r) == {MCEncode(r)} \union (IF r = Replacement THEN {<<255>>} ELSE {})

MCOrbit(r) == IF r \in {LowerA, UpperA} THEN {LowerA, UpperA} ELSE {r}

L(runes) == Literal(runes, FALSE)
A == L(<<LowerA>>)
B == L(<<LowerB>>)

MCClasses == {{LowerA, LowerB}}

MCLiterals0 ==
  {A, L(<<LowerB, LowerA>>), L(<<EAcute>>), Literal(<<LowerA, LowerB>>, TRUE)}

MCParts ==
  {A, L(<<LowerB, LowerA>>), L(<<EAcute>>), Literal(<<LowerB>>, TRUE),
   Node("alternate", <<A, L(<<LowerB, LowerB>>)>>), Node("star", <<B>>)}

ReplacementLiterals == {L(<<Replacement>>)}
=============================================================================
