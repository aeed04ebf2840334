---------------------------- MODULE MCMultiline ----------------------------
(***************************************************************************)
(* Small instances of Multiline for TLC.  The matcher has the shapes the   *)
(* tests of the package use: a head or big line opens a group (1), a body  *)
(* line completes it (2), a gap line follows without completing it (3),    *)
(* an end line closes it for good (4, final), a dud line closes it without *)
(* completing it (5, final, not terminal), a solo line is a group that no  *)
(* line can extend, and a text line belongs to no group.                   *)
(***************************************************************************)
EXTENDS SerialInv

MCStates == 0 .. 5
MCNoState == -1

Nowhere == [next |-> {}, accepted |-> MCNoState]
Land(s, accepts) == [next |-> {s}, accepted |-> IF accepts THEN s ELSE MCNoState]

MCStep(line, active) ==
  CASE line \in {"head", "big"} /\ 0 \in active          -> Land(1, FALSE)
    [] line = "body" /\ active \intersect {1, 2, 3} # {} -> Land(2, TRUE)
    [] line = "gap"  /\ active \intersect {1, 2, 3} # {} -> Land(3, FALSE)
    [] line = "end"  /\ active \intersect {1, 2, 3} # {} -> Land(4, TRUE)
    [] line = "dud"  /\ active \intersect {1, 2, 3} # {} -> Land(5, FALSE)
    [] line = "solo" /\ 0 \in active                    -> Land(4, TRUE)
    [] OTHER                                            -> Nowhere

MCFormat(s) == "fmt"
MCFinal(s) == s \in {4, 5}

\* A head is two one-byte runes, a body one byte and a rune of two bytes, a gap is
\* empty, and a big line is bytes that are no text at all after the first.
MCSize(l) ==
  CASE l = "gap" -> 0 [] l = "head" -> 2 [] l = "body" -> 3 [] l = "big" -> 8 [] OTHER -> 1
MCRunes(l) ==
  CASE l = "gap" -> {} [] l = "body" -> {0, 1} [] l = "big" -> {0} [] OTHER -> 0 .. MCSize(l) - 1

OneByte(l) == 1
OneRune(l) == {0}

KeySymmetry == Permutations(Keys)
=============================================================================
