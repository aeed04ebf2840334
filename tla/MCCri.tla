------------------------------- MODULE MCCri -------------------------------
(***************************************************************************)
(* A small instance of Cri: one container with its two streams, fragments  *)
(* with and without content, and caps that cut a run inside the content of *)
(* a fragment, inside the prefix of one, and in the middle of its life.    *)
(***************************************************************************)
EXTENDS CriInv
=============================================================================
