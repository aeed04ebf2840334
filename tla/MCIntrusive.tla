---------------------------- MODULE MCIntrusive ----------------------------
(***************************************************************************)
(* The instances of MCMultiline, with the pointers of Intrusive.           *)
(***************************************************************************)
EXTENDS MCMultiline, Intrusive
=============================================================================
