----------------------------- MODULE MCPipeline -----------------------------
(***************************************************************************)
(* A small instance of Pipeline: one container, whose streams share a      *)
(* trace aggregator that holds one group at a time.                        *)
(***************************************************************************)
EXTENDS Pipeline
=============================================================================
