----------------------------- MODULE MCPipeline -----------------------------
(***************************************************************************)
(* Instances of Pipeline for TLC; the cfg files give the constants.        *)
(***************************************************************************)
EXTENDS Pipeline
=============================================================================
