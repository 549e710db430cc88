------------------------------- MODULE MCStore -------------------------------
(***************************************************************************)
(* Instances of Store for TLC; the cfg files give the constants.           *)
(***************************************************************************)
EXTENDS Store, TLC

\* The agent keys are interchangeable.
KeySymmetry == Permutations(AgentKeys)
=============================================================================
