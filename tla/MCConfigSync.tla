---------------------------- MODULE MCConfigSync ----------------------------
(***************************************************************************)
(* Three versions of a configuration for TLC: the job changes its target,  *)
(* and the old target goes away, one version at a time.                    *)
(***************************************************************************)
EXTENDS ConfigSync, TLC

MCTargetOf  == 1 :> "t1" @@ 2 :> "t2" @@ 3 :> "t2"
MCTargetsIn == 1 :> {"t1"} @@ 2 :> {"t1", "t2"} @@ 3 :> {"t2"}
=============================================================================
