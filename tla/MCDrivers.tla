------------------------------ MODULE MCDrivers ------------------------------
(***************************************************************************)
(* Instances of Drivers for TLC; the cfg files give the constants.         *)
(***************************************************************************)
EXTENDS Drivers
=============================================================================
