------------------------------ MODULE MCDecrypt ------------------------------
(***************************************************************************)
(* Instances of Decrypt for TLC; the cfg files give the constants.         *)
(***************************************************************************)
EXTENDS Decrypt
=============================================================================
