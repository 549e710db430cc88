---------------------------- MODULE MCWssClient ----------------------------
(***************************************************************************)
(* Instances of WssClient for TLC; the cfg files give the constants.       *)
(***************************************************************************)
EXTENDS WssClient
=============================================================================
