------------------------------- MODULE Driver -------------------------------
(***************************************************************************)
(* What pipeline.Driver promises the runner of one Validate and Dump: the  *)
(* archive reaches the writer chunk by chunk, success is returned only     *)
(* after its last chunk, and nothing is written once the call is over.     *)
(***************************************************************************)
EXTENDS Naturals

CONSTANT Chunks   \* chunks of a whole archive

VARIABLES
  dumped,    \* chunks written to the pipeline
  returned   \* "none" yet, "ok" or "error"

vars == <<dumped, returned>>

Init == dumped = 0 /\ returned = "none"

Write ==
  /\ returned = "none" /\ dumped < Chunks
  /\ dumped' = dumped + 1
  /\ UNCHANGED returned

Succeed ==
  /\ returned = "none" /\ dumped = Chunks
  /\ returned' = "ok"
  /\ UNCHANGED dumped

Fail ==
  /\ returned = "none"
  /\ returned' = "error"
  /\ UNCHANGED dumped

Next == Write \/ Succeed \/ Fail

Spec == Init /\ [][Next]_vars
=============================================================================
