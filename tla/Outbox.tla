-------------------------------- MODULE Outbox --------------------------------
(***************************************************************************)
(* What Client.Send, the queue and the connections together promise the    *)
(* sender of an envelope, seen from outside: a message is new, then on     *)
(* disk or with the connection, and ends received, lost or refused.        *)
(*                                                                         *)
(* A message leaves the disk only for a connection, and leaves a           *)
(* connection unreceived only when that connection has ended.  A crash     *)
(* takes what is in memory and leaves what is on disk.  The one exception  *)
(* is stated too: from the first restart on numbers are given again, and a *)
(* record may be overwritten by another's.                                 *)
(***************************************************************************)
EXTENDS Naturals

CONSTANT Msgs

VARIABLES
  fate,    \* per message: where it is
  up,      \* the connection is up
  starts   \* restarts so far

vars  == <<fate, up, starts>>
Fates == {"new", "disk", "conn", "received", "lost", "refused"}

\* Message m gets to place to; others stay, but for records overwritten where
\* that can happen.
MoveTo(m, to) ==
  /\ fate' \in [Msgs -> Fates]
  /\ fate'[m] = to
  /\ \A o \in Msgs \ {m} :
       fate'[o] = fate[o] \/ (starts > 0 /\ fate[o] = "disk" /\ fate'[o] = "lost")
  /\ UNCHANGED <<up, starts>>

\* Messages at one of the places in P may be lost, others stay.
Losing(P) ==
  /\ fate' \in [Msgs -> Fates]
  /\ \A m \in Msgs : fate'[m] = fate[m] \/ (fate[m] \in P /\ fate'[m] = "lost")

Overwritable == IF starts > 0 THEN {"disk"} ELSE {}

Init == fate = [m \in Msgs |-> "new"] /\ ~up /\ starts = 0

\* Send returns nil; the channel it took may be one of the past.
Accept(m) ==
  /\ fate[m] = "new"
  /\ MoveTo(m, "disk") \/ MoveTo(m, "lost") \/ (up /\ MoveTo(m, "conn"))

\* Send returns an error.
Refuse(m) == fate[m] = "new" /\ MoveTo(m, "refused")

\* Replay.
Hand(m) == fate[m] = "disk" /\ MoveTo(m, IF up THEN "conn" ELSE "lost")

Receive(m) == fate[m] = "conn" /\ MoveTo(m, "received")

Connect == ~up /\ up' = TRUE /\ UNCHANGED <<fate, starts>>

\* The connection ends or has ended, and what it had is lost bit by bit.
Break ==
  /\ up' = FALSE /\ starts' = starts
  /\ Losing({"conn"} \cup Overwritable)

\* The process ends, with every Send under way, and is started again.
Crash ==
  /\ up' = FALSE /\ starts' = starts + 1
  /\ Losing({"new", "conn"} \cup Overwritable)
  /\ \A m \in Msgs : fate'[m] # "conn"

Next ==
  \/ \E m \in Msgs : Accept(m) \/ Refuse(m) \/ Hand(m) \/ Receive(m)
  \/ Connect \/ Break \/ Crash

Spec == Init /\ [][Next]_vars
=============================================================================
