----------------------------- MODULE ConfigSync -----------------------------
(***************************************************************************)
(* How the agent's configuration travels: from RegisterAck (runOnce) and   *)
(* ConfigUpdate (dispatch) into the version the client advertises, the     *)
(* encrypted record on disk (state.SaveConfig) and the in-memory snapshot  *)
(* (configSnapshot) against which a RunBackup is resolved, through         *)
(* reconnects, restarts, failing writes and a changed agent key.           *)
(*                                                                         *)
(* A configuration is its version; what the versions contain, as far as    *)
(* resolving a job goes, is a constant.  Version 0 is the empty one.       *)
(***************************************************************************)
EXTENDS Naturals, Sequences

CONSTANTS
  Runs,         \* runs of the one job the configurations are about
  JobIn,        \* versions that contain the job
  TargetOf,     \* version -> the target its job names
  TargetsIn,    \* version -> the targets it contains
  AgentKeys,    \* agent keys the process may be started with
  MaxVersion,   \* bound: versions the server issues
  MaxConns,     \* bound: connections
  MaxRestarts,  \* bound: process restarts
  InboxCap,     \* bound: frames under way to the agent
  ServerOmits   \* the server leaves out a config the agent says it has

Versions == 1 .. MaxVersion

ASSUME ConfigAssumption ==
  /\ {MaxVersion, MaxConns, InboxCap} \subseteq Nat \ {0}
  /\ MaxRestarts \in Nat
  /\ ServerOmits \in BOOLEAN
  /\ JobIn \subseteq Versions
  /\ AgentKeys # {} /\ "none" \notin AgentKeys

VARIABLES
  srv,       \* the server's current version
  sent,      \* the version it last told the agent on this connection
  inbox,     \* frames under way: [cfg, run], one of them 0 or "none"
  pc,        \* where the goroutine that handles configurations stands
  ack,       \* version in hand: of the RegisterAck or ConfigUpdate; 0: none
  ver,       \* Client.configVersion
  snap,      \* version in the configSnapshot
  disk,      \* config bucket: version and the key it is sealed with
  key,       \* the agent key of this process
  unsaved,   \* history: a SaveConfig has failed in this process
  run,       \* per run: state, versions in force when it was sent, and used
  conns,     \* connections so far
  restarts   \* restarts so far

agentVars == <<pc, ack, ver, snap, disk, key, unsaved>>
vars      == <<srv, sent, inbox, agentVars, run, conns, restarts>>

NoConfig == [ver |-> 0, key |-> "none"]
Idle     == [st |-> "idle", need |-> 0, job |-> 0, target |-> 0]

\* LoadConfig: the record's version; any error, a cipher error too, makes
\* NewClient start from 0.
LoadedVersion(k) == IF disk.key = k THEN disk.ver ELSE 0

-----------------------------------------------------------------------------
(***************************************************************************)
(* The server, as the agent meets it: versions only grow, and frames of a  *)
(* connection arrive in the order they are sent.                           *)
(***************************************************************************)
ServerEdit ==
  /\ srv < MaxVersion
  /\ srv' = srv + 1
  /\ UNCHANGED <<sent, inbox, agentVars, run, conns, restarts>>

Connected == pc \notin {"down", "hello"}

ServerPush ==
  /\ Connected
  /\ sent < srv
  /\ Len(inbox) < InboxCap
  /\ inbox' = Append(inbox, [cfg |-> srv, run |-> "none"])
  /\ sent' = srv
  /\ UNCHANGED <<srv, agentVars, run, conns, restarts>>

ServerRun(r) ==
  /\ Connected
  /\ run[r].st = "idle"
  /\ Len(inbox) < InboxCap
  /\ inbox' = Append(inbox, [cfg |-> 0, run |-> r])
  /\ run' = [run EXCEPT ![r] = [@ EXCEPT !.st = "sent", !.need = sent]]
  /\ UNCHANGED <<srv, sent, agentVars, conns, restarts>>

-----------------------------------------------------------------------------
(***************************************************************************)
(* handshake and the part of runOnce before the loops.                     *)
(***************************************************************************)
\* Register goes out with LastKnownConfigVersion.
Register ==
  /\ pc = "down"
  /\ conns < MaxConns
  /\ conns' = conns + 1
  /\ pc' = "hello"
  /\ UNCHANGED <<srv, sent, inbox, ack, ver, snap, disk, key, unsaved, run,
                 restarts>>

\* Mutant: a configuration whose version is already known is not applied.
RegisterAckSkipsKnown ==
  /\ pc = "hello"
  /\ ack' = IF srv > ver THEN srv ELSE 0
  /\ sent' = srv
  /\ ver' = srv
  /\ pc' = IF ack' = 0 THEN "pump" ELSE "ackSave"
  /\ UNCHANGED <<srv, inbox, snap, disk, key, unsaved, run, conns, restarts>>

\* RegisterAck comes with a configuration, or without one.  The advertised
\* version only ever goes up.
RegisterAck ==
  /\ pc = "hello"
  /\ \/ ack' = srv
     \/ ServerOmits /\ ver = srv /\ ack' = 0
  /\ sent' = srv
  /\ ver' = IF ack' > ver THEN ack' ELSE ver
  /\ pc' = IF ack' = 0 THEN "pump" ELSE "ackSave"
  /\ UNCHANGED <<srv, inbox, snap, disk, key, unsaved, run, conns, restarts>>

\* Mutant: the store counts versions itself.
SaveConfigCounts ==
  \/ disk' = [ver |-> disk.ver + 1, key |-> key] /\ UNCHANGED unsaved
  \/ unsaved' = TRUE /\ UNCHANGED disk

\* SaveConfig, one bolt transaction; its error is ignored.
SaveConfig ==
  \/ disk' = [ver |-> ack, key |-> key] /\ UNCHANGED unsaved
  \/ unsaved' = TRUE /\ UNCHANGED disk

AckSave ==
  /\ pc = "ackSave"
  /\ SaveConfig
  /\ pc' = "ackSet"
  /\ UNCHANGED <<srv, sent, inbox, ack, ver, snap, key, run, conns, restarts>>

\* OnConfigUpdate: the snapshot is replaced under its lock.
SetSnapshot ==
  /\ pc \in {"ackSet", "updSet"}
  /\ snap' = ack
  /\ ack' = 0
  /\ pc' = "pump"
  /\ UNCHANGED <<srv, sent, inbox, ver, disk, key, unsaved, run, conns,
                 restarts>>

-----------------------------------------------------------------------------
(***************************************************************************)
(* readLoop and dispatch.                                                  *)
(***************************************************************************)
\* Mutant: configurations are applied in a goroutine of their own, beside the
\* runs read after them.
ReadFrameConcurrently ==
  /\ inbox # <<>>
  /\ pc = "pump" \/ (Connected /\ Head(inbox).cfg = 0)
  /\ inbox' = Tail(inbox)
  /\ LET f == Head(inbox) IN
       IF f.cfg # 0
       THEN /\ pc' = "updSave" /\ ack' = f.cfg
            /\ UNCHANGED run
       ELSE /\ run' = [run EXCEPT ![f.run].st = "started"]
            /\ UNCHANGED <<pc, ack>>
  /\ UNCHANGED <<srv, sent, ver, snap, disk, key, unsaved, conns, restarts>>

\* The next frame: a ConfigUpdate is handled before another frame is read, a
\* RunBackup starts a goroutine.
ReadFrame ==
  /\ pc = "pump"
  /\ inbox # <<>>
  /\ inbox' = Tail(inbox)
  /\ LET f == Head(inbox) IN
       IF f.cfg # 0
       THEN /\ pc' = "updSave" /\ ack' = f.cfg
            /\ UNCHANGED run
       ELSE /\ run' = [run EXCEPT ![f.run].st = "started"]
            /\ UNCHANGED <<pc, ack>>
  /\ UNCHANGED <<srv, sent, ver, snap, disk, key, unsaved, conns, restarts>>

UpdateSave ==
  /\ pc = "updSave"
  /\ SaveConfig
  /\ pc' = "updVer"
  /\ UNCHANGED <<srv, sent, inbox, ack, ver, snap, key, run, conns, restarts>>

UpdateVersion ==
  /\ pc = "updVer"
  /\ ver' = ack
  /\ pc' = "updSet"
  /\ UNCHANGED <<srv, sent, inbox, ack, snap, disk, key, unsaved, run, conns,
                 restarts>>

-----------------------------------------------------------------------------
(***************************************************************************)
(* resolve, in a run's goroutine: two look-ups, each under the snapshot's  *)
(* lock, with room for an update between them.                             *)
(***************************************************************************)
LookupJob(r) ==
  /\ run[r].st = "started"
  /\ run' = [run EXCEPT ![r] =
               IF snap \in JobIn THEN [@ EXCEPT !.st = "job", !.job = snap]
                                 ELSE [@ EXCEPT !.st = "unknown"]]
  /\ UNCHANGED <<srv, sent, inbox, agentVars, conns, restarts>>

LookupTarget(r) ==
  /\ run[r].st = "job"
  /\ run' = [run EXCEPT ![r] =
               IF snap # 0 /\ TargetOf[@.job] \in TargetsIn[snap]
               THEN [@ EXCEPT !.st = "resolved", !.target = snap]
               ELSE [@ EXCEPT !.st = "unknown"]]
  /\ UNCHANGED <<srv, sent, inbox, agentVars, conns, restarts>>

-----------------------------------------------------------------------------
\* Mutant: frames of the old connection are still handled after a reconnect.
DisconnectKeepsInbox ==
  /\ pc \in {"hello", "pump"}
  /\ conns < MaxConns
  /\ pc' = "down"
  /\ UNCHANGED <<srv, sent, inbox, ack, ver, snap, disk, key, unsaved, run,
                 conns, restarts>>

\* The connection breaks: runOnce finishes the frame it handles, drains its
\* loops and starts over; frames under way are lost, and the server sends
\* their runs again or not.
Disconnect ==
  /\ pc \in {"hello", "pump"}
  /\ conns < MaxConns
  /\ pc' = "down"
  /\ inbox' = <<>>
  /\ run' = [r \in Runs |-> IF run[r].st = "sent" THEN Idle ELSE run[r]]
  /\ UNCHANGED <<srv, sent, ack, ver, snap, disk, key, unsaved, conns, restarts>>

\* A crash or stop at any point, then NewClient, perhaps with another key: the
\* version comes from disk, the snapshot is empty.
Restart(k) ==
  /\ restarts < MaxRestarts
  /\ restarts' = restarts + 1
  /\ conns < MaxConns
  /\ key' = k
  /\ ver' = LoadedVersion(k)
  /\ snap' = 0 /\ ack' = 0 /\ pc' = "down" /\ unsaved' = FALSE
  /\ inbox' = <<>>
  /\ run' = [r \in Runs |-> IF run[r].st \in {"idle", "sent"} THEN Idle
                            ELSE [run[r] EXCEPT !.st = "gone"]]
  /\ UNCHANGED <<srv, sent, disk, conns>>

Init ==
  /\ srv = 1 /\ sent = 0 /\ inbox = <<>>
  /\ pc = "down" /\ ack = 0 /\ ver = 0 /\ snap = 0
  /\ disk = NoConfig /\ key \in AgentKeys /\ unsaved = FALSE
  /\ run = [r \in Runs |-> Idle]
  /\ conns = 0 /\ restarts = 0

AgentNext ==
  Register \/ RegisterAck \/ AckSave \/ SetSnapshot \/ ReadFrame \/ UpdateSave
    \/ UpdateVersion

Next ==
  \/ AgentNext
  \/ ServerEdit \/ ServerPush \/ Disconnect
  \/ \E r \in Runs : ServerRun(r) \/ LookupJob(r) \/ LookupTarget(r)
  \/ \E k \in AgentKeys : Restart(k)

(***************************************************************************)
(* The agent's goroutines go on, it is connected again after a break, and  *)
(* the server answers Register and pushes what is new.                     *)
(***************************************************************************)
Fairness ==
  /\ WF_vars(AgentNext) /\ WF_vars(ServerPush)
  /\ \A r \in Runs : WF_vars(LookupJob(r) \/ LookupTarget(r))

Spec     == Init /\ [][Next]_vars
FairSpec == Spec /\ Fairness

-----------------------------------------------------------------------------
(***************************************************************************)
(* Properties.                                                             *)
(***************************************************************************)
\* The type invariant of the model's variables.
TypeOK ==
  /\ srv \in Versions /\ sent \in 0 .. MaxVersion
  /\ inbox \in Seq([cfg : 0 .. MaxVersion, run : Runs \cup {"none"}])
  /\ pc \in {"down", "hello", "ackSave", "ackSet", "pump", "updSave", "updVer",
             "updSet"}
  /\ {ack, ver, snap} \subseteq 0 .. MaxVersion
  /\ disk \in [ver : 0 .. MaxVersion, key : AgentKeys \cup {"none"}]
  /\ key \in AgentKeys /\ unsaved \in BOOLEAN
  /\ run \in [Runs -> [st : {"idle", "sent", "started", "job", "resolved",
                             "unknown", "gone"},
                       need : 0 .. MaxVersion, job : 0 .. MaxVersion,
                       target : 0 .. MaxVersion]]
  /\ conns \in 0 .. MaxConns /\ restarts \in 0 .. MaxRestarts

\* client.go: "ConfigVersion returns the currently-applied config version":
\* between two frames of a connection the advertised version is the one that
\* runs are resolved against, and the one on disk unless a save has failed.
AdvertisedIsApplied ==
  pc = "pump" => snap = ver /\ (~unsaved => disk = [ver |-> ver, key |-> key])

\* Frames are handled in order: a run sent after a configuration is resolved
\* against that one or a newer one, its target against one no older than its
\* job's, and that one contains the target.
RunSeesPriorConfig ==
  \A r \in Runs :
    /\ run[r].st \in {"job", "resolved"} => run[r].need <= run[r].job
    /\ run[r].st = "resolved" =>
         /\ run[r].job <= run[r].target
         /\ TargetOf[run[r].job] \in TargetsIn[run[r].target]

\* Within one process neither the advertised version nor the snapshot goes
\* back, whatever the reconnects.
NoRegress == [][restarts' = restarts => ver' >= ver /\ snap' >= snap]_vars

\* When the server stops editing, the agent ends up with its last version
\* advertised and applied, through failing saves, reconnects and restarts of an
\* agent that keeps its key.  With another key the promise is another one, "a
\* wrong key must never be silently treated as "no config yet"" (state.go,
\* ErrNotFound), which NewClient does not keep: it starts from version 0 and the
\* next RegisterAck overwrites the record.
Converges ==
  [](disk.key \in {"none", key}) => <>[](ver = srv /\ snap = srv)

=============================================================================
