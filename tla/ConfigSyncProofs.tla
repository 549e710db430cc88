-------------------------- MODULE ConfigSyncProofs --------------------------
(***************************************************************************)
(* Theorems about ConfigSync, for any configurations, runs, keys and       *)
(* bounds.                                                                 *)
(*                                                                         *)
(* The three copies of a version are ordered: the snapshot is never ahead  *)
(* of the advertised version, which is never ahead of what the server has  *)
(* sent; frames under way are no older than any of them.  From that follow *)
(* the properties about versions; those about runs need where a run stands *)
(* among the frames.                                                       *)
(***************************************************************************)
EXTENDS ConfigSync, TLAPS

Frames == [cfg : 0 .. MaxVersion, run : Runs \cup {"none"}]
RunRecord == [st : {"idle", "sent", "started", "job", "resolved", "unknown",
                    "gone"},
              need : 0 .. MaxVersion, job : 0 .. MaxVersion,
              target : 0 .. MaxVersion]
DiskRecord == [ver : 0 .. MaxVersion, key : AgentKeys \cup {"none"}]

-----------------------------------------------------------------------------
(***************************************************************************)
(* Sequences.                                                              *)
(***************************************************************************)
LEMMA TailFacts ==
  ASSUME NEW S, NEW s \in Seq(S), s # <<>>
  PROVE  /\ Tail(s) \in Seq(S) /\ Head(s) \in S /\ Head(s) = s[1]
         /\ Len(s) \in Nat \ {0} /\ Len(Tail(s)) = Len(s) - 1
         /\ DOMAIN s = 1 .. Len(s) /\ DOMAIN Tail(s) = 1 .. Len(s) - 1
         /\ \A i \in 1 .. Len(s) - 1 : Tail(s)[i] = s[i + 1]
OBVIOUS

LEMMA AppendFacts ==
  ASSUME NEW S, NEW s \in Seq(S), NEW e \in S
  PROVE  /\ Append(s, e) \in Seq(S) /\ Len(s) \in Nat
         /\ DOMAIN s = 1 .. Len(s) /\ DOMAIN Append(s, e) = 1 .. Len(s) + 1
         /\ \A i \in 1 .. Len(s) : Append(s, e)[i] = s[i]
         /\ Append(s, e)[Len(s) + 1] = e
OBVIOUS

-----------------------------------------------------------------------------
(***************************************************************************)
(* Types.                                                                  *)
(***************************************************************************)
\* TypeOK part by part.
Parts ==
  /\ srv \in Versions /\ sent \in 0 .. MaxVersion
  /\ inbox \in Seq(Frames)
  /\ pc \in {"down", "hello", "ackSave", "ackSet", "pump", "updSave", "updVer",
             "updSet"}
  /\ ack \in 0 .. MaxVersion /\ ver \in 0 .. MaxVersion /\ snap \in 0 .. MaxVersion
  /\ disk \in DiskRecord /\ key \in AgentKeys
  /\ unsaved \in BOOLEAN
  /\ run \in [Runs -> RunRecord]
  /\ conns \in 0 .. MaxConns /\ restarts \in 0 .. MaxRestarts

LEMMA TypeParts == (TypeOK <=> Parts) /\ (TypeOK' <=> Parts')
BY DEF TypeOK, Parts, Frames, DiskRecord, RunRecord

LEMMA RunFields ==
  ASSUME NEW x \in RunRecord, NEW v \in 0 .. MaxVersion,
         NEW st \in {"idle", "sent", "started", "job", "resolved", "unknown", "gone"}
  PROVE  /\ [x EXCEPT !.st = st] \in RunRecord
         /\ [x EXCEPT !.st = st, !.need = v] \in RunRecord
         /\ [x EXCEPT !.st = st, !.job = v] \in RunRecord
         /\ [x EXCEPT !.st = st, !.target = v] \in RunRecord
BY DEF RunRecord

LEMMA RunPut ==
  ASSUME NEW f \in [Runs -> RunRecord], NEW r \in Runs, NEW x \in RunRecord
  PROVE  [f EXCEPT ![r] = x] \in [Runs -> RunRecord]
OBVIOUS

LEMMA IdleRun == Idle \in RunRecord
BY ConfigAssumption DEF Idle, RunRecord

\* SaveConfig writes the version in hand with the process's key, or nothing.
LEMMA SaveTypes ==
  ASSUME TypeOK, SaveConfig
  PROVE  disk' \in DiskRecord /\ unsaved' \in BOOLEAN
<1>1. disk' = [ver |-> ack, key |-> key] \/ disk' = disk
  BY DEF SaveConfig
<1>2. unsaved' = TRUE \/ unsaved' = unsaved
  BY DEF SaveConfig
<1>3. disk' \in DiskRecord
  BY <1>1, TypeParts DEF Parts, DiskRecord
<1>4. unsaved' \in BOOLEAN
  BY <1>2, TypeParts, Zenon DEF Parts
<1> QED
  BY <1>3, <1>4

LEMMA ServerTypes ==
  ASSUME TypeOK,
         ServerEdit \/ ServerPush \/ \E r \in Runs : ServerRun(r)
  PROVE  TypeOK'
<1> USE ConfigAssumption, TypeParts DEF Versions, Parts
<1>1. CASE ServerEdit
  BY <1>1 DEF ServerEdit, agentVars
<1>2. CASE ServerPush
  <2>1. [cfg |-> srv, run |-> "none"] \in Frames
    BY DEF Frames
  <2>2. inbox' \in Seq(Frames)
    BY <1>2, <2>1, AppendFacts DEF ServerPush
  <2> QED
    BY <1>2, <2>2 DEF ServerPush, agentVars
<1>3. ASSUME NEW r \in Runs, ServerRun(r) PROVE TypeOK'
  <2>1. run' \in [Runs -> RunRecord]
    BY <1>3, RunFields, RunPut DEF ServerRun
  <2>2. [cfg |-> 0, run |-> r] \in Frames
    BY DEF Frames
  <2>3. inbox' \in Seq(Frames)
    BY <1>3, <2>2, AppendFacts DEF ServerRun
  <2> QED
    BY <1>3, <2>1, <2>3 DEF ServerRun, agentVars
<1> QED
  BY <1>1, <1>2, <1>3

LEMMA AgentTypes ==
  ASSUME TypeOK, AgentNext
  PROVE  TypeOK'
<1> USE ConfigAssumption, TypeParts DEF Versions, Parts
<1>1. CASE Register
  BY <1>1 DEF Register
<1>2. CASE RegisterAck
  BY <1>2 DEF RegisterAck
<1>3. CASE AckSave
  <2>1. disk' \in DiskRecord /\ unsaved' \in BOOLEAN
    BY <1>3, SaveTypes DEF AckSave
  <2> QED
    BY <1>3, <2>1, TypeParts DEF AckSave
<1>4. CASE SetSnapshot
  BY <1>4 DEF SetSnapshot
<1>5. CASE ReadFrame
  <2>1. Head(inbox) \in Frames /\ inbox' \in Seq(Frames)
    BY <1>5, TailFacts DEF ReadFrame, Frames
  <2>2. CASE Head(inbox).cfg # 0
    BY <1>5, <2>1, <2>2 DEF ReadFrame, Frames
  <2>3. CASE Head(inbox).cfg = 0
    <3> DEFINE q == Head(inbox).run
    <3>1. run' = [run EXCEPT ![q] = [run[q] EXCEPT !.st = "started"]]
      BY <1>5, <2>3 DEF ReadFrame
    <3>2. CASE q \in Runs
      <4>1. run' \in [Runs -> RunRecord]
        BY <3>1, <3>2, RunFields, RunPut
      <4> QED
        BY <1>5, <2>1, <2>3, <4>1 DEF ReadFrame
    <3>3. CASE q \notin Runs
      <4>1. run' = run
        BY <3>1, <3>3
      <4> QED
        BY <1>5, <2>1, <2>3, <4>1 DEF ReadFrame
    <3> QED
      BY <3>2, <3>3
  <2> QED
    BY <2>2, <2>3
<1>6. CASE UpdateSave
  <2>1. disk' \in DiskRecord /\ unsaved' \in BOOLEAN
    BY <1>6, SaveTypes DEF UpdateSave
  <2> QED
    BY <1>6, <2>1, TypeParts DEF UpdateSave
<1>7. CASE UpdateVersion
  BY <1>7 DEF UpdateVersion
<1> QED
  BY <1>1, <1>2, <1>3, <1>4, <1>5, <1>6, <1>7 DEF AgentNext

LEMMA OtherTypes ==
  ASSUME TypeOK,
         \/ Disconnect \/ \E k \in AgentKeys : Restart(k)
         \/ \E r \in Runs : LookupJob(r) \/ LookupTarget(r)
  PROVE  TypeOK'
<1> USE ConfigAssumption, TypeParts DEF Versions, Parts
<1>1. CASE Disconnect
  <2>1. run' \in [Runs -> RunRecord]
    BY <1>1, IdleRun DEF Disconnect
  <2> QED
    BY <1>1, <2>1 DEF Disconnect
<1>2. ASSUME NEW k \in AgentKeys, Restart(k) PROVE TypeOK'
  <2>1. run' \in [Runs -> RunRecord]
    BY <1>2, IdleRun, RunFields DEF Restart
  <2>2. LoadedVersion(k) \in 0 .. MaxVersion
    BY TypeParts DEF LoadedVersion, DiskRecord
  <2>3. unsaved' \in BOOLEAN
    BY <1>2, Zenon DEF Restart
  <2> QED
    BY <1>2, <2>1, <2>2, <2>3 DEF Restart
<1>3. ASSUME NEW r \in Runs, LookupJob(r) PROVE TypeOK'
  <2>1. run' \in [Runs -> RunRecord]
    BY <1>3, RunFields, RunPut DEF LookupJob
  <2> QED
    BY <1>3, <2>1 DEF LookupJob, agentVars
<1>4. ASSUME NEW r \in Runs, LookupTarget(r) PROVE TypeOK'
  <2>1. run' \in [Runs -> RunRecord]
    BY <1>4, RunFields, RunPut DEF LookupTarget
  <2> QED
    BY <1>4, <2>1 DEF LookupTarget, agentVars
<1> QED
  BY <1>1, <1>2, <1>3, <1>4

LEMMA TypeStep == TypeOK /\ [Next]_vars => TypeOK'
<1> SUFFICES ASSUME TypeOK, [Next]_vars PROVE TypeOK'
  OBVIOUS
<1>1. CASE UNCHANGED vars
  BY <1>1 DEF vars, agentVars, TypeOK
<1> QED
  BY <1>1, ServerTypes, AgentTypes, OtherTypes DEF Next

LEMMA TypeInit == Init => TypeOK
<1> SUFFICES ASSUME Init PROVE TypeOK
  OBVIOUS
<1>1. unsaved \in BOOLEAN
  BY Zenon DEF Init
<1>2. inbox \in Seq(Frames)
  BY DEF Init
<1>3. run \in [Runs -> RunRecord]
  BY ConfigAssumption DEF Init, Idle, RunRecord
<1>4. disk \in [ver : 0 .. MaxVersion, key : AgentKeys \cup {"none"}] /\ key \in AgentKeys
  BY ConfigAssumption DEF Init, NoConfig
<1> QED
  BY <1>1, <1>2, <1>3, <1>4, ConfigAssumption DEF Init, TypeOK, Versions, Frames, RunRecord

\* Every variable keeps its type: in particular no version is made up, neither
\* by the client nor by the store.
THEOREM TypeCorrect == Spec => []TypeOK
BY TypeInit, TypeStep, PTL DEF Spec

-----------------------------------------------------------------------------
(***************************************************************************)
(* Versions.                                                               *)
(***************************************************************************)
VersionInv ==
  /\ snap <= ver /\ ver <= srv /\ ack <= srv /\ disk.ver <= srv /\ sent <= srv
  /\ Connected => ver <= sent /\ ack <= sent
  /\ pc \in {"down", "hello", "pump"} <=> ack = 0
  /\ pc \in {"ackSave", "ackSet", "updSet"} => ack = ver
  /\ pc \in {"updSave", "updVer"} => ver <= ack

\* Frames are of this connection, in order, and not older than what the agent
\* has.
FrameInv ==
  /\ ~Connected => inbox = <<>>
  /\ \A i \in DOMAIN inbox :
       inbox[i].cfg # 0 =>
         ver <= inbox[i].cfg /\ ack <= inbox[i].cfg /\ inbox[i].cfg <= sent
  /\ \A i, j \in DOMAIN inbox :
       i < j /\ inbox[j].cfg # 0 => inbox[i].cfg <= inbox[j].cfg

Order == TypeOK /\ VersionInv /\ FrameInv

\* The numbers among the variables.
LEMMA Numbers ==
  ASSUME TypeOK
  PROVE  /\ srv \in Nat \ {0} /\ sent \in Nat /\ ack \in Nat /\ ver \in Nat
         /\ snap \in Nat /\ disk.ver \in Nat /\ inbox \in Seq(Frames)
         /\ DOMAIN inbox = 1 .. Len(inbox) /\ Len(inbox) \in Nat
         /\ \A i \in DOMAIN inbox : inbox[i].cfg \in Nat
<1>1. /\ srv \in Nat \ {0} /\ sent \in Nat /\ ack \in Nat /\ ver \in Nat
      /\ snap \in Nat /\ inbox \in Seq(Frames)
  BY ConfigAssumption, TypeParts DEF Parts, Versions
<1>2. disk.ver \in Nat
  BY ConfigAssumption, TypeParts DEF Parts, DiskRecord
<1>3. DOMAIN inbox = 1 .. Len(inbox) /\ Len(inbox) \in Nat
  BY <1>1
<1>4. \A i \in DOMAIN inbox : inbox[i] \in Frames
  BY <1>1
<1>5. \A f \in Frames : f.cfg \in Nat
  BY ConfigAssumption DEF Frames
<1> QED
  BY <1>1, <1>2, <1>3, <1>4, <1>5

\* The first frame is a frame of FrameInv.
LEMMA HeadFacts ==
  ASSUME Order, inbox # <<>>
  PROVE  /\ Head(inbox) = inbox[1] /\ 1 \in DOMAIN inbox /\ Head(inbox).cfg \in Nat
         /\ Head(inbox).cfg # 0 =>
              ver <= Head(inbox).cfg /\ ack <= Head(inbox).cfg /\ Head(inbox).cfg <= sent
<1>1. inbox \in Seq(Frames)
  BY Numbers DEF Order
<1>2. Head(inbox) = inbox[1] /\ 1 \in DOMAIN inbox
  BY <1>1, TailFacts
<1> QED
  BY <1>2, Numbers DEF Order, FrameInv

LEMMA VersionStep ==
  ASSUME Order, Next
  PROVE  VersionInv'
<1> USE Numbers DEF Order, VersionInv, Connected
<1>1. CASE ServerEdit
  BY <1>1 DEF ServerEdit, agentVars
<1>2. CASE ServerPush
  BY <1>2 DEF ServerPush, agentVars
<1>3. ASSUME NEW r \in Runs, ServerRun(r) \/ LookupJob(r) \/ LookupTarget(r)
      PROVE  VersionInv'
  BY <1>3 DEF ServerRun, LookupJob, LookupTarget, agentVars
<1>4. CASE Register
  BY <1>4 DEF Register
<1>5. CASE RegisterAck
  BY <1>5 DEF RegisterAck
<1>6. CASE AckSave
  BY <1>6 DEF AckSave, SaveConfig
<1>7. CASE SetSnapshot
  BY <1>7 DEF SetSnapshot
<1>8. CASE ReadFrame
  BY <1>8, HeadFacts DEF ReadFrame
<1>9. CASE UpdateSave
  BY <1>9 DEF UpdateSave, SaveConfig
<1>10. CASE UpdateVersion
  BY <1>10 DEF UpdateVersion
<1>11. CASE Disconnect
  BY <1>11 DEF Disconnect
<1>12. ASSUME NEW k \in AgentKeys, Restart(k) PROVE VersionInv'
  BY <1>12 DEF Restart, LoadedVersion
<1> QED
  BY <1>1, <1>2, <1>3, <1>4, <1>5, <1>6, <1>7, <1>8, <1>9, <1>10, <1>11, <1>12
  DEF Next, AgentNext

\* Frames stay where they are and what the agent has does not pass them.
LEMMA FrameFrame ==
  ASSUME Order, UNCHANGED <<inbox, sent>>, Connected' <=> Connected,
         \A v \in Nat : ver <= v /\ ack <= v => ver' <= v /\ ack' <= v
  PROVE  FrameInv'
BY Numbers DEF Order, FrameInv

LEMMA FrameStep ==
  ASSUME Order, Next
  PROVE  FrameInv'
<1> USE Numbers DEF Order, VersionInv, FrameInv, Connected
<1>1. CASE ServerEdit
  BY <1>1 DEF ServerEdit, agentVars
<1>2. CASE ServerPush
  <2> DEFINE e == [cfg |-> srv, run |-> "none"]
  <2>1. e \in Frames /\ e.cfg = srv
    BY TypeParts, ConfigAssumption DEF Parts, Frames, Versions
  <2>2. inbox' = Append(inbox, e) /\ sent' = srv /\ sent < srv /\ Connected
        /\ UNCHANGED <<pc, ver, ack>>
    BY <1>2 DEF ServerPush, agentVars
  <2> HIDE DEF e
  <2>3. /\ DOMAIN inbox' = 1 .. Len(inbox) + 1
        /\ \A i \in 1 .. Len(inbox) : inbox'[i] = inbox[i]
        /\ inbox'[Len(inbox) + 1] = e
    BY <2>1, <2>2, AppendFacts
  <2>4. \A i \in DOMAIN inbox' : inbox'[i].cfg \in Nat /\ inbox'[i].cfg <= srv
    BY <2>1, <2>2, <2>3
  <2>5. \A i, j \in DOMAIN inbox' :
          i < j /\ inbox'[j].cfg # 0 => inbox'[i].cfg <= inbox'[j].cfg
    <3> SUFFICES ASSUME NEW i \in DOMAIN inbox', NEW j \in DOMAIN inbox',
                        i < j, inbox'[j].cfg # 0
                 PROVE  inbox'[i].cfg <= inbox'[j].cfg
      OBVIOUS
    <3>1. CASE j = Len(inbox) + 1
      BY <2>1, <2>3, <2>4, <3>1
    <3>2. CASE j \in 1 .. Len(inbox)
      BY <2>3, <3>2
    <3> QED
      BY <2>3, <3>1, <3>2
  <2>6. \A i \in DOMAIN inbox' :
          inbox'[i].cfg # 0 => ver <= inbox'[i].cfg /\ ack <= inbox'[i].cfg
    BY <2>1, <2>2, <2>3
  <2> QED
    BY <2>2, <2>4, <2>5, <2>6
<1>3. ASSUME NEW r \in Runs, ServerRun(r) PROVE FrameInv'
  <2> DEFINE e == [cfg |-> 0, run |-> r]
  <2>1. e \in Frames /\ e.cfg = 0
    BY TypeParts, ConfigAssumption DEF Parts, Frames, Versions
  <2>2. inbox' = Append(inbox, e) /\ Connected /\ UNCHANGED <<pc, ver, ack, sent>>
    BY <1>3 DEF ServerRun, agentVars
  <2> HIDE DEF e
  <2>3. /\ DOMAIN inbox' = 1 .. Len(inbox) + 1
        /\ \A i \in 1 .. Len(inbox) : inbox'[i] = inbox[i]
        /\ inbox'[Len(inbox) + 1] = e
    BY <2>1, <2>2, AppendFacts
  <2> QED
    BY <2>1, <2>2, <2>3
<1>4. CASE Register
  BY <1>4 DEF Register
<1>5. CASE RegisterAck
  BY <1>5 DEF RegisterAck
<1>6. CASE AckSave \/ UpdateSave
  BY <1>6, FrameFrame DEF AckSave, UpdateSave
<1>7. CASE SetSnapshot
  BY <1>7, FrameFrame DEF SetSnapshot
<1>8. CASE UpdateVersion
  BY <1>8, FrameFrame DEF UpdateVersion
<1>9. CASE ReadFrame
  <2>1. /\ inbox # <<>> /\ inbox' = Tail(inbox) /\ pc = "pump" /\ ack = 0
        /\ UNCHANGED <<ver, sent>> /\ Connected'
        /\ ack' = IF inbox[1].cfg # 0 THEN inbox[1].cfg ELSE 0
    BY <1>9, HeadFacts DEF ReadFrame
  <2>2. /\ DOMAIN inbox' = 1 .. Len(inbox) - 1 /\ 1 \in DOMAIN inbox
        /\ \A i \in 1 .. Len(inbox) - 1 : inbox'[i] = inbox[i + 1]
    BY <2>1, TailFacts
  <2>3. \A i \in DOMAIN inbox' : i + 1 \in DOMAIN inbox /\ inbox'[i] = inbox[i + 1]
    BY <2>2
  <2>4. \A i \in DOMAIN inbox' :
          inbox'[i].cfg # 0 => ver <= inbox'[i].cfg /\ inbox'[i].cfg <= sent
    BY <2>3
  <2>5. \A i, j \in DOMAIN inbox' :
          i < j /\ inbox'[j].cfg # 0 => inbox'[i].cfg <= inbox'[j].cfg
    <3> SUFFICES ASSUME NEW i \in DOMAIN inbox', NEW j \in DOMAIN inbox',
                        i < j, inbox'[j].cfg # 0
                 PROVE  inbox'[i].cfg <= inbox'[j].cfg
      OBVIOUS
    <3>1. i \in Nat /\ j \in Nat /\ i + 1 < j + 1
      BY <2>2
    <3> QED
      BY <2>3, <3>1
  <2>6. \A i \in DOMAIN inbox' : inbox'[i].cfg # 0 => ack' <= inbox'[i].cfg
    <3> SUFFICES ASSUME NEW i \in DOMAIN inbox', inbox'[i].cfg # 0
                 PROVE  ack' <= inbox'[i].cfg
      OBVIOUS
    <3>1. i \in Nat /\ 1 < i + 1
      BY <2>2
    <3>2. inbox[1].cfg <= inbox[i + 1].cfg
      BY <2>2, <2>3, <3>1
    <3> QED
      BY <2>1, <2>3, <3>2
  <2> QED
    BY <2>1, <2>4, <2>5, <2>6
<1>10. CASE Disconnect
  BY <1>10 DEF Disconnect
<1>11. ASSUME NEW k \in AgentKeys, Restart(k) PROVE FrameInv'
  BY <1>11 DEF Restart
<1>12. ASSUME NEW r \in Runs, LookupJob(r) \/ LookupTarget(r) PROVE FrameInv'
  BY <1>12, FrameFrame DEF LookupJob, LookupTarget, agentVars
<1> QED
  BY <1>1, <1>2, <1>3, <1>4, <1>5, <1>6, <1>7, <1>8, <1>9, <1>10, <1>11, <1>12
  DEF Next, AgentNext

LEMMA OrderStep == Order /\ [Next]_vars => Order'
<1> SUFFICES ASSUME Order, [Next]_vars PROVE Order'
  OBVIOUS
<1>1. TypeOK'
  BY TypeStep DEF Order
<1>2. CASE UNCHANGED vars
  BY <1>1, <1>2 DEF vars, agentVars, Order, VersionInv, FrameInv, Connected
<1> QED
  BY <1>1, <1>2, VersionStep, FrameStep DEF Order

LEMMA OrderInit == Init => Order
BY TypeInit DEF Init, Order, VersionInv, FrameInv, Connected, NoConfig

LEMMA OrderHolds == Spec => []Order
BY OrderInit, OrderStep, PTL DEF Spec

\* Within one process neither the advertised version nor the snapshot goes
\* back, whatever frames and reconnects do.
THEOREM VersionsOnlyGrow == Spec => NoRegress
<1>1. ASSUME Order, [Next]_vars
      PROVE  [restarts' = restarts => ver' >= ver /\ snap' >= snap]_vars
  <2> USE <1>1, Numbers DEF Order, VersionInv
  <2>1. CASE AgentNext
    BY <2>1, HeadFacts DEF AgentNext, Register, RegisterAck, AckSave, SetSnapshot,
       ReadFrame, UpdateSave, UpdateVersion
  <2>2. CASE \E k \in AgentKeys : Restart(k)
    BY <2>2, TypeParts, ConfigAssumption DEF Restart, Parts
  <2>3. CASE ServerEdit \/ ServerPush \/ Disconnect
    BY <2>3 DEF ServerEdit, ServerPush, Disconnect, agentVars
  <2>4. CASE \E r \in Runs : ServerRun(r) \/ LookupJob(r) \/ LookupTarget(r)
    BY <2>4 DEF ServerRun, LookupJob, LookupTarget, agentVars
  <2> QED
    BY <2>1, <2>2, <2>3, <2>4 DEF Next
<1> QED
  BY <1>1, OrderHolds, PTL DEF Spec, NoRegress

-----------------------------------------------------------------------------
(***************************************************************************)
(* Advertised and applied.                                                 *)
(***************************************************************************)
\* The version in hand is on disk once it was saved.
AppliedInv ==
  /\ AdvertisedIsApplied
  /\ pc \in {"ackSet", "updVer", "updSet"} /\ ~unsaved =>
       disk = [ver |-> ack, key |-> key]

LEMMA AppliedStep ==
  ASSUME Order, AppliedInv, ~ServerOmits, [Next]_vars
  PROVE  AppliedInv'
<1> USE Numbers DEF Order, VersionInv, AppliedInv, AdvertisedIsApplied
<1>1. CASE Register
  BY <1>1 DEF Register
<1>2. CASE RegisterAck
  BY <1>2 DEF RegisterAck
<1>3. CASE AckSave
  BY <1>3 DEF AckSave, SaveConfig
<1>4. CASE SetSnapshot
  BY <1>4 DEF SetSnapshot
<1>5. CASE ReadFrame
  BY <1>5 DEF ReadFrame
<1>6. CASE UpdateSave
  BY <1>6 DEF UpdateSave, SaveConfig
<1>7. CASE UpdateVersion
  BY <1>7 DEF UpdateVersion
<1>8. CASE ServerEdit \/ ServerPush \/ Disconnect
  BY <1>8 DEF ServerEdit, ServerPush, Disconnect, agentVars
<1>9. CASE \E k \in AgentKeys : Restart(k)
  BY <1>9 DEF Restart
<1>10. CASE \E r \in Runs : ServerRun(r) \/ LookupJob(r) \/ LookupTarget(r)
  BY <1>10 DEF ServerRun, LookupJob, LookupTarget, agentVars
<1>11. CASE UNCHANGED vars
  BY <1>11 DEF vars, agentVars
<1> QED
  BY <1>1, <1>2, <1>3, <1>4, <1>5, <1>6, <1>7, <1>8, <1>9, <1>10, <1>11
  DEF Next, AgentNext

\* Between two frames the version the agent advertises is the one its runs are
\* resolved against and, unless a save has failed, the one on disk, provided
\* that the server sends a configuration with every RegisterAck.
THEOREM AdvertisedApplied == ~ServerOmits => (Spec => []AdvertisedIsApplied)
<1> SUFFICES ASSUME ~ServerOmits PROVE Spec => []AdvertisedIsApplied
  OBVIOUS
<1>1. Init => AppliedInv
  BY DEF Init, AppliedInv, AdvertisedIsApplied
<1>2. Order /\ AppliedInv /\ [Next]_vars => AppliedInv'
  BY AppliedStep
<1>3. AppliedInv => AdvertisedIsApplied
  BY DEF AppliedInv
<1> QED
  BY <1>1, <1>2, <1>3, OrderHolds, PTL DEF Spec

-----------------------------------------------------------------------------
(***************************************************************************)
(* Runs.                                                                   *)
(***************************************************************************)
\* The version that is applied or about to be.
Level == IF ack # 0 THEN ack ELSE snap

\* What the server has told the agent is at hand or under way.
ToldInv ==
  Connected => sent <= Level \/ \E j \in DOMAIN inbox : sent <= inbox[j].cfg

\* A run under way comes behind the configuration it needs.
Behind(i) ==
  \/ run[inbox[i].run].need <= Level
  \/ \E j \in DOMAIN inbox : j < i /\ run[inbox[i].run].need <= inbox[j].cfg

QueueInv ==
  /\ \A i \in DOMAIN inbox : inbox[i].cfg = 0 =>
       inbox[i].run \in Runs /\ run[inbox[i].run].st = "sent" /\ Behind(i)
  /\ \A i, j \in DOMAIN inbox :
       inbox[i].cfg = 0 /\ inbox[j].cfg = 0 /\ inbox[i].run = inbox[j].run => i = j

\* A run that has begun finds what it needs in the snapshot.
LookupInv ==
  \A r \in Runs :
    /\ run[r].st = "started" => run[r].need <= snap
    /\ run[r].st \in {"job", "resolved"} => run[r].need <= run[r].job
    /\ run[r].st = "job" => run[r].job <= snap
    /\ run[r].st = "resolved" =>
         /\ run[r].job <= run[r].target
         /\ TargetOf[run[r].job] \in TargetsIn[run[r].target]

RunInv == ToldInv /\ QueueInv /\ LookupInv

\* The numbers in a run's record.
LEMMA RunNumbers ==
  ASSUME TypeOK
  PROVE  /\ \A r \in Runs : run[r].need \in Nat /\ run[r].job \in Nat
         /\ run \in [Runs -> RunRecord] /\ Level \in Nat
<1>1. run \in [Runs -> RunRecord]
  BY TypeParts DEF Parts
<1>2. \A x \in RunRecord : x.need \in Nat /\ x.job \in Nat
  BY ConfigAssumption DEF RunRecord
<1> QED
  BY <1>1, <1>2, Numbers DEF Level

\* Steps that leave frames and runs alone and take no version back.
LEMMA RunFrame ==
  ASSUME Order, RunInv, UNCHANGED <<inbox, run, sent>>,
         snap' \in Nat, Level' \in Nat, snap <= snap', Level <= Level',
         Connected' => Connected
  PROVE  RunInv'
<1> USE Numbers, RunNumbers DEF Order
<1>1. ToldInv'
  BY DEF RunInv, ToldInv
<1>2. \A i \in DOMAIN inbox : inbox[i].run \in Runs /\ Behind(i) => Behind(i)'
  BY DEF Behind
<1>3. QueueInv'
  BY <1>2 DEF RunInv, QueueInv
<1>4. LookupInv'
  BY DEF RunInv, LookupInv
<1> QED
  BY <1>1, <1>3, <1>4 DEF RunInv

LEMMA AgentRuns ==
  ASSUME Order, Order', RunInv, ~ServerOmits,
         Register \/ AckSave \/ SetSnapshot \/ UpdateSave \/ UpdateVersion
  PROVE  RunInv'
<1> USE Numbers DEF Order, VersionInv, Level, Connected
<1>0. Level' \in Nat /\ snap' \in Nat /\ UNCHANGED <<inbox, run, sent>>
  <2>1. snap' \in Nat /\ ack' \in Nat
    BY ConfigAssumption, TypeParts DEF Parts
  <2> QED
    BY <2>1 DEF Register, AckSave, SetSnapshot, UpdateSave, UpdateVersion
<1>1. snap <= snap' /\ Level <= Level'
  BY DEF Register, AckSave, SetSnapshot, UpdateSave, UpdateVersion
<1>2. Connected' => Connected
  BY DEF Register, AckSave, SetSnapshot, UpdateSave, UpdateVersion
<1> QED
  BY <1>0, <1>1, <1>2, RunFrame

\* RegisterAck: no frames are under way and the newest version is in hand.
LEMMA AckRuns ==
  ASSUME Order, RunInv, ~ServerOmits, RegisterAck
  PROVE  RunInv'
<1> USE Numbers DEF Order
<1>1. /\ inbox = <<>> /\ ack' = srv /\ sent' = srv /\ UNCHANGED <<inbox, run, snap>>
  BY DEF RegisterAck, FrameInv, Connected
<1>2. ToldInv'
  BY <1>1 DEF ToldInv, Level
<1>3. QueueInv'
  BY <1>1 DEF QueueInv
<1>4. LookupInv'
  BY <1>1 DEF RunInv, LookupInv
<1> QED
  BY <1>2, <1>3, <1>4 DEF RunInv

\* A configuration goes under way, behind everything else.
LEMMA PushRuns ==
  ASSUME Order, RunInv, ServerPush
  PROVE  RunInv'
<1> USE Numbers, RunNumbers DEF Order
<1> DEFINE e == [cfg |-> srv, run |-> "none"]
<1>1. e \in Frames /\ e.cfg = srv
  BY TypeParts, ConfigAssumption DEF Parts, Frames, Versions
<1>2. /\ inbox' = Append(inbox, e) /\ sent' = srv /\ Connected
      /\ UNCHANGED <<pc, ack, snap, run>>
  BY DEF ServerPush, agentVars
<1> HIDE DEF e
<1>3. /\ DOMAIN inbox' = 1 .. Len(inbox) + 1
      /\ \A i \in 1 .. Len(inbox) : inbox'[i] = inbox[i]
      /\ inbox'[Len(inbox) + 1] = e
  BY <1>1, <1>2, AppendFacts
<1>4. Level' = Level
  BY <1>2 DEF Level
<1>5. ToldInv'
  <2>1. Len(inbox) + 1 \in DOMAIN inbox' /\ sent' <= inbox'[Len(inbox) + 1].cfg
    BY <1>1, <1>2, <1>3
  <2> QED
    BY <2>1 DEF ToldInv
<1>6. \A i \in DOMAIN inbox : Behind(i) => Behind(i)'
  BY <1>2, <1>3, <1>4 DEF Behind
<1>7. \A i \in DOMAIN inbox' : inbox'[i].cfg = 0 => i \in DOMAIN inbox /\ inbox'[i] = inbox[i]
  BY <1>1, <1>3
<1>8. QueueInv'
  BY <1>2, <1>6, <1>7 DEF RunInv, QueueInv
<1>9. LookupInv'
  BY <1>2 DEF RunInv, LookupInv
<1> QED
  BY <1>5, <1>8, <1>9 DEF RunInv

\* A run goes under way: what it needs was told before.
LEMMA SendRuns ==
  ASSUME Order, RunInv, NEW r \in Runs, ServerRun(r)
  PROVE  RunInv'
<1> USE Numbers, RunNumbers DEF Order
<1> DEFINE e == [cfg |-> 0, run |-> r]
<1>1. e \in Frames /\ e.cfg = 0 /\ e.run = r
  BY TypeParts, ConfigAssumption DEF Parts, Frames, Versions
<1>2. /\ inbox' = Append(inbox, e) /\ Connected /\ run[r].st = "idle"
      /\ run' = [run EXCEPT ![r] = [run[r] EXCEPT !.st = "sent", !.need = sent]]
      /\ UNCHANGED <<pc, ack, snap, sent>>
  BY DEF ServerRun, agentVars
<1> HIDE DEF e
<1>3. /\ DOMAIN inbox' = 1 .. Len(inbox) + 1
      /\ \A i \in 1 .. Len(inbox) : inbox'[i] = inbox[i]
      /\ inbox'[Len(inbox) + 1] = e
  BY <1>1, <1>2, AppendFacts
<1>4. Level' = Level /\ (Connected' <=> Connected)
  BY <1>2 DEF Level, Connected
<1>5. /\ run'[r].st = "sent" /\ run'[r].need = sent
      /\ \A q \in Runs \ {r} : run'[q] = run[q]
  BY <1>2 DEF RunRecord
<1>6. sent <= Level \/ \E j \in DOMAIN inbox : sent <= inbox[j].cfg
  BY <1>2 DEF RunInv, ToldInv
<1>7. ToldInv'
  BY <1>2, <1>3, <1>4, <1>6 DEF ToldInv
<1>8. \A i \in DOMAIN inbox : inbox[i].cfg = 0 => inbox[i].run \in Runs \ {r}
  BY <1>2 DEF RunInv, QueueInv
<1>9. \A i \in DOMAIN inbox : inbox[i].cfg = 0 => Behind(i)'
  <2> SUFFICES ASSUME NEW i \in DOMAIN inbox, inbox[i].cfg = 0 PROVE Behind(i)'
    OBVIOUS
  <2>1. Behind(i) /\ inbox'[i] = inbox[i] /\ run'[inbox[i].run] = run[inbox[i].run]
    BY <1>3, <1>5, <1>8 DEF RunInv, QueueInv
  <2> QED
    BY <1>3, <1>4, <2>1 DEF Behind
<1>10. \A i \in DOMAIN inbox' : i \notin DOMAIN inbox => Behind(i)' /\ inbox'[i] = e
  <2> SUFFICES ASSUME NEW i \in DOMAIN inbox', i \notin DOMAIN inbox
               PROVE  Behind(i)' /\ inbox'[i] = e
    OBVIOUS
  <2>1. i = Len(inbox) + 1 /\ inbox'[i] = e /\ inbox'[i].run = r
    BY <1>1, <1>3
  <2>2. CASE sent <= Level
    BY <1>4, <1>5, <2>1, <2>2 DEF Behind
  <2>3. ASSUME NEW j \in DOMAIN inbox, sent <= inbox[j].cfg PROVE Behind(i)'
    <3>1. j \in DOMAIN inbox' /\ j < i /\ inbox'[j] = inbox[j]
      BY <1>3, <2>1
    <3> QED
      BY <1>5, <2>1, <2>3, <3>1 DEF Behind
  <2> QED
    BY <1>6, <2>1, <2>2, <2>3
<1>11. QueueInv'
  <2>1. \A i \in DOMAIN inbox' : inbox'[i].cfg = 0 =>
          inbox'[i].run \in Runs /\ run'[inbox'[i].run].st = "sent" /\ Behind(i)'
    <3> SUFFICES ASSUME NEW i \in DOMAIN inbox', inbox'[i].cfg = 0
                 PROVE  inbox'[i].run \in Runs /\ run'[inbox'[i].run].st = "sent" /\ Behind(i)'
      OBVIOUS
    <3>1. CASE i \in DOMAIN inbox
      BY <1>3, <1>5, <1>8, <1>9, <3>1 DEF RunInv, QueueInv
    <3>2. CASE i \notin DOMAIN inbox
      BY <1>1, <1>5, <1>10, <3>2
    <3> QED
      BY <3>1, <3>2
  <2>2. \A i, j \in DOMAIN inbox' :
          inbox'[i].cfg = 0 /\ inbox'[j].cfg = 0 /\ inbox'[i].run = inbox'[j].run => i = j
    BY <1>1, <1>3, <1>8 DEF RunInv, QueueInv
  <2> QED
    BY <2>1, <2>2 DEF QueueInv
<1>12. LookupInv'
  BY <1>2, <1>5 DEF RunInv, LookupInv
<1> QED
  BY <1>7, <1>11, <1>12 DEF RunInv

\* A configuration is read: it is in hand now, and no older than the snapshot.
LEMMA ReadConfigRuns ==
  ASSUME Order, RunInv, ReadFrame, Head(inbox).cfg # 0
  PROVE  RunInv'
<1> USE Numbers, RunNumbers DEF Order
<1>1. /\ inbox # <<>> /\ inbox' = Tail(inbox) /\ pc = "pump" /\ Connected
      /\ ack = 0 /\ ack' = inbox[1].cfg /\ inbox[1].cfg # 0 /\ snap <= inbox[1].cfg
      /\ UNCHANGED <<run, snap, sent>>
  BY HeadFacts DEF ReadFrame, VersionInv, Connected
<1>2. /\ DOMAIN inbox' = 1 .. Len(inbox) - 1 /\ 1 \in DOMAIN inbox
      /\ \A i \in 1 .. Len(inbox) - 1 : inbox'[i] = inbox[i + 1]
  BY <1>1, TailFacts
<1>3. Level = snap /\ Level' = inbox[1].cfg
  BY <1>1 DEF Level
<1>4. \A j \in DOMAIN inbox : j = 1 \/ (j - 1 \in DOMAIN inbox' /\ inbox'[j - 1] = inbox[j])
  BY <1>2
<1>5. ToldInv'
  <2>1. CASE sent <= Level
    BY <1>1, <1>3, <2>1 DEF ToldInv
  <2>2. ASSUME NEW j \in DOMAIN inbox, sent <= inbox[j].cfg PROVE ToldInv'
    <3>1. CASE j = 1
      BY <1>1, <1>3, <2>2, <3>1 DEF ToldInv
    <3>2. CASE j # 1
      BY <1>1, <1>4, <2>2, <3>2 DEF ToldInv
    <3> QED
      BY <3>1, <3>2
  <2> QED
    BY <1>1, <2>1, <2>2 DEF RunInv, ToldInv
<1>6. \A i \in DOMAIN inbox' : inbox'[i].cfg = 0 =>
        inbox'[i].run \in Runs /\ run[inbox'[i].run].st = "sent" /\ Behind(i)'
  <2> SUFFICES ASSUME NEW i \in DOMAIN inbox', inbox'[i].cfg = 0
               PROVE  inbox'[i].run \in Runs /\ run[inbox'[i].run].st = "sent" /\ Behind(i)'
    OBVIOUS
  <2>1. /\ i \in Nat /\ i + 1 \in DOMAIN inbox /\ inbox'[i] = inbox[i + 1]
        /\ inbox[i + 1].run \in Runs /\ run[inbox[i + 1].run].st = "sent" /\ Behind(i + 1)
    BY <1>2 DEF RunInv, QueueInv
  <2>2. CASE run[inbox[i + 1].run].need <= Level
    BY <1>1, <1>3, <2>1, <2>2 DEF Behind
  <2>3. ASSUME NEW j \in DOMAIN inbox, j < i + 1, run[inbox[i + 1].run].need <= inbox[j].cfg
        PROVE  Behind(i)'
    <3>1. CASE j = 1
      BY <1>1, <1>3, <2>1, <2>3, <3>1 DEF Behind
    <3>2. CASE j # 1
      <4>1. j - 1 \in DOMAIN inbox' /\ inbox'[j - 1] = inbox[j] /\ j - 1 < i
        BY <1>2, <1>4, <2>1, <2>3, <3>2
      <4> QED
        BY <1>1, <2>1, <2>3, <4>1 DEF Behind
    <3> QED
      BY <3>1, <3>2
  <2> QED
    BY <2>1, <2>2, <2>3 DEF Behind
<1>7. \A i, j \in DOMAIN inbox' :
        inbox'[i].cfg = 0 /\ inbox'[j].cfg = 0 /\ inbox'[i].run = inbox'[j].run => i = j
  <2> SUFFICES ASSUME NEW i \in DOMAIN inbox', NEW j \in DOMAIN inbox', inbox'[i].cfg = 0,
                      inbox'[j].cfg = 0, inbox'[i].run = inbox'[j].run
               PROVE  i = j
    OBVIOUS
  <2>1. /\ i + 1 \in DOMAIN inbox /\ j + 1 \in DOMAIN inbox /\ i \in Nat /\ j \in Nat
        /\ inbox'[i] = inbox[i + 1] /\ inbox'[j] = inbox[j + 1]
    BY <1>2
  <2>2. i + 1 = j + 1
    BY <2>1 DEF RunInv, QueueInv
  <2> QED
    BY <2>1, <2>2
<1>8. QueueInv'
  BY <1>1, <1>6, <1>7 DEF QueueInv
<1>9. LookupInv'
  BY <1>1 DEF RunInv, LookupInv
<1> QED
  BY <1>5, <1>8, <1>9 DEF RunInv

\* A run is read: nothing it needs is still before it, so it is in the snapshot.
LEMMA ReadRunRuns ==
  ASSUME Order, RunInv, ReadFrame, Head(inbox).cfg = 0
  PROVE  RunInv'
<1> USE Numbers, RunNumbers DEF Order
<1> DEFINE q == inbox[1].run
<1>1. /\ inbox # <<>> /\ inbox' = Tail(inbox) /\ pc = "pump" /\ Connected
      /\ ack = 0 /\ inbox[1].cfg = 0
      /\ run' = [run EXCEPT ![q] = [run[q] EXCEPT !.st = "started"]]
      /\ UNCHANGED <<ack, snap, sent>>
  BY HeadFacts DEF ReadFrame, VersionInv, Connected
<1>2. /\ DOMAIN inbox' = 1 .. Len(inbox) - 1 /\ 1 \in DOMAIN inbox
      /\ \A i \in 1 .. Len(inbox) - 1 : inbox'[i] = inbox[i + 1]
  BY <1>1, TailFacts
<1>3. Level = snap /\ Level' = snap
  BY <1>1 DEF Level
<1>4. \A j \in DOMAIN inbox : j = 1 \/ (j - 1 \in DOMAIN inbox' /\ inbox'[j - 1] = inbox[j])
  BY <1>2
<1>5. q \in Runs /\ run[q].need <= snap
  <2>1. q \in Runs /\ Behind(1)
    BY <1>1, <1>2 DEF RunInv, QueueInv
  <2> QED
    BY <1>2, <1>3, <2>1 DEF Behind
<1>6. /\ run'[q].st = "started" /\ run'[q].need = run[q].need
      /\ \A r \in Runs \ {q} : run'[r] = run[r]
  BY <1>1, <1>5 DEF RunRecord
<1> HIDE DEF q
<1>7. ToldInv'
  <2>1. CASE sent <= Level
    BY <1>1, <1>3, <2>1 DEF ToldInv
  <2>2. ASSUME NEW j \in DOMAIN inbox, sent <= inbox[j].cfg PROVE ToldInv'
    <3>1. CASE j = 1
      BY <1>1, <1>3, <2>2, <3>1 DEF ToldInv
    <3>2. CASE j # 1
      BY <1>1, <1>4, <2>2, <3>2 DEF ToldInv
    <3> QED
      BY <3>1, <3>2
  <2> QED
    BY <1>1, <2>1, <2>2 DEF RunInv, ToldInv
<1>8. \A i \in DOMAIN inbox' : inbox'[i].cfg = 0 =>
        inbox'[i].run \in Runs /\ run'[inbox'[i].run].st = "sent" /\ Behind(i)'
  <2> SUFFICES ASSUME NEW i \in DOMAIN inbox', inbox'[i].cfg = 0
               PROVE  inbox'[i].run \in Runs /\ run'[inbox'[i].run].st = "sent" /\ Behind(i)'
    OBVIOUS
  <2>1. /\ i \in Nat \ {0} /\ i + 1 \in DOMAIN inbox /\ inbox'[i] = inbox[i + 1]
        /\ inbox[i + 1].run \in Runs /\ run[inbox[i + 1].run].st = "sent" /\ Behind(i + 1)
    BY <1>2 DEF RunInv, QueueInv
  <2>2. inbox[i + 1].run # q
    <3>1. i + 1 # 1 /\ inbox[1].cfg = 0 /\ 1 \in DOMAIN inbox
      BY <1>1, <1>2, <2>1
    <3> QED
      BY <2>1, <3>1 DEF RunInv, QueueInv, q
  <2>3. run'[inbox'[i].run] = run[inbox[i + 1].run]
    BY <1>6, <2>1, <2>2
  <2>4. CASE run[inbox[i + 1].run].need <= Level
    BY <1>3, <2>1, <2>3, <2>4 DEF Behind
  <2>5. ASSUME NEW j \in DOMAIN inbox, j < i + 1, run[inbox[i + 1].run].need <= inbox[j].cfg
        PROVE  Behind(i)'
    <3>1. CASE j = 1
      BY <1>1, <1>3, <2>1, <2>3, <2>5, <3>1 DEF Behind
    <3>2. CASE j # 1
      <4>1. j - 1 \in DOMAIN inbox' /\ inbox'[j - 1] = inbox[j] /\ j - 1 < i
        BY <1>2, <1>4, <2>1, <2>5, <3>2
      <4> QED
        BY <2>3, <2>5, <4>1 DEF Behind
    <3> QED
      BY <3>1, <3>2
  <2> QED
    BY <2>1, <2>3, <2>4, <2>5 DEF Behind
<1>9. \A i, j \in DOMAIN inbox' :
        inbox'[i].cfg = 0 /\ inbox'[j].cfg = 0 /\ inbox'[i].run = inbox'[j].run => i = j
  <2> SUFFICES ASSUME NEW i \in DOMAIN inbox', NEW j \in DOMAIN inbox', inbox'[i].cfg = 0,
                      inbox'[j].cfg = 0, inbox'[i].run = inbox'[j].run
               PROVE  i = j
    OBVIOUS
  <2>1. /\ i + 1 \in DOMAIN inbox /\ j + 1 \in DOMAIN inbox /\ i \in Nat /\ j \in Nat
        /\ inbox'[i] = inbox[i + 1] /\ inbox'[j] = inbox[j + 1]
    BY <1>2
  <2>2. i + 1 = j + 1
    BY <2>1 DEF RunInv, QueueInv
  <2> QED
    BY <2>1, <2>2
<1>10. QueueInv'
  BY <1>8, <1>9 DEF QueueInv
<1>11. LookupInv'
  BY <1>1, <1>5, <1>6 DEF RunInv, LookupInv
<1> QED
  BY <1>7, <1>10, <1>11 DEF RunInv

\* The two look-ups, between which the snapshot does not go back.
LEMMA LookupRuns ==
  ASSUME Order, RunInv, NEW r \in Runs, LookupJob(r) \/ LookupTarget(r)
  PROVE  RunInv'
<1> USE Numbers, RunNumbers DEF Order
<1>1. /\ UNCHANGED <<inbox, sent, pc, ack, snap>>
      /\ run[r].st \in {"started", "job"}
      /\ \A q \in Runs \ {r} : run'[q] = run[q]
  BY DEF LookupJob, LookupTarget, agentVars
<1>2. Level' = Level /\ (Connected' <=> Connected)
  BY <1>1 DEF Level, Connected
<1>3. ToldInv'
  BY <1>1, <1>2 DEF RunInv, ToldInv
<1>4. \A i \in DOMAIN inbox : inbox[i].cfg = 0 => inbox[i].run \in Runs \ {r}
  BY <1>1 DEF RunInv, QueueInv
<1>5. \A i \in DOMAIN inbox : inbox[i].cfg = 0 => Behind(i)'
  BY <1>1, <1>2, <1>4 DEF RunInv, QueueInv, Behind
<1>6. QueueInv'
  BY <1>1, <1>4, <1>5 DEF RunInv, QueueInv
<1>7. LookupInv'
  <2>1. CASE LookupJob(r)
    BY <1>1, <2>1 DEF RunInv, LookupInv, LookupJob, RunRecord
  <2>2. CASE LookupTarget(r)
    BY <1>1, <2>2 DEF RunInv, LookupInv, LookupTarget, RunRecord
  <2> QED
    BY <2>1, <2>2
<1> QED
  BY <1>3, <1>6, <1>7 DEF RunInv

\* A break or a restart takes the frames away and, in a new process, the runs.
LEMMA BreakRuns ==
  ASSUME Order, RunInv, Disconnect \/ \E k \in AgentKeys : Restart(k)
  PROVE  RunInv'
<1> USE Numbers, RunNumbers DEF Order
<1>1. inbox' = <<>> /\ pc' = "down"
  BY DEF Disconnect, Restart
<1>2. ToldInv' /\ QueueInv'
  BY <1>1 DEF ToldInv, QueueInv, Connected
<1>3. LookupInv'
  <2>1. CASE Disconnect
    <3>1. snap' = snap /\ \A r \in Runs : run'[r] = run[r] \/ run'[r].st = "idle"
      BY <2>1 DEF Disconnect, Idle
    <3> QED
      BY <3>1 DEF RunInv, LookupInv
  <2>2. CASE \E k \in AgentKeys : Restart(k)
    <3>1. \A r \in Runs : run'[r].st \in {"idle", "gone"}
      BY <2>2 DEF Restart, Idle, RunRecord
    <3> QED
      BY <3>1 DEF LookupInv
  <2> QED
    BY <2>1, <2>2
<1> QED
  BY <1>2, <1>3 DEF RunInv

\* A run that was sent after a configuration is resolved against that one or a
\* newer one, although it runs in a goroutine of its own, configurations keep
\* coming between its two look-ups, and the connection breaks; the server sends
\* a configuration with every RegisterAck.
THEOREM RunsInOrder == ~ServerOmits => (Spec => []RunSeesPriorConfig)
<1> SUFFICES ASSUME ~ServerOmits PROVE Spec => []RunSeesPriorConfig
  OBVIOUS
<1>1. Init => RunInv
  BY DEF Init, RunInv, ToldInv, QueueInv, LookupInv, Connected, Idle
<1>2. ASSUME Order, Order', RunInv, [Next]_vars PROVE RunInv'
  <2> USE <1>2
  <2>1. CASE ServerEdit \/ UNCHANGED vars
    <3>1. UNCHANGED <<inbox, run, sent, snap, ack, pc>>
      BY <2>1 DEF ServerEdit, vars, agentVars
    <3>2. Level' = Level /\ (Connected' <=> Connected) /\ snap \in Nat /\ Level \in Nat
      BY <3>1, Numbers, RunNumbers DEF Level, Connected, Order
    <3> QED
      BY <3>1, <3>2, RunFrame
  <2>2. CASE ReadFrame
    BY <2>2, ReadConfigRuns, ReadRunRuns
  <2> QED
    BY <2>1, <2>2, PushRuns, SendRuns, AgentRuns, AckRuns, LookupRuns, BreakRuns
    DEF Next, AgentNext
<1>3. RunInv => RunSeesPriorConfig
  BY DEF RunInv, LookupInv, RunSeesPriorConfig
<1> QED
  BY <1>1, <1>2, <1>3, OrderHolds, PTL DEF Spec
=============================================================================
