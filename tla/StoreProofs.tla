----------------------------- MODULE StoreProofs -----------------------------
(***************************************************************************)
(* Theorems about Store, for any agent keys, jobs, times and bounds.       *)
(*                                                                         *)
(* LogsOnce needs to know besides that a sequence number names one record. *)
(* DumpIsOneState rests on the file lock: who uses the store holds the     *)
(* lock, so nobody else writes while dump-state reads.                     *)
(***************************************************************************)
EXTENDS Store, TLAPS

-----------------------------------------------------------------------------
(***************************************************************************)
(* Log lines.                                                              *)
(***************************************************************************)
\* Records of different lines have different sequence numbers.
SeqNamesLog == \A l, m \in logs : l.seq = m.seq => l = m

LogInv == logSeq \in Nat /\ SeqNamesLog /\ LogsOnce

\* The steps that leave the logs bucket alone.
LEMMA LogFrame == LogInv /\ UNCHANGED <<logs, logSeq, drained>> => LogInv'
BY DEF LogInv, SeqNamesLog, LogsOnce

\* A new line gets the next number, which is neither in the bucket nor drained.
LEMMA BufferKeepsLogs ==
  ASSUME LogInv, NEW t \in Times, BufferLog(t)
  PROVE  LogInv'
<1> DEFINE new == [time |-> t, seq |-> logSeq + 1, by |-> Key]
<1>1. logSeq' = logSeq + 1 /\ logs' = logs \cup {new} /\ drained' = drained
  BY DEF BufferLog
<1>2. new.seq = logSeq + 1
  OBVIOUS
<1> HIDE DEF new
<1>3. logSeq \in Nat /\ SeqNamesLog /\ LogsOnce
  BY DEF LogInv
<1>4. \A l \in logs : l.seq \in 1 .. logSeq
  BY <1>3 DEF LogsOnce
<1>5. \A x \in drained : x \in 1 .. logSeq
  BY <1>3 DEF LogsOnce
<1>6. SeqNamesLog'
  BY <1>1, <1>2, <1>3, <1>4 DEF SeqNamesLog
<1>7. {l.seq : l \in logs'} = {l.seq : l \in logs} \cup {logSeq + 1}
  BY <1>1, <1>2
<1>8. 1 .. (logSeq + 1) = (1 .. logSeq) \cup {logSeq + 1}
  BY <1>3
<1>9. logSeq + 1 \notin drained
  BY <1>3, <1>5
<1>10. LogsOnce'
  BY <1>1, <1>3, <1>7, <1>8, <1>9 DEF LogsOnce
<1> QED
  BY <1>1, <1>3, <1>6, <1>10 DEF LogInv

\* A drain moves numbers from the bucket to the drained ones, all or none.
LEMMA DrainKeepsLogs ==
  ASSUME LogInv, NEW n \in 1 .. DrainMax, DrainLogs(n)
  PROVE  LogInv'
<1> DEFINE first == FirstLogs(n)
<1>1. /\ logs' = logs \ first /\ logSeq' = logSeq
      /\ drained' = drained \cup {l.seq : l \in first}
  BY DEF DrainLogs
<1>2. first \subseteq logs
  BY DEF FirstLogs
<1> HIDE DEF first
<1>3. logSeq \in Nat /\ SeqNamesLog /\ LogsOnce
  BY DEF LogInv
<1>4. SeqNamesLog'
  BY <1>1, <1>3 DEF SeqNamesLog
<1>5. {l.seq : l \in logs'} \cup {l.seq : l \in first} = {l.seq : l \in logs}
  BY <1>1, <1>2
<1>6. {l.seq : l \in logs'} \cap {l.seq : l \in first} = {}
  BY <1>1, <1>2, <1>3 DEF SeqNamesLog
<1>7. LogsOnce'
  BY <1>1, <1>3, <1>5, <1>6 DEF LogsOnce
<1> QED
  BY <1>1, <1>3, <1>4, <1>7 DEF LogInv

\* Every log line BufferLog has written is in the bucket or was returned by
\* one DrainLogs, through crashes, restarts and changes of the agent key.
THEOREM LogsKept == Spec => []LogsOnce
<1>1. Init => LogInv
  <2> SUFFICES ASSUME Init PROVE LogInv
    OBVIOUS
  <2>1. logs = {} /\ logSeq = 0 /\ drained = {}
    BY DEF Init
  <2>2. 1 .. 0 = {}
    OBVIOUS
  <2> QED
    BY <2>1, <2>2 DEF LogInv, SeqNamesLog, LogsOnce
<1>2. LogInv /\ [Next]_vars => LogInv'
  <2> SUFFICES ASSUME LogInv, [Next]_vars PROVE LogInv'
    OBVIOUS
  <2>1. CASE \E t \in Times : BufferLog(t)
    BY <2>1, BufferKeepsLogs
  <2>2. CASE \E n \in 1 .. DrainMax : DrainLogs(n)
    BY <2>2, DrainKeepsLogs
  <2>3. CASE \E p \in Commands : Start(p) \/ Open(p) \/ OpenTimeout(p) \/ Crash(p)
    BY <2>3, LogFrame DEF Start, Open, OpenTimeout, Crash, Exit, dbVars
  <2>4. CASE Stop \/ HealthCheckClose \/ DumpField \/ DumpStateClose
    BY <2>4, LogFrame DEF Stop, HealthCheckClose, DumpField, DumpStateClose, Exit, dbVars
  <2>5. CASE SaveConfig \/ SaveSession \/ RecordHeartbeat
    BY <2>5, LogFrame DEF SaveConfig, SaveSession, RecordHeartbeat
  <2>6. CASE \E j \in Jobs : EnqueueJob(j) \/ AckJob(j)
    BY <2>6, LogFrame DEF EnqueueJob, AckJob
  <2>7. CASE UNCHANGED vars
    BY <2>7, LogFrame DEF vars, dbVars
  <2> QED
    BY <2>1, <2>2, <2>3, <2>4, <2>5, <2>6, <2>7 DEF Next
<1>3. LogInv => LogsOnce
  BY DEF LogInv
<1> QED
  BY <1>1, <1>2, <1>3, PTL DEF Spec

-----------------------------------------------------------------------------
(***************************************************************************)
(* dump-state.                                                             *)
(***************************************************************************)
ProcType ==
  /\ pc \in [Commands -> {"off", "open", "using"}]
  /\ key \in [Commands -> AgentKeys \cup {Nothing}]

\* Who uses the store holds the lock.
LockInv == \A p \in Commands : pc[p] = "using" => holder = p

Answer(i) == Read("dump-state", Fields[i])

\* While dump-state has the store, its output so far is what it would read now;
\* else there is none.
DumpInv ==
  IF pc["dump-state"] = "using"
  THEN \E n \in 0 .. 5 : printed = [i \in 1 .. n |-> Answer(i)]
  ELSE printed = <<>>

ReadInv == ProcType /\ LockInv /\ DumpInv

\* What a command is told depends on the store and its key alone.
LEMMA SameAnswer ==
  ASSUME UNCHANGED dbVars, key'["dump-state"] = key["dump-state"]
  PROVE  \A i \in 1 .. 5 : Answer(i)' = Answer(i)
<1> SUFFICES ASSUME NEW i \in 1 .. 5 PROVE Answer(i)' = Answer(i)
  OBVIOUS
<1>1. /\ config' = config /\ session' = session /\ beat' = beat
      /\ queue' = queue
  BY DEF dbVars
<1> QED
  BY <1>1 DEF Answer, Read, Opened, Fields

\* The parts of ReadInv about who runs, when process p goes on to state st.
LEMMA ProcStep ==
  ASSUME ReadInv, NEW p \in Commands, NEW st \in {"off", "open"},
         NEW k \in AgentKeys \cup {Nothing},
         pc[p] # "using" \/ st = "off",
         pc' = [pc EXCEPT ![p] = st], key' = [key EXCEPT ![p] = k],
         holder' = holder \/ (holder = p /\ holder' = NoOne),
         printed' = IF p = "dump-state" THEN <<>> ELSE printed,
         UNCHANGED dbVars
  PROVE  ReadInv'
<1> USE DEF Commands
<1>0. ProcType /\ LockInv /\ DumpInv
  BY DEF ReadInv
<1>1. ProcType'
  BY <1>0 DEF ProcType
<1>2. LockInv'
  BY <1>0 DEF ProcType, LockInv
<1>3. DumpInv'
  <2>1. CASE p = "dump-state"
    BY <2>1, <1>0 DEF ProcType, DumpInv
  <2>2. CASE p # "dump-state"
    <3>1. /\ pc'["dump-state"] = pc["dump-state"]
          /\ key'["dump-state"] = key["dump-state"] /\ printed' = printed
      BY <2>2, <1>0 DEF ProcType
    <3>2. \A i \in 1 .. 5 : Answer(i)' = Answer(i)
      BY <3>1, SameAnswer
    <3> QED
      BY <1>0, <3>1, <3>2 DEF DumpInv
  <2> QED
    BY <2>1, <2>2
<1> QED
  BY <1>1, <1>2, <1>3 DEF ReadInv

\* A command's end, whatever the reason.
LEMMA ExitKeepsReads ==
  ASSUME ReadInv, NEW p \in Commands, Exit(p)
  PROVE  ReadInv'
<1>1. /\ pc' = [pc EXCEPT ![p] = "off"] /\ key' = [key EXCEPT ![p] = Nothing]
      /\ holder' = holder \/ (holder = p /\ holder' = NoOne)
      /\ printed' = IF p = "dump-state" THEN <<>> ELSE printed
      /\ UNCHANGED dbVars
  BY DEF Exit
<1> QED
  BY <1>1, ProcStep

\* While the agent writes, dump-state does not have the store.
LEMMA WriteKeepsReads ==
  ASSUME ReadInv, Agent, UNCHANGED <<pc, key, holder, printed>>
  PROVE  ReadInv'
<1> USE DEF Commands
<1>1. pc["run"] = "using" /\ pc["dump-state"] # "using"
  BY DEF ReadInv, LockInv, Agent
<1> QED
  BY <1>1 DEF ReadInv, ProcType, LockInv, DumpInv

\* The next field is read, and those before it would be read the same again.
LEMMA FieldKeepsReads ==
  ASSUME ReadInv, DumpField
  PROVE  ReadInv'
<1>0. /\ pc["dump-state"] = "using" /\ Len(printed) < 5
      /\ printed' = Append(printed, Answer(Len(printed) + 1))
      /\ UNCHANGED <<pc, key, holder>> /\ UNCHANGED dbVars
  BY DEF DumpField, Answer, Fields, procVars
<1>1. PICK n \in 0 .. 5 : printed = [i \in 1 .. n |-> Answer(i)]
  BY <1>0 DEF ReadInv, DumpInv
<1>2. \A i \in 1 .. 5 : Answer(i)' = Answer(i)
  BY <1>0, SameAnswer
<1> HIDE DEF Answer
<1>3. printed \in Seq({Answer(i) : i \in 1 .. 5})
  BY <1>1
<1>4. Len(printed) = n /\ n \in 0 .. 4
  BY <1>0, <1>1, <1>3
<1>5. printed' = [i \in 1 .. n + 1 |-> Answer(i)]
  BY <1>0, <1>1, <1>3, <1>4
<1>6. printed' = [i \in 1 .. n + 1 |-> Answer(i)']
  BY <1>2, <1>4, <1>5
<1>7. n + 1 \in 0 .. 5
  BY <1>4
<1>8. \E m \in 0 .. 5 : printed' = [i \in 1 .. m |-> Answer(i)']
  BY <1>6, <1>7
<1>9. DumpInv'
  BY <1>0, <1>8, Zenon DEF DumpInv
<1> QED
  BY <1>0, <1>9 DEF ReadInv, ProcType, LockInv

\* What dump-state prints is one state of the store: everything it has read so
\* far is what it would read now, in spite of five transactions and any number
\* of agents that start, stop and crash around it.
THEOREM DumpConsistent == Spec => []DumpIsOneState
<1>1. Init => ReadInv
  BY DEF Init, ReadInv, ProcType, LockInv, DumpInv, Commands
<1>2. ReadInv /\ [Next]_vars => ReadInv'
  <2> SUFFICES ASSUME ReadInv, [Next]_vars PROVE ReadInv'
    OBVIOUS
  <2>0. Commands = {"run", "health-check", "dump-state"}
    BY DEF Commands
  <2>1. ASSUME NEW p \in Commands, Start(p) PROVE ReadInv'
    <3>1. PICK e \in Accepted : key' = [key EXCEPT ![p] = e.key]
      BY <2>1 DEF Start
    <3>2. e.key \in AgentKeys
      BY DEF Accepted, Environments
    <3>3. /\ pc[p] = "off" /\ pc' = [pc EXCEPT ![p] = "open"]
          /\ UNCHANGED <<holder, printed>> /\ UNCHANGED dbVars
      BY <2>1 DEF Start
    <3>4. p = "dump-state" => printed = <<>>
      BY <3>3 DEF ReadInv, DumpInv
    <3> QED
      BY <3>1, <3>2, <3>3, <3>4, ProcStep
  <2>2. ASSUME NEW p \in Commands, Open(p) PROVE ReadInv'
    <3>1. /\ pc[p] = "open" /\ holder = NoOne /\ holder' = p
          /\ pc' = [pc EXCEPT ![p] = "using"]
          /\ UNCHANGED <<key, printed>> /\ UNCHANGED dbVars
      BY <2>2 DEF Open
    <3>2. \A q \in Commands : pc[q] # "using"
      BY <3>1, <2>0 DEF ReadInv, LockInv, NoOne
    <3>3. printed' = [i \in 1 .. 0 |-> Answer(i)']
      BY <3>1, <3>2, <2>0 DEF ReadInv, DumpInv
    <3>4. ProcType' /\ LockInv'
      BY <3>1, <3>2 DEF ReadInv, ProcType, LockInv
    <3>5. DumpInv'
      BY <3>1, <3>2, <3>3, <2>0 DEF ReadInv, ProcType, DumpInv
    <3> QED
      BY <3>4, <3>5 DEF ReadInv
  <2>3. ASSUME NEW p \in Commands, OpenTimeout(p) \/ Crash(p) PROVE ReadInv'
    BY <2>3, ExitKeepsReads DEF OpenTimeout, Crash
  <2>4. CASE Stop \/ HealthCheckClose \/ DumpStateClose
    BY <2>0, <2>4, ExitKeepsReads DEF Stop, HealthCheckClose, DumpStateClose
  <2>5. CASE DumpField
    BY <2>5, FieldKeepsReads
  <2>6. CASE SaveConfig \/ SaveSession \/ RecordHeartbeat
    BY <2>6, WriteKeepsReads DEF SaveConfig, SaveSession, RecordHeartbeat, procVars
  <2>7. CASE \E j \in Jobs : EnqueueJob(j) \/ AckJob(j)
    BY <2>7, WriteKeepsReads DEF EnqueueJob, AckJob, procVars
  <2>8. CASE \/ \E t \in Times : BufferLog(t)
             \/ \E n \in 1 .. DrainMax : DrainLogs(n)
    BY <2>8, WriteKeepsReads DEF BufferLog, DrainLogs, procVars
  <2>9. CASE UNCHANGED vars
    <3>1. UNCHANGED <<pc, key, holder, printed>> /\ UNCHANGED dbVars
      BY <2>9 DEF vars, procVars
    <3>2. \A i \in 1 .. 5 : Answer(i)' = Answer(i)
      BY <3>1, SameAnswer
    <3> QED
      BY <3>1, <3>2 DEF ReadInv, ProcType, LockInv, DumpInv
  <2> QED
    BY <2>1, <2>2, <2>3, <2>4, <2>5, <2>6, <2>7, <2>8, <2>9 DEF Next
<1>3. ReadInv => DumpIsOneState
  BY DEF ReadInv, DumpInv, DumpIsOneState, Answer
<1> QED
  BY <1>1, <1>2, <1>3, PTL DEF Spec

=============================================================================
