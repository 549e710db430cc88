-------------------------------- MODULE Store --------------------------------
(***************************************************************************)
(* The agent's state.db and the commands that open it: agent run,          *)
(* health-check and dump-state.  Each is a process that loads its          *)
(* configuration, opens the bolt file under an exclusive lock it waits for *)
(* a few seconds, works on it in transactions and closes it; any of them   *)
(* may be killed at any moment, which releases the lock.                   *)
(*                                                                         *)
(* A sealed value is the agent key it was sealed with; Nothing is an       *)
(* absent one.  A bolt transaction is one step: it commits as a whole or   *)
(* changes nothing.                                                        *)
(***************************************************************************)
EXTENDS Integers, Sequences, FiniteSets, AgentConfig

CONSTANTS
  Jobs,      \* keys of the queue bucket
  Times,     \* timestamps of log lines
  MaxLogs,   \* bound: log lines that are buffered
  DrainMax   \* log lines a DrainLogs asks for at most

Nothing == "nothing"
NoOne   == "no one"

ASSUME StoreAssumption ==
  /\ MaxLogs \in Nat /\ DrainMax \in Nat /\ Times \subseteq Nat
  /\ Nothing \notin AgentKeys

VARIABLES
  pc,       \* per command: "off", "open" (waiting for the lock) or "using"
  key,      \* per command: its agent key, while it runs
  holder,   \* who holds the lock of the bolt file
  config,   \* config bucket: the sealed configuration
  session,  \* registry: the sealed session id
  beat,     \* registry: a heartbeat has been recorded
  queue,    \* queue bucket: per job its sealed payload
  logs,     \* logs bucket: records of key (time, seq) and sealed value
  logSeq,   \* the bucket's sequence
  drained,  \* history: the sequence numbers DrainLogs has returned
  printed,  \* what dump-state has put into its output so far
  up        \* history: an agent has been using its store since the health
            \* check that is under way was started

dbVars   == <<config, session, beat, queue, logs, logSeq>>
procVars == <<pc, key, holder, up>>
vars     == <<procVars, dbVars, drained, printed>>

Commands == {"run", "health-check", "dump-state"}

\* open succeeds on what was sealed with the same agent key, and fails on
\* everything else.
Opened(p, v) == v # Nothing /\ v = key[p]

-----------------------------------------------------------------------------
(***************************************************************************)
(* A command's life.                                                       *)
(***************************************************************************)
\* It starts and loads its configuration, of which the store is given the agent
\* key.  One that Load refuses ends there.
Start(p) ==
  /\ pc[p] = "off"
  /\ \E k \in {e.key : e \in Accepted} : key' = [key EXCEPT ![p] = k]
  /\ pc' = [pc EXCEPT ![p] = "open"]
  /\ up' = IF p = "health-check" THEN pc["run"] = "using" ELSE up
  /\ UNCHANGED <<holder, dbVars, drained, printed>>

\* Mutant: the file is opened for reading with a shared lock.
OpenShared(p) ==
  /\ pc[p] = "open"
  /\ pc' = [pc EXCEPT ![p] = "using"]
  /\ holder' = IF holder = NoOne THEN p ELSE holder
  /\ UNCHANGED <<key, up, dbVars, drained, printed>>

\* state.Open gets the lock.  The buckets it makes sure of are there from the
\* first Open on.  Nothing is decrypted, so any key will do.
Open(p) ==
  /\ pc[p] = "open" /\ holder = NoOne
  /\ pc' = [pc EXCEPT ![p] = "using"]
  /\ holder' = p
  /\ UNCHANGED <<key, up, dbVars, drained, printed>>

\* The process is over and a lock it had is free.
Exit(p) ==
  /\ pc' = [pc EXCEPT ![p] = "off"]
  /\ key' = [key EXCEPT ![p] = Nothing]
  /\ holder' = IF holder = p THEN NoOne ELSE holder
  /\ up' = (up /\ p \notin {"run", "health-check"})
  /\ printed' = IF p = "dump-state" THEN <<>> ELSE printed
  /\ UNCHANGED <<dbVars, drained>>

\* The lock was held by somebody else for as long as Open waits, and the
\* command exits with 1.
OpenTimeout(p) == pc[p] = "open" /\ holder # NoOne /\ Exit(p)

Crash(p) == pc[p] # "off" /\ Exit(p)

\* A signal ends the agent's loop and the deferred Close runs.
Stop == pc["run"] = "using" /\ Exit("run")

\* The health check closes what it opened, prints ok and exits with 0.
HealthCheckClose == pc["health-check"] = "using" /\ Exit("health-check")

-----------------------------------------------------------------------------
(***************************************************************************)
(* What the agent does with its store.                                     *)
(***************************************************************************)
Agent == pc["run"] = "using"
Key   == key["run"]

SaveConfig ==
  /\ Agent
  /\ config' = Key
  /\ UNCHANGED <<procVars, session, beat, queue, logs, logSeq, drained, printed>>

SaveSession ==
  /\ Agent
  /\ session' = Key
  /\ UNCHANGED <<procVars, config, beat, queue, logs, logSeq, drained, printed>>

RecordHeartbeat ==
  /\ Agent
  /\ beat' = TRUE
  /\ UNCHANGED <<procVars, config, session, queue, logs, logSeq, drained, printed>>

EnqueueJob(j) ==
  /\ Agent
  /\ queue' = [queue EXCEPT ![j] = Key]
  /\ UNCHANGED <<procVars, config, session, beat, logs, logSeq, drained, printed>>

AckJob(j) ==
  /\ Agent
  /\ queue' = [queue EXCEPT ![j] = Nothing]
  /\ UNCHANGED <<procVars, config, session, beat, logs, logSeq, drained, printed>>

\* Mutant: the key of a log line is its time alone.
BufferLogByTime(t) ==
  /\ Agent /\ logSeq < MaxLogs
  /\ logSeq' = logSeq + 1
  /\ logs' = {l \in logs : l.time # t} \cup {[time |-> t, seq |-> logSeq + 1, by |-> Key]}
  /\ UNCHANGED <<procVars, config, session, beat, queue, drained, printed>>

\* BufferLog: a key of time and the bucket's next sequence number.
BufferLog(t) ==
  /\ Agent /\ logSeq < MaxLogs
  /\ logSeq' = logSeq + 1
  /\ logs' = logs \cup {[time |-> t, seq |-> logSeq + 1, by |-> Key]}
  /\ UNCHANGED <<procVars, config, session, beat, queue, drained, printed>>

\* The order of the keys, and the first n records in it.
LogBefore(a, b) == a.time < b.time \/ (a.time = b.time /\ a.seq < b.seq)
FirstLogs(n) ==
  {l \in logs : Cardinality({m \in logs : LogBefore(m, l)}) < n}

\* DrainLogs: returned and deleted in one transaction, unless one of them
\* cannot be opened: then nothing is returned and nothing deleted.
DrainLogs(n) ==
  /\ Agent
  /\ LET first == FirstLogs(n)
     IN  /\ \A l \in first : Opened("run", l.by)
         /\ logs' = logs \ first
         /\ drained' = drained \cup {l.seq : l \in first}
  /\ UNCHANGED <<procVars, config, session, beat, queue, logSeq, printed>>

-----------------------------------------------------------------------------
(***************************************************************************)
(* dump-state: one transaction per field, an error leaves the field out.   *)
(***************************************************************************)
\* LoadConfig, LoadSession, LastHeartbeat, QueueDepth and, with
\* --allow-secrets, DequeueJobs, which fails as a whole.
Fields == <<"config", "session", "beat", "depth", "queue">>
Read(p, f) ==
  CASE f = "config"  -> Opened(p, config)
    [] f = "session" -> Opened(p, session)
    [] f = "beat"    -> beat
    [] f = "depth"   -> Cardinality({j \in Jobs : queue[j] # Nothing})
    [] f = "queue"   -> LET there == {j \in Jobs : queue[j] # Nothing}
                        IN  IF \A j \in there : Opened(p, queue[j]) THEN there ELSE {}

DumpField ==
  /\ pc["dump-state"] = "using" /\ Len(printed) < Len(Fields)
  /\ printed' = Append(printed, Read("dump-state", Fields[Len(printed) + 1]))
  /\ UNCHANGED <<procVars, dbVars, drained>>

\* The output is written when all is read; the queue only with the flag.
DumpStateClose ==
  /\ pc["dump-state"] = "using" /\ Len(printed) >= Len(Fields) - 1
  /\ Exit("dump-state")

-----------------------------------------------------------------------------
Init ==
  /\ pc = [p \in Commands |-> "off"] /\ key = [p \in Commands |-> Nothing]
  /\ holder = NoOne /\ up = FALSE
  /\ config = Nothing /\ session = Nothing /\ beat = FALSE
  /\ queue = [j \in Jobs |-> Nothing]
  /\ logs = {} /\ logSeq = 0
  /\ drained = {} /\ printed = <<>>

Next ==
  \/ \E p \in Commands : Start(p) \/ Open(p) \/ OpenTimeout(p) \/ Crash(p)
  \/ Stop \/ HealthCheckClose \/ DumpField \/ DumpStateClose
  \/ SaveConfig \/ SaveSession \/ RecordHeartbeat
  \/ \E j \in Jobs : EnqueueJob(j) \/ AckJob(j)
  \/ \E t \in Times : BufferLog(t)
  \/ \E n \in 1 .. DrainMax : DrainLogs(n)

Spec == Init /\ [][Next]_vars

-----------------------------------------------------------------------------
(* Properties. *)

\* Every log line that was buffered is in the bucket or was returned by a
\* DrainLogs, and not both: lines of the same time do not overwrite each other,
\* a drain that meets a record of another agent key takes nothing away, and a
\* crash neither loses a line nor brings one back.
LogsOnce ==
  /\ {l.seq : l \in logs} \cup drained = 1 .. logSeq
  /\ {l.seq : l \in logs} \cap drained = {}

\* What dump-state prints is one state of the store, although it reads it in
\* five transactions and an agent may be starting, stopping or crashing.
DumpIsOneState ==
  pc["dump-state"] = "using" =>
    \A i \in DOMAIN printed : printed[i] = Read("dump-state", Fields[i])

\* main.go: "agent health-check - used as Docker HEALTHCHECK; exits 0 when
\* healthy": no health check fails while an agent has been up and using its
\* store from before the check's start until after its end.
RunningAgentIsHealthy == [][OpenTimeout("health-check") => ~up]_vars
=============================================================================
