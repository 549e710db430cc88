------------------------------- MODULE Drivers -------------------------------
(***************************************************************************)
(* What one backup run asks of the programs around it: the driver's        *)
(* Validate, a pre-hook, and the driver's Dump, for the five drivers.      *)
(* pg_dump, mysqldump and mongodump stream a tool's output; sqlite has     *)
(* sqlite3 fill a temp file and compresses that; redis asks the server for *)
(* a snapshot, waits for it and reads the server's file.  The programs     *)
(* that stream or may be slow run as in Exec; a short probe (runner.Output)*)
(* is one step that succeeds or fails.                                     *)
(*                                                                         *)
(* The redis server is part of the environment: clients write to it, it    *)
(* saves its data for others too, and LASTSAVE tells whole seconds.  A     *)
(* save replaces the file when it is complete.                             *)
(***************************************************************************)
EXTENDS Exec

CONSTANTS
  MaxWrites,     \* bound: writes of redis clients
  MaxNow,        \* bound: seconds that pass
  PollTimeout,   \* seconds waitForSave waits (300)
  HookedKinds    \* bound: drivers whose job may have a pre-hook

ASSUME DriversAssumption ==
  /\ {MaxWrites, MaxNow} \subseteq Nat
  /\ PollTimeout \in Nat

VARIABLES
  kind,     \* the driver
  target,   \* the job's target: "good", "nil", or for sqlite "nopath", "nofile"
  pc,       \* where the run stands
  probe,    \* probes of Validate done
  res,      \* "none" yet, "ok", "error", or "timeout" of waitForSave
  outcome,  \* what RunHook makes of the hook: "none" yet, "ok", "timeout",
            \* "cancelled", "nonzero" or "failed"
  tmp,      \* sqlite's temp file exists
  now,      \* the time in seconds
  data,     \* writes the redis server has seen
  saving,   \* writes in the snapshot being saved, or NoSave
  lastsave, \* second of the last save, as LASTSAVE tells it
  rdb,      \* writes in the server's file
  prev,     \* Dump's prevSave
  deadline, \* waitForSave's
  src,      \* writes in the file Dump has opened
  data0,    \* history: writes the server had seen when Dump began
  busy0     \* history: a save was under way when Dump began

redisVars == <<now, data, saving, lastsave, rdb>>
dumpVars  == <<prev, deadline, src, data0, busy0>>
mainVars  == <<pc, probe, res, outcome, tmp>>
fixedVars == <<kind, target>>
vars      == <<execVars, fixedVars, mainVars, redisVars, dumpVars>>

NoSave == -1
Tools  == {"pg_dump", "mysqldump", "mongodump"}
Kinds  == Tools \cup {"sqlite", "redis"}

\* Dump or Validate returns; the deferred os.Remove is part of it.
Return(r) ==
  /\ pc' = "done" /\ res' = r /\ tmp' = FALSE
  /\ UNCHANGED <<probe, outcome>>

Goto(l) == pc' = l /\ UNCHANGED <<probe, res, outcome, tmp>>

-----------------------------------------------------------------------------
(***************************************************************************)
(* Validate: the probes of each driver, in their order.                    *)
(***************************************************************************)
PgProbes     == <<"version", "schema-only dump">>
MysqlProbes  == <<"version", "no-data dump">>
MongoProbes  == <<"version">>
SqliteProbes == <<"version", "stat">>
RedisProbes  == <<"version", "PING">>

Probes ==
  CASE kind = "pg_dump" -> PgProbes
    [] kind = "mysqldump" -> MysqlProbes
    [] kind = "mongodump" -> MongoProbes
    [] kind = "sqlite" -> SqliteProbes
    [] kind = "redis" -> RedisProbes

\* A probe that is a command needs a live context; stat does not, but a file.
ProbeCanPass ==
  IF Probes[probe + 1] = "stat" THEN target # "nofile" ELSE ctx = "live"

ValidateProbe ==
  /\ pc = "validate" /\ target \notin {"nil", "nopath"}
  /\ probe < Len(Probes) /\ ProbeCanPass
  /\ probe' = probe + 1
  /\ UNCHANGED <<pc, res, outcome, tmp, execVars, fixedVars, redisVars, dumpVars>>

\* A bad target, or a probe that fails or answers something else.
ValidateFail ==
  /\ pc = "validate" /\ probe < Len(Probes)
  /\ Return("error")
  /\ UNCHANGED <<execVars, fixedVars, redisVars, dumpVars>>

\* Validate is over; the job has a pre-hook or none.
ValidateOk ==
  /\ pc = "validate" /\ probe = Len(Probes)
  /\ Goto("dump") \/ (kind \in HookedKinds /\ Goto("hook"))
  /\ UNCHANGED <<execVars, fixedVars, redisVars, dumpVars>>

-----------------------------------------------------------------------------
(***************************************************************************)
(* RunHook.                                                                *)
(***************************************************************************)
HookStart ==
  /\ pc = "hook"
  /\ Spawn("hook") \/ SpawnFail("hook")
  /\ Goto("hooking")
  /\ UNCHANGED <<fixedVars, redisVars, dumpVars>>

\* How a hook's end is told: its own success first, then why its context is
\* done, then its exit status.
HookOutcome ==
  CASE run = "nil" -> "ok"
    [] run # "nil" /\ cause = "deadline" -> "timeout"
    [] run # "nil" /\ cause = "cancelled" -> "cancelled"
    [] run = "exit" /\ cause = "none" -> "nonzero"
    [] OTHER -> "failed"

\* A pre-hook that fails ends the run before the dump.
HookReturn ==
  /\ pc = "hooking" /\ run # "none"
  /\ outcome' = HookOutcome
  /\ IF outcome' = "ok"
     THEN pc' = "dump" /\ UNCHANGED res
     ELSE pc' = "done" /\ res' = "error"
  /\ UNCHANGED <<probe, tmp, execVars, fixedVars, redisVars, dumpVars>>

-----------------------------------------------------------------------------
(***************************************************************************)
(* Dump with a tool: run it, then ask it for its version, whose failure    *)
(* does not matter.                                                        *)
(***************************************************************************)
ToolStart(k) ==
  /\ kind = k /\ pc = "dump"
  /\ IF target = "nil"
     THEN Return("error") /\ UNCHANGED execVars
     ELSE (Spawn("tool") \/ SpawnFail("tool")) /\ Goto("streaming")

ToolReturn(k) ==
  /\ kind = k /\ pc = "streaming" /\ run # "none"
  /\ IF run = "nil" THEN Goto("version") ELSE Return("error")
  /\ UNCHANGED execVars

Version(k) ==
  /\ kind = k /\ pc = "version"
  /\ Return("ok")
  /\ UNCHANGED execVars

ToolDump(k) ==
  /\ ToolStart(k) \/ ToolReturn(k) \/ Version(k)
  /\ UNCHANGED <<fixedVars, redisVars, dumpVars>>

PgDump    == ToolDump("pg_dump")
Mysqldump == ToolDump("mysqldump")
MongoDump == ToolDump("mongodump")

-----------------------------------------------------------------------------
(***************************************************************************)
(* sqlite: .backup into a temp file, gzip of that file.                    *)
(***************************************************************************)
SqliteStart ==
  /\ kind = "sqlite" /\ pc = "dump"
  /\ \/ /\ target = "good"
        /\ Spawn("backup") \/ SpawnFail("backup")
        /\ pc' = "streaming" /\ tmp' = TRUE
        /\ UNCHANGED <<probe, res, outcome>>
     \/ Return("error") /\ UNCHANGED execVars   \* a check, or CreateTemp
  /\ UNCHANGED <<fixedVars, redisVars, dumpVars>>

SqliteReturn ==
  /\ kind = "sqlite" /\ pc = "streaming" /\ run # "none"
  /\ \/ run = "nil" /\ Goto("copy")
     \/ Return("error")   \* sqlite3's error, or the file cannot be opened
  /\ UNCHANGED <<execVars, fixedVars, redisVars, dumpVars>>

\* io.Copy to the gzip writer, of sqlite's temp file or the server's file.
Copying == pc = "copy"
Snapshot == IF kind = "sqlite" THEN filled ELSE Work

CopyChunk ==
  /\ Copying /\ ~broken /\ dumped < Snapshot
  /\ dumped' = dumped + 1
  /\ UNCHANGED <<procVars, copyVars, filled, ctx, cause, run, broken, mainVars,
                 fixedVars, redisVars, dumpVars>>

\* The file cannot be read on, or the pipeline is closed.
CopyError ==
  /\ Copying
  /\ Return("error")
  /\ UNCHANGED <<execVars, fixedVars, redisVars, dumpVars>>

\* The copy is at its end and the gzip trailer is written.
CopyClose ==
  /\ Copying /\ ~broken /\ dumped = Snapshot
  /\ Goto("version")
  /\ UNCHANGED <<execVars, fixedVars, redisVars, dumpVars>>

SqliteVersion ==
  /\ Version("sqlite")
  /\ UNCHANGED <<fixedVars, redisVars, dumpVars>>

-----------------------------------------------------------------------------
(***************************************************************************)
(* redis: LASTSAVE, BGSAVE, LASTSAVE until it advances, CONFIG GET, read.  *)
(***************************************************************************)
AtRedis(l) == kind = "redis" /\ pc = l

\* Mutant: the agent's clock instead of the server's LASTSAVE.
RedisLastSaveByClock ==
  /\ AtRedis("dump") /\ target = "good" /\ ctx = "live"
  /\ prev' = now
  /\ data0' = data /\ busy0' = (saving # NoSave)
  /\ Goto("bgsave")
  /\ UNCHANGED <<deadline, src, execVars, fixedVars, redisVars>>

\* prevSave, before BGSAVE.
RedisLastSave ==
  /\ AtRedis("dump") /\ target = "good" /\ ctx = "live"
  /\ prev' = lastsave
  /\ data0' = data /\ busy0' = (saving # NoSave)
  /\ Goto("bgsave")
  /\ UNCHANGED <<deadline, src, execVars, fixedVars, redisVars>>

\* The server begins a save, or answers that one is under way: redis-cli
\* exits with 0 either way.
RedisBgsave ==
  /\ AtRedis("bgsave") /\ ctx = "live"
  /\ saving' = IF saving = NoSave THEN data ELSE saving
  /\ deadline' = now + PollTimeout
  /\ Goto("poll")
  /\ UNCHANGED <<now, data, lastsave, rdb, prev, src, data0, busy0, execVars,
                 fixedVars>>

\* Mutant: a save in the second of the previous one counts too.
RedisPollNotOlder ==
  /\ AtRedis("poll") /\ ctx = "live"
  /\ Goto(IF lastsave >= prev THEN "locate" ELSE "late")
  /\ UNCHANGED <<execVars, fixedVars, redisVars, dumpVars>>

\* Mutant: the loop does not look at the context.
RedisPollUncancelled ==
  /\ AtRedis("poll")
  /\ Goto(IF lastsave > prev THEN "locate" ELSE "late")
  /\ UNCHANGED <<execVars, fixedVars, redisVars, dumpVars>>

\* waitForSave: the save is there when LASTSAVE is later than before.
RedisPoll ==
  /\ AtRedis("poll") /\ ctx = "live"
  /\ Goto(IF lastsave > prev THEN "locate" ELSE "late")
  /\ UNCHANGED <<execVars, fixedVars, redisVars, dumpVars>>

\* waitForSave: too late, or once more after the poll interval.
RedisLate ==
  /\ AtRedis("late")
  /\ IF now > deadline THEN Return("timeout") ELSE Goto("poll")
  /\ UNCHANGED <<execVars, fixedVars, redisVars, dumpVars>>

\* CONFIG GET dir and dbfilename, and the open of the file: what is read from
\* then on is that file, even if a later save replaces it.
RedisOpen ==
  /\ AtRedis("locate") /\ ctx = "live"
  /\ src' = rdb
  /\ Goto("copy")
  /\ UNCHANGED <<prev, deadline, data0, busy0, execVars, fixedVars, redisVars>>

\* A command fails or is cancelled, or there is no such file on this host.
RedisError ==
  /\ \E l \in {"dump", "bgsave", "poll", "locate"} : AtRedis(l)
  /\ Return("error")
  /\ UNCHANGED <<execVars, fixedVars, redisVars, dumpVars>>

\* ctx.Done during the poll interval.
RedisCancelled ==
  /\ AtRedis("late") /\ ctx = "cancelled"
  /\ Return("error")
  /\ UNCHANGED <<execVars, fixedVars, redisVars, dumpVars>>

RedisVersion ==
  /\ Version("redis")
  /\ UNCHANGED <<fixedVars, redisVars, dumpVars>>

-----------------------------------------------------------------------------
(***************************************************************************)
(* The redis server and its other clients.                                 *)
(***************************************************************************)
\* Nothing is read from the server before Dump, so what it does earlier is
\* what it does before Dump's first step.
RedisUp == kind = "redis" /\ pc \notin {"validate", "hook", "hooking", "done"}

ServerWrite ==
  /\ RedisUp /\ data < MaxWrites
  /\ data' = data + 1
  /\ UNCHANGED <<now, saving, lastsave, rdb, execVars, fixedVars, mainVars, dumpVars>>

\* A save point, or another client's BGSAVE.
ServerSave ==
  /\ RedisUp /\ saving = NoSave
  /\ saving' = data
  /\ UNCHANGED <<now, data, lastsave, rdb, execVars, fixedVars, mainVars, dumpVars>>

ServerSaved ==
  /\ RedisUp /\ saving # NoSave
  /\ rdb' = saving /\ lastsave' = now /\ saving' = NoSave
  /\ UNCHANGED <<now, data, execVars, fixedVars, mainVars, dumpVars>>

ServerSaveFails ==
  /\ RedisUp /\ saving # NoSave
  /\ saving' = NoSave
  /\ UNCHANGED <<now, data, lastsave, rdb, execVars, fixedVars, mainVars, dumpVars>>

Tick ==
  /\ RedisUp /\ now < MaxNow
  /\ now' = now + 1
  /\ UNCHANGED <<data, saving, lastsave, rdb, execVars, fixedVars, mainVars, dumpVars>>

-----------------------------------------------------------------------------
Init ==
  /\ ExecInit
  /\ kind \in Kinds
  /\ target \in {"good", "nil"} \cup
                IF kind = "sqlite" THEN {"nopath", "nofile"} ELSE {}
  /\ pc = "validate" /\ probe = 0 /\ res = "none" /\ outcome = "none"
  /\ tmp = FALSE
  /\ now = 0 /\ data = 0 /\ saving = NoSave /\ lastsave = 0 /\ rdb = 0
  /\ prev = 0 /\ deadline = 0 /\ src = 0 /\ data0 = 0 /\ busy0 = FALSE

DriverNext ==
  \/ ValidateProbe \/ ValidateFail \/ ValidateOk \/ HookStart \/ HookReturn
  \/ PgDump \/ Mysqldump \/ MongoDump
  \/ SqliteStart \/ SqliteReturn \/ SqliteVersion
  \/ CopyChunk \/ CopyError \/ CopyClose
  \/ RedisLastSave \/ RedisBgsave \/ RedisPoll \/ RedisLate \/ RedisOpen
  \/ RedisError \/ RedisCancelled \/ RedisVersion

ServerNext == ServerWrite \/ ServerSave \/ ServerSaved \/ ServerSaveFails \/ Tick

\* A step of exec's, while the run is not over.
ExecStep == pc # "done" /\ ExecNext /\ UNCHANGED <<fixedVars, mainVars, redisVars, dumpVars>>

Next == DriverNext \/ ExecStep \/ ServerNext
Spec == Init /\ [][Next]_vars

\* A step of exec's own goroutines.
CmdStep == pc # "done" /\ CmdNext /\ UNCHANGED <<fixedVars, mainVars, redisVars, dumpVars>>

\* Go's scheduler runs the agent's goroutines.  Nothing is assumed of a program
\* that has been started, of a hook's descendant, of the redis server or of
\* time: none of them has to go on or to end, and nobody has to cancel.
FairSpec == Spec /\ WF_vars(DriverNext) /\ WF_vars(CmdStep)

-----------------------------------------------------------------------------
(* Properties. *)

\* Types of the variables; a save is never dated in the future.
TypeOK ==
  /\ ExecTypeOK
  /\ kind \in Kinds /\ target \in {"good", "nil", "nopath", "nofile"}
  /\ pc \in {"validate", "hook", "hooking", "dump", "streaming", "copy",
             "version", "bgsave", "poll", "late", "locate", "done"}
  /\ probe \in 0 .. 2 /\ res \in {"none", "ok", "error", "timeout"}
  /\ outcome \in {"none", "ok", "timeout", "cancelled", "nonzero", "failed"}
  /\ tmp \in BOOLEAN /\ busy0 \in BOOLEAN
  /\ now \in 0 .. MaxNow /\ lastsave \in 0 .. now /\ prev \in 0 .. lastsave
  /\ data \in 0 .. MaxWrites /\ {rdb, src, data0} \subseteq 0 .. data
  /\ saving \in {NoSave} \cup 0 .. data
  /\ deadline \in 0 .. MaxNow + PollTimeout

Contract == INSTANCE Driver WITH
  Chunks <- Work,
  returned <- IF res = "timeout" THEN "error" ELSE res

\* Every driver keeps the contract of pipeline.Driver: whichever program,
\* goroutine, file or reader fails and whenever the context ends, success is
\* returned only after the whole archive, and nothing is written afterwards.
KeepsContract == Contract!Spec

\* A redis backup that succeeds holds every write the server had seen when the
\* dump began, unless a save was under way then: only in that case can another
\* save's end be taken for the end of the one the dump asked for.
StaleOnlyIfSaving ==
  kind = "redis" /\ res = "ok" /\ src < data0 => busy0

\* The buffers that keep the end of a program's output hold its last Cap bytes
\* in their order, however the writes were cut.
TailKept ==
  cmd \in {"backup", "hook"} =>
    LET n == Lesser(Cap, taken)
    IN  Kept = [i \in 1 .. n |-> taken - n + i]

\* pipeline.Driver: Dump "MUST honour ctx cancellation promptly".  A cancelled
\* run returns, and a hook whose time is up is over, whatever the programs do by
\* themselves, with two exceptions: a descendant of a hook holds its output for
\* ever, and a sqlite3 that is sent SIGINT goes on for ever.  exec waits for both
\* without a limit.
CancelHonoured ==
  /\ ctx = "cancelled" ~>
       (pc = "done" \/ []orphan \/ [](cmd = "backup" /\ proc = "running"))
  /\ pc = "hooking" /\ cause = "deadline" ~> (pc # "hooking" \/ []orphan)

=============================================================================
