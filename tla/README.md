# TLA+ models of the Backupy agent

The repository holds two programs: the **agent** (`apps/agent`), a daemon that
keeps one WebSocket to a control plane, runs database backups on request and
reports them, and **backupy-decrypt** (`apps/backupy-decrypt`), which restores a
backup offline. This directory models the agent's core and backupy-decrypt and
checks them with TLC. Every invariant the runs check, the action property and the
two refinements are also proved with TLAPS, for every value of the constants;
liveness is only model-checked.

## Inventory

| Component | State | Operations | What is hard | What makes it correct |
|---|---|---|---|---|
| WSS session (`internal/wss/client.go`, `loops.go`) | connection, `out` channel, sequence counter | `Start`, `runOnce`, `Send`, `handshake`, `replayQueue`, read/write/heartbeat loops | Send from any goroutine while connections come and go; replay before the writer runs; teardown of three loops | an accepted envelope is never lost silently; one connection pumps at a time; teardown ends |
| Backoff (`backoff.go`) | current delay | `Next`, `Reset` | never reset | delays bounded, schedule restarts after success |
| Queue (`internal/queue`, queue bucket of `internal/state`) | key → sealed envelope | `Enqueue`, `Pop`, `Ack` | keys built from a counter that restarts; byte order of keys; Ack before delivery | a record goes only when its envelope went on |
| State store (`internal/state`) | config, registry, queue and log buckets, all sealed; the file's lock | `Open`, `SaveConfig`, `LoadConfig`, `SaveSession`, `RecordHeartbeat`, `BufferLog`, `DrainLogs`, reads | one process at a time; wrong key; crashes; errors ignored by callers | a log line is kept and returned once; a reader sees one state |
| Configuration (`wss`, `cmd/agent/run.go`) | advertised version, snapshot, stored record | RegisterAck, ConfigUpdate, `resolve` | three copies set in different orders; restart between; two look-ups of one run | copies agree, never regress, converge |
| Pipeline (`internal/pipeline/runner.go`, `compress.go`, `encrypt.go`, `upload.go`) | four stages, three pipes, temp file | `Run` | any stage fails while others block on a pipe; programs and calls that hang | only whole backups are stored and reported; Run returns; nothing leaks |
| Hooks (`hooks.go`) | consumed time, ring buffer of output | `HookSet.Run`, `RunHook` | shared budget, cancelled contexts, descendants that hold the output, failing pre-hooks | post-hooks run; nothing but a descendant holds a hook; the end of the output is kept |
| Drivers (`pg_dump.go`, `mysqldump.go`, `mongodump.go`, `sqlite.go`, `redis.go`) | temp file; redis' save times | `Validate`, `Dump` | programs that fail, are killed or interrupted while their output is copied; LASTSAVE in whole seconds with other clients saving | success only after a whole dump, of data no older than the run; a cancelled run returns |
| Discovery (`internal/discovery`) | - | `Scan`, `BuildReport` | list and inspect are two looks at a changing host; image names; timeouts | what is reported is true, what stays is reported, no values of the environment |
| Agent configuration (`internal/config`) | - | `Load`, `Validate` | - | a command starts only with a complete configuration |
| Commands (`cmd/agent`) | the lock on state.db | `run`, `health-check`, `dump-state`, `version` | commands contend for the file | a dump is one state; the health check tells the truth |
| Metrics, logging, version, wire protocol | counters | - | - | - |
| backupy-decrypt | streams | `Run`, `decryptStream`, token checks | unordered chunks, output before verification | plaintext only from an intact backup |

Interaction: the reader dispatches server requests; a RunBackup starts a
goroutine that resolves its job in the configuration snapshot, runs the pipeline
under the *connection's* context and hands the result to `Send`; `Send` uses the
connection's channel or the queue bucket; `runOnce` replays the bucket into the
next connection's channel.

## Modules

| Module | Models | Composition |
|---|---|---|
| `WssClient` | session, queue bucket, senders, network, restarts | the composition of client, queue and store; treats a run as a step (`RunFinish`) and leaves configurations out |
| `WssClientProofs` | theorems about `WssClient`: types, phases, no silent loss | extends it |
| `WssOutboxProofs` | theorems about its numbers, keys and copies, and the refinement of `Outbox` | extends `WssClientProofs` |
| `ConfigSync` | configuration versions across server, client, snapshot and disk | same connection life cycle, reduced to what configurations need |
| `ConfigSyncProofs` | theorems about `ConfigSync` | extends it |
| `Pipeline` | one `Runner.Run` | `WssClient`'s `RunFinish` is its return, which `RunReturns` promises but for what hangs |
| `PipelineProofs` | theorems about `Pipeline` | extends it |
| `Decrypt` | one `Run` of backupy-decrypt, on any input file | reads what `Pipeline` calls a whole object: chunks and the end marker |
| `DecryptProofs` | theorems about `Decrypt` | extends it |
| `Outbox` | what a sender of envelopes may rely on: new, disk, conn, received, lost, refused | abstract; `WssClient!KeepsOutbox` is its refinement |
| `Exec` | one program run through os/exec: process, copying goroutine, signal, Wait; the two ring buffers | used by `Drivers` |
| `Drivers` | Validate, pre-hook and Dump of the five drivers, and a redis server | extends `Exec`; stands for the dump stage of `Pipeline` |
| `DriversProofs` | theorems about `Drivers` and `Exec`, the refinement of `Driver` among them | extends `Drivers` |
| `Driver` | the contract of `pipeline.Driver`, which `Pipeline`'s dump stage relies on | abstract; `Drivers!KeepsContract` is its refinement |
| `AgentConfig` | `config.Load` on classes of environments | used by `Store` |
| `Store` | state.db with its lock and buckets, and the commands that open it | extends `AgentConfig`; the queue and config buckets in the detail the session needs are in `WssClient` and `ConfigSync` |
| `StoreProofs` | theorems about `Store` | extends it |
| `Discovery` | one scan and the Docker host under it | its report is `WssClient`'s `DiscoveryScan` |
| `DiscoveryProofs` | theorems about `Discovery` | extends it |
| `MCWssClient`, `MCConfigSync`, `MCPipeline`, `MCDecrypt`, `MCDrivers`, `MCStore`, `MCDiscovery` | instances for TLC | |

### WssClient

`mpc` is the program counter of the goroutine of `Start`: `idle` (about to
dial), `dialed`, `acked` (RegisterAck read), `pop` and `replay` (inside
`replayQueue`), `pump` (loops running), `closing` (first loop has returned,
`connCtx` is cancelled), `backoff`, `stopped`. `outRef` is `Client.out` as the
number of the connection that made it, and `chan[g]` the contents of connection
`g`'s channel; channels of dead connections stay, since a `Send` may still hold
one. `snd[m]` is the progress of the one `Send` of message `m`, in the code's
steps: numbered (`seq`), channel read under `connMu` (`captured`), push or
fallback (`enqueue`), returned. Heartbeats are numbered by the writer. `queue` is
the queue bucket; a key is the number `N` of `seq-N` or a Ping's correlation id,
and `KeyBefore` is bolt's byte order of them. `delivered`, `handed` and
`clobbered` are history variables.

Abstractions: payloads, times and metrics are left out. A message is sent once
(a run ends in one report). The push and the Ack of one replayed record are one
step, since no other goroutine reads the channel before the writer starts. The
branch of `replayQueue` that drops an unparsable payload is left out: payloads
are authenticated and were marshalled by the same program. A Write that returns
nil on a link already cut loses the frame, as TCP does.

### ConfigSync

`ver` is `Client.configVersion`, `snap` the version in `configSnapshot`, `disk`
the config bucket with the key it is sealed with. `RegisterAck` and the
`Update...` actions follow the two orders of the code: version, save, snapshot
in `runOnce`; save, version, snapshot in `dispatch`. `LookupJob` and
`LookupTarget` are the two locked reads of `resolve`. The server is modelled from
how the client uses it: versions grow, frames arrive in order, RegisterAck
carries the current configuration; `ServerOmits` lets it leave out a version the
agent says it has.

### Pipeline

`stage`, `wend` and `rend` are the goroutines and the two ends of each `io.Pipe`;
a write and the read that takes it are one step. `got`, `fin` and `mark` count
what a stage has received: chunks, the zstd end frame, the encryption end
marker. A read from a pipe whose read end is closed is an error even after the
writer's eof, as in `io.Pipe`. The encoder may or may not flush when it is closed
after an error; both are allowed. Hooks take time units: a hook's shell ends or is
killed when its time is up, but Run waits for the output too, which a descendant may
hold longer (`held`), and the budget is charged with all of it; so it can be
overdrawn. `HookHold` bounds the extra time in the run. `hung` is what Run waits for
in vain: a probe of Validate, the dump or the PUT without an answer, which the end of
the context ends (`killable`), or a hook whose output is held for ever and a sqlite3
that ignores SIGINT, which nothing ends (`unkillable`).

### Decrypt

`pc` follows `Run`: `token`, `input` and `output` (the two opens), `loop` and
`write` (`decryptStream` between frames and in `w.Write`), `sink`, `await`
(`plaintextSink.Close`, waiting on `errCh`), `close`, `done`. The input file is a
sequence of items: the number of the chunk a frame holds, `Mark`, and `Cut`,
`Damaged` and `Size` for a frame that ends early, does not authenticate or has an
impossible length; the model ranges over all such sequences, not only over the
agent's `Stream`. `pos` counts the items read, and so hashed. `dec` is the zstd
goroutine, `fed` what it has taken from the pipe. Assumed of the libraries: a
damaged frame or a foreign key fails `aead.Open`; zstd accepts concatenated whole
streams and nothing else, but may write what it decoded before it finds out; and
it may fail in the middle of the chunk that is being written. `checked` stands
for `VerifySHA256` with a hash in the token.

### Outbox

Seen from outside, a message is `new`, then on `disk` or with the connection
(`conn`), and ends `received`, `lost` or `refused`. `WssClient!Fate` is the
refinement mapping: what is in a popped batch still counts as on disk, what the
writer holds or the network carries as with the connection. `Outbox` allows two
losses the code has: a channel that was captured before the connection ended
(`Accept` to `lost`), and a record overwritten by another's after a restart,
because sequence numbers start again and are the keys.

### Exec and Drivers

`proc` is the program (`running`, `zombie`, `reaped`), `copy` the goroutine of
exec.Cmd that takes its output, `cause` why the context is done and `run` what
`Cmd.Run` returned. Tools (pg_dump, mysqldump, mongodump) write a chunk per unit
of work into the pipe and are killed; sqlite3's `.backup` fills a temp file and is
sent SIGINT, which it may ignore or answer with exit code 0; hooks may leave a
descendant with their output. Wait needs the end of the process and of the copy,
since nobody sets WaitDelay. `ring` and `Kept` follow the ring buffer's slices and
positions, bytes being numbered. In `Drivers`, `pc` is the place in Validate, the
hook or Dump; `data`, `saving`, `rdb` and `lastsave` are the redis server, which
saves for other clients too. A refused BGSAVE does not make redis-cli fail, so
Dump goes on to poll in that case.

### Store and AgentConfig

Each command is a process: `off`, `open` (loaded its configuration, waits for the
lock) or `using`. A sealed value is the key it is sealed with, a transaction one
step. A killed process frees the lock. `Start` chooses any environment `Load`
accepts, of which only the agent key matters to the store. dump-state reads its fields one transaction at a time (`DumpField`).
`BufferLog` and `DrainLogs` are modelled as the store offers them, although
nothing in the agent calls them.

### Discovery

An image reference is registry host, path, tag and digest; words of the path are
cut where the prefix rules may cut them, so that `postgresql` is an extension of
`postgres`. What an image really is (`db`) is independent of its name: an engine, none,
or another product of a vendor whose name is a rule. The host has containers that start, die, go away, change their
networks, or whose tag moves to another image, after which the list shows an
image id. Ports go through decimal digits and back. `DiscoveryAssumption` says what
the daemon's answers are like: ports are 16-bit numbers, and a published port is
not also listed without a host port; that a reference has a name; and that no
variable's value is the word `set`, which would make a hint look like a leak. Names,
labels and HTTP are left out.

## Runs

| Run | Bounds | Shows |
|---|---|---|
| `wss_process` | 1 run, 1 report, 2 connections, channel of 1, store may fail | `Accounted`, `NoClobberInOneProcess`, `LoopsEndWithConnection`, `SeqIdentifiesEnvelope`; under fairness `TeardownCompletes`, `HandedIsDelivered`, `RunsReport` |
| `wss_restart` | 1 report, 1 Ping, 1 restart, 2 connections, channel of 1, 1 extra heartbeat | `PhaseInv`, `AtMostOnce`, and `KeepsOutbox`: the session implements `Outbox` |
| `wss_loss` | 1 run, 2 connections | **violation** of `NoRunLost` |
| `wss_wedge` | 2 runs, channel of 1 | **violation** of `ReplayReturns` |
| `config_sync` | 3 versions, 2 runs, 3 connections, 1 restart, 2 agent keys | `AdvertisedIsApplied`, `RunSeesPriorConfig`, `NoRegress`; under fairness `Converges` |
| `pipeline` | 3 chunks, 2 pre- and 3 post-hooks of which 2 run, budget 3, output held for 1 unit or for ever | `OnlyWholeBackups`, `NothingOutlivesRun`, `NoSpuriousFailure`, `PostHooksAfterDump`; under fairness `RunReturns` |
| `decrypt` | backup of 2 chunks, every file of up to 4 items, every token and option | `OkMeansAll`, `VerifiedIsBackup`, `OnlyOpenedChunks`, `OldOutputKept`, `OutputSettled`; under fairness `GoodFileRestored`, `Returns` |
| `decrypt_hang` | the same, up to 3 items | **violation** of `DrainErrorReturned` |
| `drivers` | 2 chunks, ring of 3 bytes with bursts of up to 3, 2 writes and 3 seconds of the redis server, timeout of 1 second, hooks for a killed and an interrupted driver | `KeepsContract` (the drivers implement `Driver`), `StaleOnlyIfSaving`, `TailKept`; under fairness `CancelHonoured` |
| `store` | 2 keys, 1 job, 2 times, 2 log lines | `LogsOnce`, `DumpIsOneState` |
| `health_check` | 1 key | **violation** of `RunningAgentIsHealthy` |
| `discovery` | 2 containers, 9 kinds of image, 1 change per scan | `ReportSound`, `StableIsReported` |

Why the bounds suffice. Two connections allow everything between a connection
and its successor: a channel captured before and used after a break, replay into
the next channel. With a channel of one slot the full channel, which
needs 64 envelopes in production, is common. Two messages are enough for a
collision of keys and numbers; `wss_restart` has a Ping because its key is of the
other kind. A Ping's key does not collide with a report's, so the overwriting
that `Outbox` allows does not happen in this run; with two reports it does, and
`SessionKeepsOutbox` proves the refinement for that case too. In `Pipeline` three chunks let each of the three
stages hold one while another fails. Four items hold the two chunks, the marker
and one more: everything truncated, exchanged, repeated, missing, damaged or
trailing. A ring of three bytes with writes of one to three wraps at every
offset, is filled exactly and is overwritten as a whole; three seconds hold a save
before Dump, one in the same second and one after it. Two log lines can have the
same time, the other order of times, or different keys. One change per scan and
two containers put every change before the list, between list and inspect, and
between two inspects. The last connection of `WssClient` and `ConfigSync` never
breaks: liveness is about what happens when the network stays up. All cfg files
but `discovery` switch deadlock checking off because the bounded systems do stop
(`stopped`, `returned`, no connections or log lines left); that nothing hangs is
stated by the liveness properties instead.

Exceptions the properties name, each a thing the code does. `StaleOnlyIfSaving`:
when a save is under way as Dump begins, BGSAVE is refused and the end of that
older save is taken for the run's own, so the backup may miss the newest writes.
`CancelHonoured`: a hook's descendant that holds its output, or a sqlite3 that goes on
after SIGINT, keeps the run waiting; programs are not assumed to end by themselves, so
everything else ends because of the signal, the closed pipe or the poll of the context.
`RunReturns`: the same two, and in a run that nobody cancels a program or a PUT that
hangs. `RunsReport`: a run that does not return. `HandedIsDelivered`: an envelope dies
with its connection (`wss_loss`), also one that a Send pushed after the loops had ended
and before `out` was cleared, or sits in a live connection that replay has blocked
(`wss_wedge`). `Converges`: an agent that is started with another key.
`OkMeansAll`: frames in another order, when the hash is not checked.
`StableIsReported`: a namespace that is not in the table (`library/postgres:16`,
`ghcr.io/example/postgres:16`), a registry host without a dot, a name that is not in it,
an alias with a tag (`postgresql:16`) among them, a container whose tag was moved, and a
container whose inspect failed (after the scan's 30 seconds that is every one that is
left) are not in the report, which is sent all the same. `ReportSound`: another product
of a vendor whose name is a rule counts as the engine of that rule (`redis/redisinsight`
as redis, `percona/percona-server-mongodb` as mysql).

What the violations mean. `wss_loss`: `Send` returns nil after the push into
memory, and the channel dies with its connection, so a report is lost although
the README promises otherwise. `wss_wedge`: the code's numbers are 100 records
per Pop and 64 slots. `decrypt_hang`: nobody closes the read end of the pipe when the zstd goroutine
ends, so a full disk, or data that is not zstd, leaves `decryptStream` in a write
that never returns; signals are only looked at between frames.
`health_check`: agent run holds the lock of state.db while it lives, and the
health check needs that lock, so it fails exactly while an agent is up.

More disagreements between the code and what the repository says of it are known.
No run is kept for them; the models do what the code does, and the properties say what
does hold.

* Post-hooks do not run when a pre-hook has failed, although runner.go:212 says that
  they "fire on every exit path"; see `PostHooksAfterDump`.
* hooks.go:15-19 says that timeout and budget are there "so a wedged hook cannot keep an
  agent process pinned forever". RunHook kills the shell only and sets no WaitDelay, so
  a descendant that holds the output does just that (`HookHangs`), and the time it takes
  overdraws the budget. The default timeouts of 5 minutes (hooks.go:60) and 30 seconds
  (docs/03-agent-spec.md:88) are not used either: runner.go:196 and 223 pass 0, which
  HookSet.Run turns into what is left of the budget.
* pipeline.go:37 says that Dump "MUST honour ctx cancellation promptly". sqlite3 is sent
  SIGINT and waited for without a limit (mongodump.go:196); see `CancelHonoured`.
* state.go:44-46 says "a wrong key must never be silently treated as "no config yet"",
  and crypto.go:35-36 wants the agent to "refuse to start instead of silently overwriting
  good data". NewClient ignores every error of LoadConfig (client.go:132), starts from
  version 0, and the next RegisterAck overwrites the record (`Restart` with another key,
  `AckSave`). `Converges` is claimed for an agent that keeps its key only.
* decrypt.go:19-22 and 244-245, and backupy-decrypt's README.md:99-103, say that the size
  prefix and the end marker find any reordered stream. Frames are whole units with a
  prefix each, so exchanged, repeated or missing ones pass both; without the hash such a
  file ends in success when the result is zstd or is not decompressed. `OkMeansAll` holds
  all the same, since it speaks of the file's order; `VerifiedIsBackup` needs the hash.
* After a restart, seq-2 of one process is the key of seq-2 of the next, so a queued
  record can be overwritten; see `NoClobberInOneProcess`. And docs/07-api-contract.md:16
  and envelope.proto:19 promise a monotonic seq: replayed envelopes keep their old
  numbers, behind newer ones and in the byte order of their keys.
* If the server answers Register without a configuration when the agent already has its
  version (`ServerOmits`), a restarted agent advertises a version it has not applied.
* docs/03-agent-spec.md:55 says that jobs survive a break and are finished after the
  reconnect. A run's context is its connection's, so the break cancels it; that it is
  reported is `RunsReport`.
* README.md:23 and docker-compose.example.yml:18 give a `wss://` server URL, which
  config.go:98 refuses: the agent does not start with it.
* docker.go:240-242 says that registry and tag are stripped "so "ghcr.io/postgres:16" still
  resolves": so it does, but not with a namespace or a tagged alias (`Overlooked`).
  docs/03-agent-spec.md:40 says that EXPOSEd ports are looked at too; the image's name is
  all that counts.

## Fairness

`WssClient`: weak fairness of each goroutine and of the server's reads; strong
fairness of `Dial`, since failing dials alternate with back-offs and a dial that
is tried for ever succeeds in the end. No failure, tick, signal or request is
fair, nor is `RunFinish`: a run may hang. `ConfigSync`: the agent's steps and the
server's pushes. `Pipeline`: each goroutine; the dump tool, the PUT and the hooks go on
or end unless they hang. Hanging (`HookHangs`, `CallHangs`, `DumpHangs`) and the faults
(`ToolFail`, `NonceFail`, `DiskFail`, `ContextDone`) may happen at any time and are not
fair, so `RunReturns` does not rest on them.
`Decrypt`: Run and its goroutine go on while they can; signals and faults are not
required to happen. `Drivers`: the driver's own steps and those of os/exec, the signal
and the reaping of a process that ended among them. The programs themselves, the
descendants of hooks, the redis server, time and cancellation are not fair. `Store` and `Discovery` state safety only.

## Proofs

`WssClientProofs` proves for all constants satisfying `WssAssumption` (finite,
disjoint sets of messages; positive capacities):

* `TypeCorrect`: `Spec => []TypeOK`
* `Phases`: `Spec => []PhaseInv`
* `OnePump`: `Spec => []LoopsEndWithConnection`
* `NoSilentLoss`: `Spec => []Accounted`

`Accounted` is not inductive: it must be known that a popped batch and the queue
hold only envelopes of Sends that have returned (else replay could hand over one
whose Send is still to enqueue it), that a captured channel exists, and that the
writer works on the current connection's channel. Hence
`IInv == TypeOK /\ ConnInv /\ OnlyReturnedSends /\ Accounted`, where `ConnInv`
is `OutPublished` with `LoopsEndWithConnection`; its parts are checked by TLC as
`PhaseInv`, `LoopsEndWithConnection` and `Accounted`. The proof has a frame lemma
for steps that touch neither queue nor channels, and one lemma per group of
actions that do: `SendAccounted`, `ReplayAccounted`, `PathAccounted` (writer and
server) and `HeartbeatAccounted`.

`DecryptProofs` proves, for every number of chunks and every length of file, with
AES-GCM, zstd and SHA-256 as assumed above:

* `TypeCorrect`: `Spec => []TypeOK`
* `OkIsComplete`: `Spec => []OkMeansAll`
* `VerifiedSuccess`: `Spec => []VerifiedIsBackup`
* `OutputIsOpened`: `Spec => []OnlyOpenedChunks`
* `OldOutput`: `Spec => []OldOutputKept`
* `OutputFate`: `Spec => []OutputSettled`

None of them is inductive: what success means is decided many steps before, in
the loop. `IInv` adds, for each value of `pc`, how far the sink is behind the
reader (`PlaceInv`), that what was sunk are the first frames of the file and the
output a part of that from the start (`SunkInv`), and when the goroutine lives
and what its `ok` says (`DecInv`).

`ConfigSyncProofs` proves, for any configurations, runs, keys and bounds:

* `TypeCorrect`: `Spec => []TypeOK`
* `VersionsOnlyGrow`: `Spec => NoRegress`
* `AdvertisedApplied`: `~ServerOmits => (Spec => []AdvertisedIsApplied)`
* `RunsInOrder`: `~ServerOmits => (Spec => []RunSeesPriorConfig)`

All rest on `Order`: the snapshot is not ahead of the advertised version, nor that
of what the server has sent on this connection (`VersionInv`), and the frames under
way are in order and not older than either (`FrameInv`); without the latter a frame
could take a version back. `RunInv` adds that a run under way stands behind the
configuration it needs, or that one is at hand (`QueueInv`), and that the same goes
for whatever run the server may send next (`ToldInv`). `~ServerOmits` is needed:
see the disagreements above.

`StoreProofs` proves, for any keys, jobs, times and bounds:

* `LogsKept`: `Spec => []LogsOnce`
* `DumpConsistent`: `Spec => []DumpIsOneState`

`LogsOnce` becomes inductive with `SeqNamesLog`, that a number names one record:
without it a drained number might still be in the bucket. `DumpIsOneState` needs
`LockInv`, that whoever uses the store holds the lock, and `DumpInv`, that the
output is empty until dump-state has the store; an agent's write then finds that
dump-state has not.

`WssOutboxProofs` proves, under `WssAssumption` again:

* `NumbersIdentify`: `Spec => []SeqIdentifiesEnvelope`
* `KeysAreOwn`: `Spec => []NoClobberInOneProcess`
* `NoDuplicates`: `Spec => []AtMostOnce`
* `SessionKeepsOutbox`: `~StoreMayFail => (Spec => KeepsOutbox)`

Numbers are inductive together with `Keyed` (a key tells its record's number or
Ping, and a Send in progress has a number); that no record is overwritten needs
besides that a replay's batch is still in the queue until the first restart
(`Fresh`). `AtMostOnce` says nothing of where a message is, so `Copies` does: no
message twice in a channel or on the wire (`NoTwin`), each in one place only, with
the `handed` and `delivered` that go with it (`Placed`), and under one key
(`OneKey`). With these, `Fate`, which maps the session to `Outbox`, is a function of
the place of the one copy, and each action is shown to be one of `Outbox`'s steps or
a stutter (`SendBox`, `ReplayBox`, `PathBox`, `DialBox`, `BreakBox`, `RestartBox`).
The hypothesis `~StoreMayFail` is the one of `AtMostOnce` and of the run: after a
failed Ack a record is replayed again although its message was received or lost,
which is what the code does.

`PipelineProofs` proves, for any number of chunks and hooks and any budget:

* `TypeCorrect`: `Spec => []TypeOK`
* `BackupsAreWhole`: `Spec => []OnlyWholeBackups`
* `NothingIsLeftBehind`: `Spec => []NothingOutlivesRun`
* `FailuresHaveACause`: `Spec => []NoSpuriousFailure`
* `PostHooksAreTried`: `Spec => []PostHooksAfterDump`

`OnlyWholeBackups` speaks of the moment of the PUT, but what makes the object whole
is decided stage by stage. `Flow` says that nobody has received more than was sent
and that a clean eof, unlike the zstd end frame an aborted encoder may still flush,
is met only after everything before it; `Stored` carries that to the bucket.
`Control` relates the place of Run to its goroutines, `HookCount` to the hooks, and
`Blame` says that any error in a stage or at a pipe's end has a fault behind it.

`DriversProofs` proves, for any archive, pipe, ring buffer and timeout:

* `TypeCorrect`: `Spec => []TypeOK`
* `StaleOnlyBehindASave`: `Spec => []StaleOnlyIfSaving`
* `TailsAreKept`: `Spec => []TailKept`
* `DriversKeepContract`: `Spec => KeepsContract`

The contract rests on a conservation law: what a tool has left to do, what is in its
pipe and what has reached the pipeline add up to the archive (`Archive`), and a nil
from `Cmd.Run` means that nothing is left and nothing in the pipe (`Reaping`).
`Saved` says that since LASTSAVE was asked every save is of data at least as new, if
none was under way. `Tails` gives the contents of the two buffers, a full ring's
two halves about `pos` included. `Phase` ties programs to places.

`DiscoveryProofs` proves, for any containers, images, wirings, environment and
number of changes during a scan that satisfy `DiscoveryAssumption`:

* `ReportsAreSound`: `RulesAreSound => (Spec => []ReportSound)`
* `StableAreReported`: `Spec => []StableIsReported`

`RulesAreSound` says that the prefix table is right about each image by itself: what
it takes for an engine is that engine or another product of the vendor. No theorem
could say that of arbitrary names; the run shows it for its nine images. No such
hypothesis is needed for what is reported: `SpelledIsFound` proves of the thirteen rules
that every image whose spelling is not `Overlooked` is taken for some database. The rest
is that two answers about a changing host mix to something that was true (`Listed`,
`History`: an id keeps its image, and the wirings it has had are remembered), that
nothing which runs throughout falls through the loop (`Pending`), and that a port's
number survives `Digits` and `parsePort` (`PortRoundTrip`, by the five lengths a port's
text can have; the branch of `parsePort` for larger numbers is not met by a daemon's
ports).

Only model-checked: the liveness properties (`TeardownCompletes`,
`HandedIsDelivered`, `RunsReport`, `Converges`, `RunReturns`, `GoodFileRestored`,
`Returns`, `CancelHonoured`), which are out of the prover's reach, and `RulesAreSound`
of the images of `Discovery`, as said above. The four violations are counterexamples and
need no proof.

## Plan

1. Done: `WssClient` and the refinement of `Outbox`, `ConfigSync`, `Pipeline`,
   `Decrypt`, `Exec` and `Drivers` with the refinement of `Driver`, `Store`,
   `AgentConfig` and `Discovery`, with proofs of their safety properties.
2. Theorems left: what a whole classification of image names would be, so that
   `RulesAreSound` can be proved of it; `KeepsOutbox` with a failing store, for which `Outbox` needs a step from lost back to the connection.
3. Models left: the agent's own `Encryptor.Decrypt`, which has no upper bound on
   the length of a frame; `Backoff.Next` in integers.

## Not modelled

Metrics, logging, version and the generated protobuf code, which no control
depends on (the generated code is most of what the models do not cover); the
delays of the reconnect backoff, on which no state depends; the handlers of
CancelJob, RunHealthCheck and SelfUpdate, which only log; drivers' argument
lists and version labels; decoding of the decryption token; AES-GCM and zstd
themselves. PROJECT.json lists every component with the reason.
