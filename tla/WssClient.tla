------------------------------ MODULE WssClient ------------------------------
(***************************************************************************)
(* The agent's WebSocket session (apps/agent/internal/wss) with what feeds *)
(* it: the goroutine of Client.Start/runOnce, the read, write and          *)
(* heartbeat loops of one connection, the goroutines that call Client.Send *)
(* (backup runs, discovery, the Ping reply of the reader), the persistent  *)
(* queue of internal/state, and process restarts.                          *)
(*                                                                         *)
(* An envelope is its origin ("id") and its sequence number: payloads,     *)
(* timestamps, logs and metrics are left out.  The configuration that      *)
(* RegisterAck and ConfigUpdate carry is left to ConfigSync, the contents  *)
(* of a run to Pipeline.                                                   *)
(***************************************************************************)
EXTENDS Naturals, Sequences, FiniteSets, Functions

CONSTANTS
  Runs,          \* runs the server dispatches; each ends in one Send
  Reports,       \* discovery reports; each is one Send
  Pings,         \* server Pings; the reply is keyed by their correlation id
  OutCap,        \* capacity of a connection's out channel (64)
  PopMax,        \* queue records one replay reads (100)
  NetCap,        \* frames the transport takes before Write blocks
  MaxConns,      \* bound: connections dialled; the last one never breaks
  MaxBeats,      \* bound: heartbeat ticks after each connection's first one
  MaxRestarts,   \* bound: process restarts (crash, or after a clean stop)
  StoreMayFail   \* whether a queue transaction may fail

Msgs == Runs \cup Reports \cup Pings

ASSUME WssAssumption ==
  /\ {OutCap, PopMax, NetCap, MaxConns} \subseteq Nat \ {0}
  /\ {MaxBeats, MaxRestarts} \subseteq Nat
  /\ StoreMayFail \in BOOLEAN
  /\ Runs \cap Reports = {} /\ Runs \cap Pings = {} /\ Reports \cap Pings = {}
  /\ Msgs \cap {"heartbeat", "none"} = {}
  /\ Pings \cap Nat = {}
  /\ IsFiniteSet(Msgs)

VARIABLES
  mpc,        \* where the goroutine of Start stands
  cancelled,  \* the root context is done (SIGTERM)
  conns,      \* connections dialled so far; the current one's number
  link,       \* the current websocket: "none", "up", or "cut" unnoticed
  outRef,     \* Client.out: 0 for nil, else the connection it belongs to
  chan,       \* contents of every connection's out channel, dead ones too
  batch,      \* records replayQueue has read and not handed over yet
  loops,      \* goroutines of the connection that still run
  hb,         \* heartbeatLoop: "emit" or "wait"
  held,       \* envelope writeLoop has taken from the channel, or NoEnv
  seq,        \* Client.seq
  queue,      \* queue bucket: key -> envelope, survives restarts
  snd,        \* per message: how far its Send has got
  mseq,       \* sequence number given to it
  cap,        \* the out channel its Send read under connMu
  runConn,    \* connection whose context a run was started with
  outcome,    \* how a run ended
  net,        \* frames written and not received yet
  beats,      \* heartbeat ticks so far in this connection
  restarts,   \* process restarts so far
  delivered,  \* history: times each message was received
  handed,     \* history: last channel a message went into, 0 for none
  clobbered   \* history: messages whose record another's key destroyed

sendVars == <<snd, mseq, cap, seq>>
runVars  == <<runConn, outcome>>
connVars == <<mpc, cancelled, conns, link, loops, hb, beats, batch>>
pathVars == <<outRef, chan, held, net>>
diskVars == <<queue, clobbered>>
histVars == <<delivered, handed>>
appVars  == <<sendVars, runVars>>
loopVars == <<loops, hb, beats>>
dataVars == <<diskVars, histVars, restarts>>
vars     == <<appVars, connVars, pathVars, dataVars>>

Conns == 1 .. MaxConns
Keys  == Nat \cup Pings
Env   == [id : Msgs \cup {"heartbeat"}, seq : Nat]
NoEnv == [id |-> "none", seq |-> 0]

MainStates ==
  {"idle", "dialed", "acked", "pop", "replay", "pump", "closing", "backoff",
   "stopped"}
SendStates ==
  {"idle", "running", "seq", "captured", "enqueue", "done", "failed", "gone"}

\* The messages an out channel or the transport holds.
Ids(s) == {s[i].id : i \in DOMAIN s}

\* The connection's context (connCtx) is done: the root context is, or the
\* first loop to fail has made runOnce cancel it.
ConnDone == cancelled \/ mpc = "closing"

\* A run's context is the connCtx of the connection it arrived on.
RunCtxDone(r) == cancelled \/ runConn[r] # conns \/ mpc # "pump"

-----------------------------------------------------------------------------
(***************************************************************************)
(* The queue bucket: bolt's Put, Delete, and a cursor in key order.        *)
(***************************************************************************)
Put(f, k, e) == [x \in DOMAIN f \cup {k} |-> IF x = k THEN e ELSE f[x]]
Del(f, k)    == [x \in DOMAIN f \ {k} |-> f[x]]
Empty        == [x \in {} |-> NoEnv]

\* Digits[n]: the decimal digits of n, least significant first.
Digits[n \in Nat] ==
  IF n < 10 THEN <<n>> ELSE <<n % 10>> \o Digits[n \div 10]

\* Byte order of "seq-a" and "seq-b": the decimal digits compared from the
\* left, a proper prefix first.
DecimalBefore(a, b) ==
  LET da == Digits[a]
      db == Digits[b]
      A(i) == da[Len(da) + 1 - i]
      B(i) == db[Len(db) + 1 - i]
  IN  \/ /\ Len(da) < Len(db)
         /\ \A i \in 1 .. Len(da) : A(i) = B(i)
      \/ \E i \in DOMAIN da \cap DOMAIN db :
            /\ A(i) < B(i)
            /\ \A j \in 1 .. i - 1 : A(j) = B(j)

\* Keys in bolt's byte order.  Correlation ids are UUIDs, which sort before
\* "seq-"; how two of them compare is left open.
KeyBefore(a, b) ==
  IF a \in Pings \/ b \in Pings THEN a \in Pings /\ b \notin Pings
                                ELSE DecimalBefore(a, b)

FirstOf(K) == {k \in K : \A j \in K \ {k} : ~KeyBefore(j, k)}

\* Mutant: the payload slices are used after the bolt transaction has ended.
DequeueJobsUncopied(n) == [k \in DOMAIN queue |-> NoEnv]

\* DequeueJobs(n): the first n records in key order, without removing them.
DequeueJobs(n) ==
  LET K == {k \in DOMAIN queue :
              Cardinality({j \in DOMAIN queue : KeyBefore(j, k)}) < n}
  IN  [k \in K |-> queue[k]]

\* Mutant: the key is the run_id-like constant of an unset correlation id.
SendKeyUnset(m) == IF m \in Pings THEN m ELSE 0

\* The key Send falls back to: the correlation id, or seq-N.
SendKey(m) == IF m \in Pings THEN m ELSE mseq[m]

-----------------------------------------------------------------------------
(***************************************************************************)
(* Client.Send, called from a run's goroutine, from discovery or from the  *)
(* reader: sequence number, out under connMu, non-blocking push, fallback. *)
(***************************************************************************)
\* Mutant: the counter is read and never stored back.
SendSeqNotStored(m) ==
  /\ mseq' = [mseq EXCEPT ![m] = seq + 1]
  /\ snd' = [snd EXCEPT ![m] = "seq"]
  /\ UNCHANGED <<seq, cap>>

SendSeq(m) ==
  /\ seq' = seq + 1
  /\ mseq' = [mseq EXCEPT ![m] = seq + 1]
  /\ snd' = [snd EXCEPT ![m] = "seq"]
  /\ cap' = cap

\* Send returns; its locals are gone.
SendReturn(m, s) ==
  /\ snd' = [snd EXCEPT ![m] = s]
  /\ cap' = [cap EXCEPT ![m] = 0]
  /\ mseq' = [mseq EXCEPT ![m] = 0]
  /\ seq' = seq

SendCapture(m) ==
  /\ snd[m] = "seq"
  /\ cap' = [cap EXCEPT ![m] = outRef]
  /\ snd' = [snd EXCEPT ![m] = IF outRef = 0 THEN "enqueue" ELSE "captured"]
  /\ UNCHANGED <<mseq, seq, runVars, connVars, pathVars, dataVars>>

\* Mutant: a full channel drops the envelope instead of falling through.
SendTryDropping(m) ==
  /\ snd[m] = "captured"
  /\ IF Len(chan[cap[m]]) < OutCap
     THEN /\ chan' = [chan EXCEPT ![cap[m]] =
                        Append(@, [id |-> m, seq |-> mseq[m]])]
          /\ handed' = [handed EXCEPT ![m] = cap[m]]
     ELSE UNCHANGED <<chan, handed>>
  /\ SendReturn(m, "done")
  /\ UNCHANGED <<runVars, connVars, outRef, held, net, diskVars, delivered,
                 restarts>>

\* The captured channel may belong to a connection that has ended meanwhile.
SendTry(m) ==
  /\ snd[m] = "captured"
  /\ IF Len(chan[cap[m]]) < OutCap
     THEN /\ chan' = [chan EXCEPT ![cap[m]] =
                        Append(@, [id |-> m, seq |-> mseq[m]])]
          /\ handed' = [handed EXCEPT ![m] = cap[m]]
          /\ SendReturn(m, "done")
     ELSE /\ snd' = [snd EXCEPT ![m] = "enqueue"]
          /\ UNCHANGED <<mseq, cap, seq, chan, handed>>
  /\ UNCHANGED <<runVars, connVars, outRef, held, net, diskVars, delivered,
                 restarts>>

SendEnqueue(m) ==
  /\ snd[m] = "enqueue"
  /\ LET k == SendKey(m) IN
       /\ queue' = Put(queue, k, [id |-> m, seq |-> mseq[m]])
       /\ clobbered' = IF k \in DOMAIN queue THEN clobbered \cup {queue[k].id}
                                             ELSE clobbered
  /\ SendReturn(m, "done")
  /\ UNCHANGED <<runVars, connVars, pathVars, histVars, restarts>>

\* The transaction fails, as it does once runAgent has closed the store; every
\* caller discards Send's error.
SendEnqueueFail(m) ==
  /\ snd[m] = "enqueue"
  /\ StoreMayFail \/ mpc = "stopped"
  /\ SendReturn(m, "failed")
  /\ UNCHANGED <<runVars, connVars, pathVars, dataVars>>

Send(m) ==
  SendCapture(m) \/ SendTry(m) \/ SendEnqueue(m) \/ SendEnqueueFail(m)

\* runDiscoveryLoop: a scan has produced a report.
DiscoveryScan(d) ==
  /\ snd[d] = "idle"
  /\ mpc # "stopped"
  /\ SendSeq(d)
  /\ UNCHANGED <<runVars, connVars, pathVars, dataVars>>

\* The reader is inside the Send of a Ping reply.
ReaderBusy == \E p \in Pings : snd[p] \in {"seq", "captured", "enqueue"}

Reading == "read" \in loops /\ link = "up" /\ ~ReaderBusy

\* dispatch, case RunBackup: OnRunBackup starts a goroutine and returns.
DispatchRunBackup(r) ==
  /\ Reading
  /\ snd[r] = "idle"
  /\ snd' = [snd EXCEPT ![r] = "running"]
  /\ runConn' = [runConn EXCEPT ![r] = conns]
  /\ UNCHANGED <<mseq, cap, seq, outcome, connVars, pathVars, dataVars>>

\* dispatch, case Ping: the reader itself sends the Ack.
DispatchPing(p) ==
  /\ Reading
  /\ snd[p] = "idle"
  /\ SendSeq(p)
  /\ UNCHANGED <<runVars, connVars, pathVars, dataVars>>

\* Mutant: a run whose context is done returns without reporting.
RunFinishUnreported(r, o) ==
  /\ snd[r] = "running"
  /\ o = "cancelled" => RunCtxDone(r)
  /\ outcome' = [outcome EXCEPT ![r] = o]
  /\ runConn' = [runConn EXCEPT ![r] = 0]
  /\ IF o = "finished" THEN SendSeq(r) ELSE SendReturn(r, "gone")
  /\ UNCHANGED <<connVars, pathVars, dataVars>>

\* The run's goroutine: Run returns and its result goes to Send.
RunFinish(r, o) ==
  /\ snd[r] = "running"
  /\ o = "cancelled" => RunCtxDone(r)
  /\ outcome' = [outcome EXCEPT ![r] = o]
  /\ runConn' = [runConn EXCEPT ![r] = 0]
  /\ SendSeq(r)
  /\ UNCHANGED <<connVars, pathVars, dataVars>>

-----------------------------------------------------------------------------
(***************************************************************************)
(* Start and runOnce: dial, handshake, publish out, replay, pump, tear     *)
(* down, back off.                                                         *)
(***************************************************************************)
Goto(from, to) == mpc = from /\ mpc' = to

Dial ==
  /\ Goto("idle", "dialed")
  /\ ~cancelled
  /\ conns < MaxConns
  /\ conns' = conns + 1
  /\ link' = "up"
  /\ UNCHANGED <<appVars, cancelled, loopVars, batch, pathVars, dataVars>>

DialFail ==
  /\ Goto("idle", IF cancelled THEN "stopped" ELSE "backoff")
  /\ UNCHANGED <<appVars, cancelled, conns, link, loopVars, batch, pathVars,
                 dataVars>>

\* handshake: Register goes out with the next sequence number, the server
\* answers with RegisterAck.
HandshakeOk ==
  /\ Goto("dialed", "acked")
  /\ link = "up"
  /\ seq' = seq + 1
  /\ UNCHANGED <<snd, mseq, cap, runVars, cancelled, conns, link, loopVars,
                 batch, pathVars, dataVars>>

HandshakeFail ==
  /\ Goto("dialed", IF cancelled THEN "stopped" ELSE "backoff")
  /\ link = "cut" \/ cancelled
  /\ seq' = seq + 1
  /\ link' = "none"
  /\ UNCHANGED <<snd, mseq, cap, runVars, cancelled, conns, loopVars, batch,
                 pathVars, dataVars>>

\* A fresh out channel becomes visible to Send.
PublishOut ==
  /\ Goto("acked", "pop")
  /\ outRef' = conns
  /\ UNCHANGED <<appVars, cancelled, conns, link, loopVars, batch, chan, held,
                 net, dataVars>>

\* Pop reads the batch; replay gives up, silently, when it fails.
ReplayPop ==
  /\ Goto("pop", "replay")
  /\ \/ batch' = DequeueJobs(PopMax)
     \/ StoreMayFail /\ batch' = Empty
  /\ UNCHANGED <<appVars, cancelled, conns, link, loopVars, pathVars,
                 dataVars>>

\* Mutant: the record stays on disk after it was handed over.
ReplayPushNoAck(k, acked) ==
  /\ mpc = "replay"
  /\ k \in FirstOf(DOMAIN batch)
  /\ Len(chan[outRef]) < OutCap
  /\ chan' = [chan EXCEPT ![outRef] = Append(@, batch[k])]
  /\ handed' = [handed EXCEPT ![batch[k].id] = outRef]
  /\ batch' = Del(batch, k)
  /\ UNCHANGED <<appVars, mpc, cancelled, conns, link, loopVars, outRef, held,
                 net, delivered, restarts, diskVars>>

\* Mutant: a non-blocking push, Acked whether or not it found room.
ReplayPushNonBlocking(k, acked) ==
  /\ mpc = "replay"
  /\ k \in FirstOf(DOMAIN batch)
  /\ IF Len(chan[outRef]) < OutCap
     THEN /\ chan' = [chan EXCEPT ![outRef] = Append(@, batch[k])]
          /\ handed' = [handed EXCEPT ![batch[k].id] = outRef]
     ELSE UNCHANGED <<chan, handed>>
  /\ batch' = Del(batch, k)
  /\ queue' = Del(queue, k)
  /\ UNCHANGED <<appVars, mpc, cancelled, conns, link, loopVars, outRef, held,
                 net, delivered, restarts, clobbered>>

\* One iteration of replayQueue: the record read by Pop goes into the
\* channel, which must have room, and its key is Acked.  The push and the Ack
\* are one step: no writer runs yet, so nothing sees the channel in between.
ReplayPush(k, acked) ==
  /\ mpc = "replay"
  /\ k \in FirstOf(DOMAIN batch)
  /\ Len(chan[outRef]) < OutCap
  /\ acked \/ StoreMayFail
  /\ chan' = [chan EXCEPT ![outRef] = Append(@, batch[k])]
  /\ handed' = [handed EXCEPT ![batch[k].id] = outRef]
  /\ batch' = Del(batch, k)
  /\ queue' = IF acked THEN Del(queue, k) ELSE queue
  /\ clobbered' = IF acked /\ k \in DOMAIN queue /\ queue[k] # batch[k]
                  THEN clobbered \cup {queue[k].id}
                  ELSE clobbered
  /\ UNCHANGED <<appVars, mpc, cancelled, conns, link, loopVars, outRef, held,
                 net, delivered, restarts>>

\* The batch is handed over, or ctx.Done interrupts the blocked push; either
\* way the three loops start.
ReplayDone ==
  /\ Goto("replay", "pump")
  /\ DOMAIN batch = {} \/ cancelled
  /\ batch' = Empty
  /\ loops' = {"read", "write", "beat"}
  /\ hb' = "emit"
  /\ beats' = 0
  /\ UNCHANGED <<appVars, cancelled, conns, link, pathVars, dataVars>>

\* Mutant: runOnce returns after the first result, without draining errCh.
TearDownUndrained ==
  /\ Goto("closing", IF cancelled THEN "stopped" ELSE "backoff")
  /\ outRef' = 0
  /\ link' = "none"
  /\ net' = <<>>
  /\ UNCHANGED <<appVars, cancelled, conns, loopVars, batch, chan, held,
                 dataVars>>

\* Mutant: the deferred function that clears out is missing.
TearDownKeepsOut ==
  /\ Goto("closing", IF cancelled THEN "stopped" ELSE "backoff")
  /\ loops = {}
  /\ link' = "none"
  /\ net' = <<>>
  /\ UNCHANGED <<appVars, cancelled, conns, loopVars, batch, chan, held,
                 outRef, dataVars>>

\* runOnce has received all three results; its deferred functions clear out
\* and close the websocket, and Start decides whether to go on.
TearDown ==
  /\ Goto("closing", IF cancelled THEN "stopped" ELSE "backoff")
  /\ loops = {}
  /\ outRef' = 0
  /\ link' = "none"
  /\ net' = <<>>
  /\ UNCHANGED <<appVars, cancelled, conns, loopVars, batch, chan, held,
                 dataVars>>

BackoffWait ==
  /\ Goto("backoff", IF cancelled THEN "stopped" ELSE "idle")
  /\ UNCHANGED <<appVars, cancelled, conns, link, loopVars, batch, pathVars,
                 dataVars>>

-----------------------------------------------------------------------------
(***************************************************************************)
(* The three loops of a connection.  A loop that returns makes runOnce     *)
(* cancel connCtx and close the websocket, so the other two return too.    *)
(***************************************************************************)
LoopReturn(l) ==
  /\ loops' = loops \ {l}
  /\ mpc' = "closing"

\* readLoop: the read fails, or connCtx is done.
ReaderReturn ==
  /\ "read" \in loops
  /\ ~ReaderBusy
  /\ link = "cut" \/ ConnDone
  /\ LoopReturn("read")
  /\ UNCHANGED <<appVars, cancelled, conns, link, hb, beats, batch, pathVars,
                 dataVars>>

\* Mutant: an envelope that already has a number is skipped.
WriterTakeSkips ==
  /\ "write" \in loops
  /\ held = NoEnv
  /\ chan[outRef] # <<>>
  /\ LET e == Head(chan[outRef]) IN
       IF e.seq = 0
       THEN /\ seq' = seq + 1
            /\ held' = [e EXCEPT !.seq = seq + 1]
       ELSE seq' = seq /\ held' = held
  /\ chan' = [chan EXCEPT ![outRef] = Tail(@)]
  /\ UNCHANGED <<snd, mseq, cap, runVars, connVars, outRef, net, dataVars>>

\* writeLoop takes an envelope; a heartbeat gets its number here.
WriterTake ==
  /\ "write" \in loops
  /\ held = NoEnv
  /\ chan[outRef] # <<>>
  /\ LET e == Head(chan[outRef]) IN
       IF e.seq = 0
       THEN /\ seq' = seq + 1
            /\ held' = [e EXCEPT !.seq = seq + 1]
       ELSE seq' = seq /\ held' = e
  /\ chan' = [chan EXCEPT ![outRef] = Tail(@)]
  /\ UNCHANGED <<snd, mseq, cap, runVars, connVars, outRef, net, dataVars>>

\* Write returns nil.  On a link already cut the frame is simply gone.
WriterWrite ==
  /\ held # NoEnv
  /\ ~ConnDone
  /\ held' = NoEnv
  /\ IF link = "up" THEN Len(net) < NetCap /\ net' = Append(net, held)
                    ELSE net' = net
  /\ UNCHANGED <<appVars, connVars, outRef, chan, dataVars>>

\* Write fails, and the envelope in hand is lost; or connCtx is done.
WriterReturn ==
  /\ "write" \in loops
  /\ ConnDone \/ (held # NoEnv /\ link = "cut")
  /\ held' = NoEnv
  /\ LoopReturn("write")
  /\ UNCHANGED <<appVars, cancelled, conns, link, hb, beats, batch, outRef,
                 chan, net, dataVars>>

\* emitHeartbeat: the push blocks while the channel is full.
HeartbeatEmit ==
  /\ "beat" \in loops
  /\ hb = "emit"
  /\ Len(chan[outRef]) < OutCap
  /\ hb' = "wait"
  /\ chan' = [chan EXCEPT ![outRef] =
                Append(@, [id |-> "heartbeat", seq |-> 0])]
  /\ UNCHANGED <<appVars, mpc, cancelled, conns, link, loops, beats, batch,
                 outRef, held, net, dataVars>>

HeartbeatTick ==
  /\ "beat" \in loops
  /\ hb = "wait"
  /\ beats < MaxBeats
  /\ beats' = beats + 1
  /\ hb' = "emit"
  /\ UNCHANGED <<appVars, mpc, cancelled, conns, link, loops, batch, pathVars,
                 dataVars>>

\* Mutant: emitHeartbeat pushes without watching ctx.Done.
HeartbeatReturnIfIdle ==
  /\ "beat" \in loops
  /\ hb = "wait"
  /\ ConnDone
  /\ LoopReturn("beat")
  /\ UNCHANGED <<appVars, cancelled, conns, link, hb, beats, batch, pathVars,
                 dataVars>>

HeartbeatReturn ==
  /\ "beat" \in loops
  /\ ConnDone
  /\ LoopReturn("beat")
  /\ UNCHANGED <<appVars, cancelled, conns, link, hb, beats, batch, pathVars,
                 dataVars>>

-----------------------------------------------------------------------------
(***************************************************************************)
(* The environment: the server and the network, signals and crashes.       *)
(***************************************************************************)
ServerReceive ==
  /\ net # <<>>
  /\ delivered' = [m \in Msgs |->
                     IF m = Head(net).id THEN delivered[m] + 1 ELSE delivered[m]]
  /\ net' = Tail(net)
  /\ UNCHANGED <<appVars, connVars, outRef, chan, held, diskVars, handed,
                 restarts>>

\* The connection is lost: network failure, server close, 90 s without a
\* frame, or an undecodable frame.  Frames under way go with it.
LinkCut ==
  /\ link = "up"
  /\ conns < MaxConns
  /\ link' = "cut"
  /\ net' = <<>>
  /\ UNCHANGED <<appVars, mpc, cancelled, conns, loopVars, batch, outRef, chan,
                 held, dataVars>>

\* SIGINT or SIGTERM.
Shutdown ==
  /\ ~cancelled
  /\ restarts < MaxRestarts
  /\ cancelled' = TRUE
  /\ UNCHANGED <<appVars, mpc, conns, link, loopVars, batch, pathVars,
                 dataVars>>

\* The process ends, by a crash at any point or after Start has returned,
\* and starts again: only the queue bucket survives.
Restart ==
  /\ restarts < MaxRestarts
  /\ restarts' = restarts + 1
  /\ mpc' = "idle" /\ cancelled' = FALSE /\ link' = "none"
  /\ loops' = {} /\ hb' = "wait" /\ beats' = 0
  /\ batch' = Empty
  /\ outRef' = 0 /\ held' = NoEnv /\ net' = <<>>
  /\ seq' = 0
  /\ snd' = [m \in Msgs |->
               IF snd[m] \in {"idle", "done", "failed"} THEN snd[m] ELSE "gone"]
  /\ mseq' = [m \in Msgs |-> 0] /\ cap' = [m \in Msgs |-> 0]
  /\ runConn' = [r \in Runs |-> 0]
  /\ UNCHANGED <<outcome, conns, chan, diskVars, histVars>>

-----------------------------------------------------------------------------
Init ==
  /\ mpc = "idle" /\ cancelled = FALSE /\ conns = 0 /\ link = "none"
  /\ outRef = 0 /\ held = NoEnv /\ net = <<>>
  /\ chan = [g \in Conns |-> <<>>]
  /\ batch = Empty
  /\ queue = Empty
  /\ loops = {} /\ hb = "wait" /\ beats = 0
  /\ seq = 0
  /\ snd = [m \in Msgs |-> "idle"]
  /\ mseq = [m \in Msgs |-> 0]
  /\ cap = [m \in Msgs |-> 0]
  /\ runConn = [r \in Runs |-> 0]
  /\ outcome = [r \in Runs |-> "none"]
  /\ restarts = 0
  /\ delivered = [m \in Msgs |-> 0]
  /\ handed = [m \in Msgs |-> 0]
  /\ clobbered = {}

MainNext ==
  \/ Dial \/ DialFail \/ HandshakeOk \/ HandshakeFail \/ PublishOut
  \/ ReplayPop \/ ReplayDone \/ TearDown \/ BackoffWait
  \/ \E k \in DOMAIN batch, acked \in BOOLEAN : ReplayPush(k, acked)

LoopNext ==
  \/ ReaderReturn \/ WriterTake \/ WriterWrite \/ WriterReturn
  \/ HeartbeatEmit \/ HeartbeatTick \/ HeartbeatReturn
  \/ \E r \in Runs : DispatchRunBackup(r)
  \/ \E p \in Pings : DispatchPing(p)

SenderNext ==
  \/ \E m \in Msgs : Send(m)
  \/ \E d \in Reports : DiscoveryScan(d)
  \/ \E r \in Runs, o \in {"finished", "cancelled"} : RunFinish(r, o)

EnvNext == ServerReceive \/ LinkCut \/ Shutdown \/ Restart

Next == MainNext \/ LoopNext \/ SenderNext \/ EnvNext

(***************************************************************************)
(* Fairness.  Every goroutine that can go on does, a dial that keeps being *)
(* tried eventually succeeds, and the server reads what arrives.  Nothing  *)
(* is assumed of failures, of the server's requests, of ticks or signals,  *)
(* and a run need not end: Pipeline's RunReturns says when it does.        *)
(***************************************************************************)
Fairness ==
  /\ SF_vars(Dial)
  /\ WF_vars(HandshakeOk \/ HandshakeFail)
  /\ WF_vars(PublishOut \/ ReplayPop \/ ReplayDone)
  /\ WF_vars(\E k \in DOMAIN batch, acked \in BOOLEAN : ReplayPush(k, acked))
  /\ WF_vars(TearDown)
  /\ WF_vars(BackoffWait)
  /\ WF_vars(ReaderReturn)
  /\ WF_vars(WriterTake \/ WriterWrite \/ WriterReturn)
  /\ WF_vars(HeartbeatEmit \/ HeartbeatReturn)
  /\ \A m \in Msgs : WF_vars(Send(m))
  /\ WF_vars(ServerReceive)

Spec     == Init /\ [][Next]_vars
FairSpec == Spec /\ Fairness

-----------------------------------------------------------------------------
(***************************************************************************)
(* Properties.                                                             *)
(***************************************************************************)
\* The type invariant of the model's variables.
TypeOK ==
  /\ mpc \in MainStates /\ cancelled \in BOOLEAN
  /\ conns \in 0 .. MaxConns /\ link \in {"none", "up", "cut"}
  /\ outRef \in 0 .. MaxConns
  /\ chan \in [Conns -> Seq(Env)]
  /\ held \in Env \cup {NoEnv} /\ net \in Seq(Env)
  /\ loops \subseteq {"read", "write", "beat"} /\ hb \in {"emit", "wait"}
  /\ beats \in 0 .. MaxBeats /\ restarts \in 0 .. MaxRestarts
  /\ seq \in Nat
  /\ DOMAIN queue \subseteq Keys
  /\ \A k \in DOMAIN queue : queue[k] \in [id : Msgs, seq : Nat]
  /\ DOMAIN batch \subseteq Keys
  /\ \A k \in DOMAIN batch : batch[k] \in [id : Msgs, seq : Nat]
  /\ snd \in [Msgs -> SendStates]
  /\ mseq \in [Msgs -> Nat]
  /\ cap \in [Msgs -> 0 .. MaxConns]
  /\ runConn \in [Runs -> 0 .. MaxConns]
  /\ outcome \in [Runs -> {"none", "finished", "cancelled"}]
  /\ delivered \in [Msgs -> Nat]
  /\ handed \in [Msgs -> 0 .. MaxConns]
  /\ clobbered \subseteq Msgs

QueueIds == {queue[k].id : k \in DOMAIN queue}

\* Connection g has ended, or is about to: no envelope is owed to it.
ConnOver(g) == g # conns \/ link # "up" \/ ConnDone

\* Where a message is after Send has accepted it: on disk until replay hands
\* it to a connection (or another record took its key); from then on in that
\* connection's channel, in the writer's hand, under way or received, unless
\* the connection has ended.
AccountedFor(m) ==
  IF handed[m] = 0
  THEN m \in QueueIds \/ m \in clobbered
  ELSE \/ delivered[m] > 0
       \/ m \in Ids(chan[handed[m]]) \cup Ids(net) \cup {held.id}
       \/ ConnOver(handed[m])

\* No silent loss inside a living connection: every envelope whose Send has
\* returned nil is accounted for, through queueing, replay and teardown.
Accounted == \A m \in Msgs : snd[m] = "done" => AccountedFor(m)

\* The key under which Send stores an envelope is its own while the process
\* lives: no record is overwritten, or Acked away, on behalf of another one.
NoClobberInOneProcess == restarts = 0 => clobbered = {}

\* Send and replay never produce a second copy of an envelope: the server
\* receives each at most once, unless an Ack of the queue failed.
AtMostOnce == ~StoreMayFail => \A m \in Msgs : delivered[m] <= 1

\* Only one connection pumps at a time: runOnce waits for its three loops, so
\* none of them outlives the connection and reads or writes beside the next
\* one's, and an envelope is in a writer's hand only while that writer runs.
LoopsEndWithConnection ==
  /\ loops # {} => mpc \in {"pump", "closing"} /\ outRef = conns
  /\ held # NoEnv => "write" \in loops

\* out is published exactly from PublishOut to TearDown and is the current
\* connection's; a batch is read and used up in between.
OutPublished ==
  /\ outRef = IF mpc \in {"pop", "replay", "pump", "closing"} THEN conns ELSE 0
  /\ mpc \notin {"idle", "backoff", "stopped"} => conns > 0
  /\ mpc # "replay" => DOMAIN batch = {}

\* A Send only knows channels that exist, and whatever is on disk or was
\* handed to a channel comes from a Send that has returned.
OnlyReturnedSends ==
  /\ \A m \in Msgs : /\ cap[m] <= conns
                     /\ snd[m] = "captured" => cap[m] > 0
                     /\ handed[m] <= conns
                     /\ handed[m] # 0 => snd[m] = "done"
  /\ \A k \in DOMAIN queue : snd[queue[k].id] = "done"
  /\ \A k \in DOMAIN batch : snd[batch[k].id] = "done"

\* What Accounted and LoopsEndWithConnection rest on, and with them an
\* inductive invariant.
PhaseInv == OutPublished /\ OnlyReturnedSends

\* The numbered envelopes the agent still holds, dead channels included.
Numbered ==
  LET Sending == {m \in Msgs : snd[m] \in {"seq", "captured", "enqueue"}}
      InMemory == {held} \cup Range(net) \cup UNION {Range(chan[g]) : g \in Conns}
  IN  {e \in InMemory \cup Range(queue) \cup Range(batch) : e.seq # 0}
        \cup {[id |-> m, seq |-> mseq[m]] : m \in Sending}

\* Within one process a sequence number names one envelope, whichever
\* goroutine numbered it (Send, handshake or writeLoop) and whether or not it
\* went through the disk: no two held envelopes share a number, and none has
\* one that the counter is still to give.
SeqIdentifiesEnvelope ==
  restarts = 0 => \A e \in Numbered :
                    /\ e.seq <= seq
                    /\ \A f \in Numbered : e.seq = f.seq => e = f

\* Teardown never hangs: after the first loop returns, the other two return
\* as well, a heartbeat blocked on a full channel included.
TeardownCompletes == mpc = "closing" ~> mpc \in {"backoff", "stopped"}

\* replayQueue has more to push than the channel has room for, and the writer
\* that would make room is only started after it: see ReplayReturns.
Wedged ==
  /\ mpc = "replay"
  /\ DOMAIN batch # {} /\ Len(chan[outRef]) >= OutCap

\* An envelope handed to a connection's channel, by Send or by replay, which
\* Acks it then, is received by the server, or the connection ends, or replay
\* blocks that connection for ever.
HandedIsDelivered ==
  \A m \in Msgs :
    handed[m] # 0 ~> (delivered[m] > 0 \/ ConnOver(handed[m]) \/ []Wedged)

\* Every run that was dispatched and whose Run returns ends in a Send that
\* returns, also when its connection is over by then.
RunsReport ==
  \A r \in Runs :
    snd[r] = "running" ~> (snd[r] \in {"done", "failed"} \/ [](snd[r] = "running"))

\* README: "Keeps a persistent local queue so a brief network blip can't lose
\* a run".  The report of a run, once accepted by Send, is on disk, in the
\* current connection, or with the server.
NoRunLost ==
  \A r \in Runs : snd[r] = "done" =>
    \/ delivered[r] > 0
    \/ r \in QueueIds \cup Ids(net) \cup {held.id}
    \/ outRef # 0 /\ r \in Ids(chan[outRef])

\* client.go: the envelopes buffered on disk "must reach the server": replay
\* hands its batch over and lets the connection start pumping.
ReplayReturns == mpc = "replay" ~> mpc = "pump"

\* Where the rest of the system sees message m: see Outbox.
Fate(m) ==
  CASE snd[m] = "failed" -> "refused"
    [] snd[m] = "gone" -> "lost"
    [] snd[m] \notin {"failed", "gone", "done"} -> "new"
    [] OTHER ->
         IF delivered[m] > 0 THEN "received"
         ELSE IF handed[m] = 0
         THEN IF m \in QueueIds \cup {batch[k].id : k \in DOMAIN batch} THEN "disk" ELSE "lost"
         ELSE IF \/ m \in Ids(net)
                 \/ ~ConnOver(handed[m]) /\ m \in Ids(chan[handed[m]]) \cup {held.id}
              THEN "conn" ELSE "lost"

Box == INSTANCE Outbox WITH
  fate <- [m \in Msgs |-> Fate(m)],
  up <- link = "up" /\ ~ConnDone,
  starts <- restarts

\* The session, with its goroutines, channels, queue and restarts, keeps the
\* promise of Outbox: nothing on disk is lost by a crash, a cut or a failed
\* replay, nothing handed to a living connection disappears, and what was lost
\* or received does not come back.
KeepsOutbox == Box!Spec
=============================================================================
