---------------------------- MODULE WssOutboxProofs ----------------------------
(***************************************************************************)
(* More proofs about WssClient: sequence numbers, the keys of the queue,   *)
(* the number of copies of an envelope, and, from these, that the session  *)
(* implements Outbox.                                                      *)
(***************************************************************************)
EXTENDS WssClientProofs

-----------------------------------------------------------------------------
(* The inductive invariants. *)

\* The goroutines that are inside Send with a number in hand.
InSend(m) == snd[m] \in {"seq", "captured", "enqueue"}

\* A key tells what its record is, and a Send in progress has a number.
Keyed ==
  /\ \A k \in DOMAIN queue :
       (k \in Nat /\ queue[k].seq = k) \/ (k \in Pings /\ queue[k].id = k)
  /\ \A m \in Msgs : InSend(m) => mseq[m] # 0

\* Until the first restart the batch of a replay is part of the queue.
BatchOnDisk ==
  \A k \in DOMAIN batch : k \in DOMAIN queue /\ queue[k] = batch[k]
Fresh == restarts = 0 => clobbered = {} /\ BatchOnDisk

\* No message is twice in a channel or under way.
NoTwin(s) ==
  \A i, j \in DOMAIN s : s[i].id \in Msgs /\ s[i].id = s[j].id => i = j

BatchIds == {batch[k].id : k \in DOMAIN batch}

\* Where the one copy of message m is.
Placed(m) ==
  /\ \A g \in Conns : m \in Ids(chan[g]) =>
       /\ handed[m] = g /\ m # held.id /\ m \notin Ids(net)
       /\ delivered[m] = 0
  /\ m = held.id =>
       /\ handed[m] = conns /\ conns # 0
       /\ m \notin Ids(net) /\ delivered[m] = 0
  /\ m \in Ids(net) => handed[m] # 0 /\ delivered[m] = 0
  /\ delivered[m] # 0 => delivered[m] = 1 /\ handed[m] # 0
  /\ handed[m] # 0 => m \notin QueueIds \cup BatchIds

\* The queue and the batch hold a message under one key.
OneKey ==
  /\ \A j, k \in DOMAIN queue : queue[j].id = queue[k].id => j = k
  /\ \A j, k \in DOMAIN batch : batch[j].id = batch[k].id => j = k
  /\ \A j \in DOMAIN queue, k \in DOMAIN batch :
       queue[j].id = batch[k].id => j = k

Copies ==
  /\ \A g \in Conns : NoTwin(chan[g])
  /\ NoTwin(net)
  /\ \A m \in Msgs : Placed(m)
  /\ OneKey

\* Between two connections there is no websocket.
Unlinked == mpc \in {"idle", "backoff", "stopped"} => link = "none"

-----------------------------------------------------------------------------
(***************************************************************************)
(* Sequence numbers.  A step moves envelopes between the places of         *)
(* Numbered; at most one of what it leaves there is new, with the number   *)
(* the counter has just given.                                             *)
(***************************************************************************)
\* Appending adds one envelope to those a sequence holds.
LEMMA RangeAppend ==
  ASSUME NEW s \in Seq(Env), NEW e \in Env
  PROVE  Range(Append(s, e)) = Range(s) \cup {e}
<1>1. /\ DOMAIN Append(s, e) = DOMAIN s \cup {Len(s) + 1}
      /\ Append(s, e)[Len(s) + 1] = e
      /\ \A i \in DOMAIN s : Append(s, e)[i] = s[i]
  OBVIOUS
<1> QED
  BY <1>1, Zenon DEF Range

\* Taking the head adds none, and the head was one of them.
LEMMA RangeTail ==
  ASSUME NEW s \in Seq(Env), s # <<>>
  PROVE  Range(Tail(s)) \subseteq Range(s) /\ Head(s) \in Range(s)
<1>1. /\ Head(s) = s[1] /\ 1 \in DOMAIN s
      /\ \A i \in DOMAIN Tail(s) : i + 1 \in DOMAIN s /\ Tail(s)[i] = s[i + 1]
  OBVIOUS
<1>2. Head(s) \in Range(s)
  BY <1>1, Zenon DEF Range
<1>3. ASSUME NEW x \in Range(Tail(s))
      PROVE  x \in Range(s)
  <2>1. PICK i \in DOMAIN Tail(s) : x = Tail(s)[i]
    BY <1>3, Zenon DEF Range
  <2> QED
    BY <1>1, <2>1, Zenon DEF Range
<1> QED
  BY <1>2, <1>3

\* Nothing is in an empty channel or batch.
LEMMA RangeEmpty == Range(<<>>) = {} /\ Range(Empty) = {}
BY DEF Range, Empty

\* What a push adds to the channels.
LEMMA ChanPush ==
  ASSUME NEW c \in [Conns -> Seq(Env)], NEW g, NEW e \in Env, NEW h \in Conns
  PROVE  /\ Range([c EXCEPT ![g] = Append(@, e)][h])
              \subseteq Range(c[h]) \cup {e}
         /\ h # g => [c EXCEPT ![g] = Append(@, e)][h] = c[h]
         /\ h = g => [c EXCEPT ![g] = Append(@, e)][h] = Append(c[h], e)
<1>1. CASE h = g
  BY <1>1, RangeAppend
<1>2. CASE h # g
  BY <1>2
<1> QED
  BY <1>1, <1>2

\* The envelope that the Send of m has in hand.
SendEnv(m) == [id |-> m, seq |-> mseq[m]]

\* Where an envelope of Numbered is.
Somewhere(e) ==
  \/ /\ e.seq # 0
     /\ \/ e = held \/ e \in Range(net)
        \/ \E g \in Conns : e \in Range(chan[g])
        \/ e \in Range(queue) \/ e \in Range(batch)
  \/ \E m \in Msgs : InSend(m) /\ e = SendEnv(m)

\* Numbered, now and after a step, by the places it collects.
LEMMA NumberedIs ==
  /\ \A e : e \in Numbered <=> Somewhere(e)
  /\ \A e : e \in Numbered' <=> Somewhere(e)'
BY Zenon DEF Numbered, Somewhere, InSend, SendEnv

\* Sequence numbers are natural numbers.
LEMMA NumberedType ==
  ASSUME TypeOK, NEW e \in Numbered
  PROVE  e.seq \in Nat
<1>1. Somewhere(e)
  BY NumberedIs
<1>2. CASE e = held
  BY <1>2 DEF TypeOK, Env, NoEnv
<1>3. CASE e \in Range(net)
  <2>1. PICK i \in DOMAIN net : e = net[i]
    BY <1>3 DEF Range
  <2>2. net \in Seq(Env)
    BY DEF TypeOK
  <2>3. e \in Env
    BY <2>1, <2>2
  <2> QED
    BY <2>3 DEF Env
<1>4. CASE \E g \in Conns : e \in Range(chan[g])
  <2>1. PICK g \in Conns : e \in Range(chan[g])
    BY <1>4
  <2>2. PICK i \in DOMAIN chan[g] : e = chan[g][i]
    BY <2>1 DEF Range
  <2>3. chan[g] \in Seq(Env)
    BY DEF TypeOK
  <2>4. e \in Env
    BY <2>2, <2>3
  <2> QED
    BY <2>4 DEF Env
<1>5. CASE e \in Range(queue) \/ e \in Range(batch)
  BY <1>5 DEF Range, TypeOK
<1>6. CASE \E m \in Msgs : InSend(m) /\ e = SendEnv(m)
  BY <1>6 DEF TypeOK, SendEnv
<1> QED
  BY <1>1, <1>2, <1>3, <1>4, <1>5, <1>6 DEF Somewhere

\* A step moves envelopes between their places, but for those in X.
Moves(X) ==
  /\ held' \in {held, NoEnv} \cup X
  /\ Range(net') \subseteq Range(net) \cup X
  /\ \A g \in Conns : Range(chan'[g]) \subseteq Range(chan[g]) \cup X
  /\ Range(queue') \subseteq Range(queue) \cup X
  /\ Range(batch') \subseteq Range(batch) \cup Range(queue) \cup X
  /\ \A m \in Msgs : InSend(m)' =>
       \/ InSend(m) /\ mseq'[m] = mseq[m]
       \/ SendEnv(m)' \in X /\ mseq'[m] # 0

\* After such a step nothing is numbered that was not, but for X.
LEMMA NumberedMoves ==
  ASSUME NEW X, Moves(X), NEW e \in Numbered'
  PROVE  e \in Numbered \/ (e \in X /\ e.seq # 0)
<1>1. Somewhere(e)'
  BY NumberedIs
<1>2. CASE \E m \in Msgs : InSend(m)' /\ e = SendEnv(m)'
  <2>1. PICK m \in Msgs : InSend(m)' /\ e = SendEnv(m)'
    BY <1>2
  <2>2. CASE InSend(m) /\ mseq'[m] = mseq[m]
    <3>1. Somewhere(e)
      BY <2>1, <2>2 DEF Somewhere, SendEnv
    <3> QED
      BY <3>1, NumberedIs
  <2>3. CASE SendEnv(m)' \in X /\ mseq'[m] # 0
    BY <2>1, <2>3 DEF SendEnv
  <2> QED
    BY <2>1, <2>2, <2>3 DEF Moves
<1>3. ASSUME e.seq # 0, e \notin X,
             \/ e = held' \/ e \in Range(net)'
             \/ \E g \in Conns : e \in Range(chan[g])'
             \/ e \in Range(queue)' \/ e \in Range(batch)'
      PROVE  e \in Numbered
  <2>1. Somewhere(e)
    BY <1>3 DEF Moves, Somewhere, NoEnv
  <2> QED
    BY <2>1, NumberedIs
<1> QED
  BY <1>1, <1>2, <1>3 DEF Somewhere

\* A step that keeps the numbers: what is in X has its number already, or has
\* none, or is the one envelope with the number just given.
LEMMA NumbersKept ==
  ASSUME TypeOK, SeqIdentifiesEnvelope, restarts' = restarts, NEW x, Moves({x}),
         \/ x \in Numbered /\ seq' = seq
         \/ x.seq = 0 /\ seq' \in {seq, seq + 1}
         \/ x.seq = seq + 1 /\ seq' = seq + 1
  PROVE  SeqIdentifiesEnvelope'
<1> SUFFICES ASSUME restarts = 0
             PROVE  \A e \in Numbered' :
                      /\ e.seq <= seq'
                      /\ \A f \in Numbered' : e.seq = f.seq => e = f
  BY DEF SeqIdentifiesEnvelope
<1>1. /\ seq \in Nat
      /\ \A e \in Numbered : e.seq \in Nat /\ e.seq <= seq
      /\ \A e, f \in Numbered : e.seq = f.seq => e = f
  BY NumberedType DEF TypeOK, SeqIdentifiesEnvelope
<1>2. \A e \in Numbered' : e \in Numbered \/ (e = x /\ e.seq # 0)
  BY NumberedMoves
<1> QED
  BY <1>1, <1>2

\* The steps of Send give away the envelope that Send has in hand.
LEMMA SendNumbers ==
  ASSUME TypeOK, SeqIdentifiesEnvelope, NEW m \in Msgs, Send(m)
  PROVE  SeqIdentifiesEnvelope'
<1> USE DEF InSend
<1>1. restarts' = restarts /\ seq' = seq /\ seq \in Nat
  BY DEF Send, SendCapture, SendTry, SendEnqueue, SendEnqueueFail, SendReturn,
         dataVars, TypeOK
<1>2. InSend(m) /\ SendEnv(m) \in Numbered
  <2>1. InSend(m)
    BY DEF Send, SendCapture, SendTry, SendEnqueue, SendEnqueueFail
  <2>2. Somewhere(SendEnv(m))
    BY <2>1 DEF Somewhere
  <2> QED
    BY <2>1, <2>2, NumberedIs
<1>3. SendEnv(m) \in Env
  BY EnvTypes DEF TypeOK, SendEnv
<1>4. \A o \in Msgs : InSend(o)' => InSend(o) /\ mseq'[o] = mseq[o]
  BY <1>2 DEF Send, SendCapture, SendTry, SendEnqueue, SendEnqueueFail,
              SendReturn, TypeOK
<1>5. held' = held /\ net' = net /\ batch' = batch
  BY DEF Send, SendCapture, SendTry, SendEnqueue, SendEnqueueFail,
         connVars, pathVars
<1>6. \A g \in Conns :
         Range(chan'[g]) \subseteq Range(chan[g]) \cup {SendEnv(m)}
  <2>1. CASE chan' = chan
    BY <2>1
  <2>2. CASE chan' = [chan EXCEPT ![cap[m]] = Append(@, SendEnv(m))]
    BY <2>2, <1>3, ChanPush DEF TypeOK
  <2> QED
    BY <2>1, <2>2 DEF Send, SendCapture, SendTry, SendEnqueue,
                      SendEnqueueFail, pathVars, SendEnv
<1>7. Range(queue') \subseteq Range(queue) \cup {SendEnv(m)}
  <2>1. CASE queue' = queue
    BY <2>1
  <2>2. CASE queue' = Put(queue, SendKey(m), SendEnv(m))
    BY <2>2 DEF Put, Range
  <2> QED
    BY <2>1, <2>2 DEF Send, SendCapture, SendTry, SendEnqueue,
                      SendEnqueueFail, dataVars, diskVars, SendEnv
<1>8. Moves({SendEnv(m)})
  BY <1>4, <1>5, <1>6, <1>7 DEF Moves
<1> HIDE DEF InSend
<1> QED
  BY <1>1, <1>2, <1>8, NumbersKept

\* A call of Send takes the next number.
LEMMA SendSeqNumbers ==
  ASSUME TypeOK, SeqIdentifiesEnvelope, NEW m \in Msgs, SendSeq(m),
         UNCHANGED <<pathVars, batch, dataVars>>
  PROVE  SeqIdentifiesEnvelope'
<1>1. seq \in Nat /\ seq' = seq + 1 /\ restarts' = restarts
  BY DEF SendSeq, TypeOK, dataVars
<1>2. SendEnv(m)' = [id |-> m, seq |-> seq + 1]
  BY DEF SendSeq, TypeOK, SendEnv
<1>3. \A o \in Msgs \ {m} : snd'[o] = snd[o] /\ mseq'[o] = mseq[o]
  BY DEF SendSeq, TypeOK
<1>4. mseq'[m] # 0
  BY <1>1 DEF SendSeq, TypeOK
<1>5. Moves({SendEnv(m)'})
  BY <1>3, <1>4, Zenon DEF Moves, InSend, pathVars, dataVars, diskVars
<1>6. SendEnv(m)'.seq = seq + 1
  BY <1>2
<1> HIDE DEF SendEnv
<1> QED
  BY <1>1, <1>5, <1>6, NumbersKept

\* Steps that add nothing to what is held.
LEMMA QuietNumbers ==
  ASSUME TypeOK, SeqIdentifiesEnvelope,
         restarts' = restarts, seq' \in {seq, seq + 1},
         held' \in {held, NoEnv}, net' \in {net, <<>>},
         batch' \in {batch, Empty},
         UNCHANGED <<chan, queue, mseq>>,
         \A m \in Msgs : InSend(m)' => InSend(m)
  PROVE  SeqIdentifiesEnvelope'
<1>2. Moves({NoEnv})
  BY RangeEmpty DEF Moves
<1>3. NoEnv.seq = 0
  BY DEF NoEnv
<1> QED
  BY <1>2, <1>3, NumbersKept

\* Every step keeps the numbers apart.
LEMMA SeqStep ==
  ASSUME TypeOK, ConnInv, SeqIdentifiesEnvelope, Next
  PROVE  SeqIdentifiesEnvelope'
<1> USE ConstantTypes
<1>1. ASSUME NEW m \in Msgs, Send(m)
      PROVE  SeqIdentifiesEnvelope'
  BY <1>1, SendNumbers
<1>2. ASSUME NEW m \in Msgs, SendSeq(m),
             UNCHANGED <<connVars, pathVars, dataVars>>
      PROVE  SeqIdentifiesEnvelope'
  BY <1>2, SendSeqNumbers DEF connVars
<1>3. CASE \/ \E d \in Reports : DiscoveryScan(d)
           \/ \E r \in Runs, o \in {"finished", "cancelled"} : RunFinish(r, o)
           \/ \E p \in Pings : DispatchPing(p)
  BY <1>2, <1>3 DEF DiscoveryScan, RunFinish, DispatchPing
<1>4. CASE \/ Dial \/ DialFail \/ HandshakeOk \/ HandshakeFail \/ PublishOut
           \/ ReplayDone \/ TearDown \/ BackoffWait
           \/ ReaderReturn \/ WriterReturn \/ HeartbeatTick \/ HeartbeatReturn
           \/ LinkCut \/ Shutdown
  <2>1. /\ restarts' = restarts /\ seq' \in {seq, seq + 1}
        /\ UNCHANGED <<chan, queue, mseq, snd>>
    BY <1>4 DEF Dial, DialFail, HandshakeOk, HandshakeFail, PublishOut,
           ReplayDone, TearDown, BackoffWait, ReaderReturn, WriterReturn,
           HeartbeatTick, HeartbeatReturn, LinkCut, Shutdown, appVars, sendVars,
           pathVars, dataVars, diskVars
  <2>2. /\ held' \in {held, NoEnv} /\ net' \in {net, <<>>}
        /\ batch' \in {batch, Empty}
    BY <1>4 DEF Dial, DialFail, HandshakeOk, HandshakeFail, PublishOut,
           ReplayDone, TearDown, BackoffWait, ReaderReturn, WriterReturn,
           HeartbeatTick, HeartbeatReturn, LinkCut, Shutdown, pathVars
  <2> QED
    BY <2>1, <2>2, QuietNumbers DEF InSend
<1>5. ASSUME NEW r \in Runs, DispatchRunBackup(r)
      PROVE  SeqIdentifiesEnvelope'
  <2>1. /\ UNCHANGED <<restarts, seq, held, net, batch, chan, queue, mseq>>
        /\ \A m \in Msgs : InSend(m)' => InSend(m)
    BY <1>5 DEF DispatchRunBackup, connVars, pathVars, dataVars, diskVars,
                TypeOK, InSend
  <2> QED
    BY <2>1, QuietNumbers
<1>6. CASE ReplayPop
  <2>1. Range(batch') \subseteq Range(queue)
    BY <1>6, RangeEmpty DEF ReplayPop, DequeueJobs, Range
  <2>2. UNCHANGED <<restarts, seq, held, net, chan, queue, mseq, snd>>
    BY <1>6 DEF ReplayPop, appVars, sendVars, pathVars, dataVars, diskVars
  <2>3. Moves({NoEnv})
    BY <2>1, <2>2 DEF Moves, InSend
  <2> QED
    BY <2>2, <2>3, NumbersKept DEF NoEnv
<1>7. ASSUME NEW k \in DOMAIN batch, NEW acked \in BOOLEAN,
             ReplayPush(k, acked)
      PROVE  SeqIdentifiesEnvelope'
  <2>1. UNCHANGED <<restarts, seq, held, net, mseq, snd>>
    BY <1>7 DEF ReplayPush, appVars, sendVars
  <2>2. batch[k] \in Env /\ batch[k] \in Range(batch)
    BY EnvTypes DEF TypeOK, Range
  <2>3. \A g \in Conns :
           Range(chan'[g]) \subseteq Range(chan[g]) \cup {batch[k]}
    BY <1>7, <2>2, ChanPush DEF ReplayPush, TypeOK
  <2>4. /\ Range(batch') \subseteq Range(batch)
        /\ Range(queue') \subseteq Range(queue)
    BY <1>7 DEF ReplayPush, Del, Range
  <2>5. Moves({batch[k]})
    BY <2>1, <2>3, <2>4 DEF Moves, InSend
  <2>6. batch[k] \in Numbered \/ batch[k].seq = 0
    BY <2>2, NumberedIs DEF Somewhere
  <2> QED
    BY <2>1, <2>5, <2>6, NumbersKept
<1>8. CASE WriterTake
  <2> DEFINE e == Head(chan[outRef])
  <2>1. UNCHANGED <<restarts, net, mseq, snd, queue, batch>>
    BY <1>8 DEF WriterTake, connVars, dataVars, diskVars
  <2>2. outRef \in Conns /\ chan[outRef] \in Seq(Env) /\ chan[outRef] # <<>>
    BY <1>8 DEF WriterTake, TypeOK, ConnInv, LoopsEndWithConnection,
                OutPublished, Conns
  <2>3. /\ Range(Tail(chan[outRef])) \subseteq Range(chan[outRef])
        /\ e \in Range(chan[outRef])
    BY <2>2, RangeTail
  <2>4. chan' = [chan EXCEPT ![outRef] = Tail(chan[outRef])]
    BY <1>8 DEF WriterTake
  <2>5. \A g \in Conns : Range(chan'[g]) \subseteq Range(chan[g])
    BY <2>2, <2>3, <2>4 DEF TypeOK
  <2>6. CASE e.seq = 0
    <3>1. seq' = seq + 1 /\ held' = [e EXCEPT !.seq = seq + 1]
      BY <1>8, <2>6 DEF WriterTake
    <3>2. e \in Env
      BY <2>2
    <3>3. held'.seq = seq + 1
      BY <3>1, <3>2 DEF Env
    <3>4. Moves({held'})
      BY <2>1, <2>5 DEF Moves, InSend
    <3> QED
      BY <2>1, <3>1, <3>3, <3>4, NumbersKept
  <2>7. CASE e.seq # 0
    <3>1. seq' = seq /\ held' = e
      BY <1>8, <2>7 DEF WriterTake
    <3>2. Moves({e})
      BY <2>1, <2>5, <3>1 DEF Moves, InSend
    <3>3. e \in Numbered
      BY <2>2, <2>3, <2>7, NumberedIs DEF Somewhere
    <3> QED
      BY <2>1, <3>1, <3>2, <3>3, NumbersKept
  <2> QED
    BY <2>6, <2>7
<1>9. CASE WriterWrite
  <2>1. /\ UNCHANGED <<restarts, seq, mseq, snd, chan, queue, batch>>
        /\ held' = NoEnv
    BY <1>9 DEF WriterWrite, appVars, sendVars, connVars, dataVars, diskVars
  <2>2. Range(net') \subseteq Range(net) \cup {held}
    <3>1. CASE net' = net
      BY <3>1
    <3>2. CASE net' = Append(net, held)
      BY <1>9, <3>2, RangeAppend DEF WriterWrite, TypeOK
    <3> QED
      BY <1>9, <3>1, <3>2 DEF WriterWrite
  <2>3. Moves({held})
    BY <2>1, <2>2 DEF Moves, InSend
  <2>4. held \in Numbered \/ held.seq = 0
    BY NumberedIs DEF Somewhere
  <2> QED
    BY <2>1, <2>3, <2>4, NumbersKept
<1>10. CASE HeartbeatEmit
  <2> DEFINE e == [id |-> "heartbeat", seq |-> 0]
  <2>1. UNCHANGED <<restarts, seq, mseq, snd, held, net, queue, batch>>
    BY <1>10 DEF HeartbeatEmit, appVars, sendVars, dataVars, diskVars
  <2>2. chan' = [chan EXCEPT ![outRef] = Append(@, e)] /\ e \in Env
    BY <1>10, EnvTypes DEF HeartbeatEmit
  <2>3. e.seq = 0
    OBVIOUS
  <2> HIDE DEF e
  <2>5. \A g \in Conns : Range(chan'[g]) \subseteq Range(chan[g]) \cup {e}
    BY <2>2, ChanPush DEF TypeOK
  <2>4. Moves({e})
    BY <2>1, <2>5 DEF Moves, InSend
  <2> QED
    BY <2>1, <2>3, <2>4, NumbersKept
<1>11. CASE ServerReceive
  <2>1. UNCHANGED <<restarts, seq, mseq, snd, held, chan, queue, batch>>
    BY <1>11 DEF ServerReceive, appVars, sendVars, connVars, diskVars
  <2>2. Range(net') \subseteq Range(net)
    BY <1>11, RangeTail DEF ServerReceive, TypeOK
  <2>3. Moves({NoEnv})
    BY <2>1, <2>2 DEF Moves, InSend
  <2> QED
    BY <2>1, <2>3, NumbersKept DEF NoEnv
<1>12. CASE Restart
  BY <1>12 DEF Restart, SeqIdentifiesEnvelope, TypeOK
<1> QED
  BY <1>1, <1>3, <1>4, <1>5, <1>6, <1>7, <1>8, <1>9, <1>10, <1>11, <1>12
  DEF Next, MainNext, LoopNext, SenderNext, EnvNext

-----------------------------------------------------------------------------
(***************************************************************************)
(* The keys of the queue.                                                  *)
(***************************************************************************)
\* A Send stores its envelope under a key that says what the record is.
LEMMA KeyedStep ==
  ASSUME TypeOK, Keyed, Next
  PROVE  Keyed'
<1> USE ConstantTypes DEF Keyed, InSend
<1>1. ASSUME NEW m \in Msgs, SendCapture(m) \/ SendTry(m) \/ SendEnqueueFail(m)
      PROVE  Keyed'
  <2>1. queue' = queue
    BY <1>1 DEF SendCapture, SendTry, SendEnqueueFail, dataVars, diskVars
  <2>2. \A o \in Msgs : InSend(o)' => InSend(o) /\ mseq'[o] = mseq[o]
    <3>0. snd \in [Msgs -> SendStates] /\ mseq \in [Msgs -> Nat]
      BY DEF TypeOK
    <3>1. CASE SendCapture(m)
      BY <3>0, <3>1 DEF SendCapture
    <3>2. CASE SendTry(m)
      BY <3>0, <3>2 DEF SendTry, SendReturn
    <3>3. CASE SendEnqueueFail(m)
      BY <3>0, <3>3 DEF SendEnqueueFail, SendReturn
    <3> QED
      BY <1>1, <3>1, <3>2, <3>3
  <2> QED
    BY <2>1, <2>2
<1>2. ASSUME NEW m \in Msgs, SendEnqueue(m)
      PROVE  Keyed'
  <2>1. /\ \A o \in Msgs : InSend(o)' => InSend(o) /\ mseq'[o] = mseq[o]
        /\ queue' = Put(queue, SendKey(m), SendEnv(m))
    BY <1>2 DEF SendEnqueue, SendReturn, TypeOK, SendEnv
  <2>2. \/ SendKey(m) \in Nat /\ SendEnv(m).seq = SendKey(m)
        \/ SendKey(m) \in Pings /\ SendEnv(m).id = SendKey(m)
    BY DEF SendKey, SendEnv, TypeOK
  <2>3. ASSUME NEW k \in DOMAIN queue'
        PROVE  \/ k = SendKey(m) /\ queue'[k] = SendEnv(m)
               \/ k \in DOMAIN queue /\ queue'[k] = queue[k]
    BY <2>1 DEF Put
  <2> QED
    BY <2>1, <2>2, <2>3
<1>3. ASSUME NEW m \in Msgs, SendSeq(m), UNCHANGED dataVars
      PROVE  Keyed'
  BY <1>3 DEF SendSeq, TypeOK, dataVars, diskVars
<1>4. CASE \/ \E d \in Reports : DiscoveryScan(d)
           \/ \E r \in Runs, o \in {"finished", "cancelled"} : RunFinish(r, o)
           \/ \E p \in Pings : DispatchPing(p)
  BY <1>3, <1>4 DEF DiscoveryScan, RunFinish, DispatchPing
<1>5. ASSUME NEW r \in Runs, DispatchRunBackup(r)
      PROVE  Keyed'
  BY <1>5 DEF DispatchRunBackup, TypeOK, dataVars, diskVars
<1>6. ASSUME NEW k \in DOMAIN batch, NEW acked \in BOOLEAN,
             ReplayPush(k, acked)
      PROVE  Keyed'
  <2>1. UNCHANGED <<snd, mseq>>
    BY <1>6 DEF ReplayPush, appVars, sendVars
  <2>2. \A x \in DOMAIN queue' : x \in DOMAIN queue /\ queue'[x] = queue[x]
    BY <1>6 DEF ReplayPush, Del
  <2> QED
    BY <2>1, <2>2
<1>7. CASE Restart
  BY <1>7 DEF Restart, diskVars
<1>8. CASE UNCHANGED <<snd, mseq, queue>>
  BY <1>8
<1> QED
  BY <1>1, <1>2, <1>4, <1>5, <1>6, <1>7, <1>8
  DEF Next, MainNext, LoopNext, SenderNext, EnvNext, Send, Dial, DialFail,
      HandshakeOk, HandshakeFail, PublishOut, ReplayPop, ReplayDone, TearDown,
      BackoffWait, ReaderReturn, WriterTake, WriterWrite, WriterReturn,
      HeartbeatEmit, HeartbeatTick, HeartbeatReturn, ServerReceive, LinkCut,
      Shutdown, appVars, sendVars, dataVars, diskVars

\* In the first process the key a Send stores under is free: its number is
\* nobody else's, and a Ping is answered once.
LEMMA FreeKey ==
  ASSUME TypeOK, OnlyReturnedSends, Keyed, SeqIdentifiesEnvelope, restarts = 0,
         NEW m \in Msgs, InSend(m)
  PROVE  SendKey(m) \notin DOMAIN queue
<1> SUFFICES ASSUME SendKey(m) \in DOMAIN queue
             PROVE  FALSE
  OBVIOUS
<1> DEFINE k == SendKey(m)
           e == queue[k]
<1>1. e \in Range(queue) /\ e \in [id : Msgs, seq : Nat]
  BY DEF Range, TypeOK
<1>2. snd[e.id] = "done"
  BY DEF OnlyReturnedSends
<1>3. e.id # m
  BY <1>2 DEF InSend
<1>4. CASE m \in Pings
  <2>1. k = m /\ k \notin Nat
    BY <1>4, WssAssumption DEF SendKey
  <2> QED
    BY <1>3, <2>1 DEF Keyed
<1>5. CASE m \notin Pings
  <2>1. k = mseq[m] /\ k \in Nat /\ k # 0
    BY <1>5 DEF SendKey, Keyed, TypeOK
  <2>2. k \notin Pings
    BY <2>1, WssAssumption
  <2>3. e.seq = k
    BY <2>2 DEF Keyed
  <2>4. e \in Numbered
    BY <1>1, <2>1, <2>3, NumberedIs DEF Somewhere
  <2>5. SendEnv(m) \in Numbered
    BY NumberedIs DEF Somewhere
  <2>6. SendEnv(m).seq = k /\ SendEnv(m).id = m
    BY <2>1 DEF SendEnv
  <2>7. e = SendEnv(m)
    BY <2>3, <2>4, <2>5, <2>6 DEF SeqIdentifiesEnvelope
  <2> QED
    BY <1>3, <2>6, <2>7
<1> QED
  BY <1>4, <1>5

\* Until the first restart nothing is overwritten or Acked away for another.
LEMMA FreshStep ==
  ASSUME TypeOK, ConnInv, OnlyReturnedSends, Keyed, SeqIdentifiesEnvelope,
         Fresh, Next
  PROVE  Fresh'
<1> SUFFICES ASSUME restarts' = 0
             PROVE  clobbered' = {} /\ BatchOnDisk'
  BY DEF Fresh
<1>1. ~Restart /\ restarts = 0
  <2>1. restarts \in Nat
    BY DEF TypeOK
  <2>2. ~Restart
    BY <2>1 DEF Restart
  <2>3. restarts' = restarts
    <3>1. CASE MainNext
      BY <3>1 DEF MainNext, Dial, DialFail, HandshakeOk, HandshakeFail,
                  PublishOut, ReplayPop, ReplayDone, TearDown, BackoffWait,
                  ReplayPush, dataVars
    <3>2. CASE LoopNext
      BY <3>2 DEF LoopNext, ReaderReturn, WriterTake, WriterWrite,
                  WriterReturn, HeartbeatEmit, HeartbeatTick, HeartbeatReturn,
                  DispatchRunBackup, DispatchPing, dataVars
    <3>3. CASE SenderNext
      BY <3>3 DEF SenderNext, Send, SendCapture, SendTry, SendEnqueue,
                  SendEnqueueFail, DiscoveryScan, RunFinish, dataVars
    <3>4. CASE EnvNext
      BY <2>2, <3>4 DEF EnvNext, ServerReceive, LinkCut, Shutdown, dataVars
    <3> QED
      BY <3>1, <3>2, <3>3, <3>4 DEF Next
  <2> QED
    BY <2>2, <2>3
<1>2. clobbered = {} /\ BatchOnDisk
  BY <1>1 DEF Fresh
<1> USE DEF BatchOnDisk
<1>3. ASSUME NEW m \in Msgs, SendEnqueue(m)
      PROVE  clobbered' = {} /\ BatchOnDisk'
  <2>1. SendKey(m) \notin DOMAIN queue
    BY <1>1, <1>3, FreeKey DEF SendEnqueue, InSend
  <2>2. queue' = Put(queue, SendKey(m), SendEnv(m)) /\ batch' = batch
    BY <1>3 DEF SendEnqueue, SendEnv, connVars
  <2>3. \A k \in DOMAIN queue : k \in DOMAIN queue' /\ queue'[k] = queue[k]
    BY <2>1, <2>2 DEF Put
  <2>4. clobbered' = clobbered
    BY <1>3, <2>1 DEF SendEnqueue
  <2> QED
    BY <1>2, <2>2, <2>3, <2>4
<1>4. ASSUME NEW k \in DOMAIN batch, NEW acked \in BOOLEAN,
             ReplayPush(k, acked)
      PROVE  clobbered' = {} /\ BatchOnDisk'
  <2>1. queue[k] = batch[k]
    BY <1>2
  <2>2. clobbered' = clobbered
    BY <1>4, <2>1 DEF ReplayPush
  <2>3. \A x \in DOMAIN batch' : x # k /\ x \in DOMAIN batch /\ batch'[x] = batch[x]
    BY <1>4 DEF ReplayPush, Del
  <2>4. \A x \in DOMAIN queue : x # k => x \in DOMAIN queue' /\ queue'[x] = queue[x]
    BY <1>4 DEF ReplayPush, Del
  <2> QED
    BY <1>2, <2>2, <2>3, <2>4
<1>5. CASE ReplayPop
  <2>1. \A k \in DOMAIN batch' : k \in DOMAIN queue /\ batch'[k] = queue[k]
    BY <1>5 DEF ReplayPop, DequeueJobs, Empty
  <2> QED
    BY <1>2, <1>5, <2>1 DEF ReplayPop, dataVars, diskVars
<1>6. CASE ReplayDone
  BY <1>2, <1>6 DEF ReplayDone, Empty, dataVars, diskVars
<1>7. CASE UNCHANGED <<queue, batch, clobbered>>
  BY <1>2, <1>7
<1> QED
  BY <1>1, <1>3, <1>4, <1>5, <1>6, <1>7
  DEF Next, MainNext, LoopNext, SenderNext, EnvNext, Send, SendCapture,
      SendTry, SendEnqueueFail, DiscoveryScan, RunFinish, DispatchPing,
      DispatchRunBackup, Dial, DialFail, HandshakeOk, HandshakeFail,
      PublishOut, TearDown, BackoffWait, ReaderReturn, WriterTake, WriterWrite,
      WriterReturn, HeartbeatEmit, HeartbeatTick, HeartbeatReturn,
      ServerReceive, LinkCut, Shutdown, connVars, dataVars, diskVars

\* The websocket is gone when the goroutine of Start is between two.
LEMMA UnlinkedStep ==
  ASSUME TypeOK, Unlinked, Next
  PROVE  Unlinked'
<1> USE DEF Unlinked
<1>1. CASE MainNext
  BY <1>1 DEF MainNext, Dial, DialFail, HandshakeOk, HandshakeFail, PublishOut,
              ReplayPop, ReplayDone, TearDown, BackoffWait, ReplayPush, Goto
<1>2. CASE LoopNext
  BY <1>2 DEF LoopNext, ReaderReturn, WriterTake, WriterWrite, WriterReturn,
              HeartbeatEmit, HeartbeatTick, HeartbeatReturn, LoopReturn,
              DispatchRunBackup, DispatchPing, connVars
<1>3. CASE SenderNext
  BY <1>3 DEF SenderNext, Send, SendCapture, SendTry, SendEnqueue,
              SendEnqueueFail, DiscoveryScan, RunFinish, connVars
<1>4. CASE EnvNext
  BY <1>4 DEF EnvNext, ServerReceive, LinkCut, Shutdown, Restart, connVars
<1> QED
  BY <1>1, <1>2, <1>3, <1>4 DEF Next

\* Everything that holds whether or not the store may fail.
KInv == IInv /\ SeqIdentifiesEnvelope /\ Keyed /\ Fresh /\ Unlinked

\* It holds when the agent starts.
LEMMA InitKInv == Init => KInv
<1> SUFFICES ASSUME Init PROVE KInv
  OBVIOUS
<1>1. IInv
  BY InitIInv
<1>2. Keyed /\ Fresh /\ Unlinked
  BY DEF Init, Keyed, Fresh, Unlinked, BatchOnDisk, InSend, Empty
<1>3. \A e : ~Somewhere(e)
  <2>1. \A g \in Conns : Range(chan[g]) = {}
    BY RangeEmpty DEF Init
  <2>2. Range(net) = {} /\ Range(queue) = {} /\ Range(batch) = {}
    BY RangeEmpty DEF Init
  <2>3. held.seq = 0
    BY DEF Init, NoEnv
  <2> QED
    BY <2>1, <2>2, <2>3 DEF Init, Somewhere, InSend
<1>4. SeqIdentifiesEnvelope
  BY <1>3, NumberedIs DEF SeqIdentifiesEnvelope
<1> QED
  BY <1>1, <1>2, <1>4 DEF KInv

\* Every step keeps it.
LEMMA NextKInv == KInv /\ [Next]_vars => KInv'
<1>1. ASSUME KInv, Next PROVE KInv'
  <2>1. /\ IInv /\ TypeOK /\ ConnInv /\ OnlyReturnedSends
        /\ SeqIdentifiesEnvelope /\ Keyed /\ Fresh /\ Unlinked
    BY <1>1 DEF KInv, IInv
  <2>2. IInv'
    BY <1>1, <2>1, NextIInv
  <2>3. SeqIdentifiesEnvelope' /\ Keyed' /\ Fresh' /\ Unlinked'
    BY <1>1, <2>1, SeqStep, KeyedStep, FreshStep, UnlinkedStep
  <2> QED
    BY <2>2, <2>3 DEF KInv
<1>2. ASSUME KInv, UNCHANGED vars PROVE KInv'
  <2>1. IInv /\ SeqIdentifiesEnvelope /\ Keyed /\ Fresh /\ Unlinked
    BY <1>2 DEF KInv
  <2>2. IInv'
    BY <1>2, <2>1, StutterIInv
  <2>3. UNCHANGED <<held, net, chan, queue, batch, snd, mseq, seq, restarts>>
    BY <1>2 DEF vars, appVars, sendVars, connVars, pathVars, dataVars, diskVars
  <2>4. \A e : Somewhere(e)' <=> Somewhere(e)
    BY <2>3 DEF Somewhere, InSend, SendEnv
  <2>5. SeqIdentifiesEnvelope'
    BY <2>1, <2>3, <2>4, NumberedIs DEF SeqIdentifiesEnvelope
  <2>6. Keyed' /\ Fresh' /\ Unlinked'
    BY <1>2, <2>1 DEF Keyed, Fresh, Unlinked, BatchOnDisk, InSend, vars,
       appVars, sendVars, connVars, dataVars, diskVars
  <2> QED
    BY <2>2, <2>5, <2>6 DEF KInv
<1> QED
  BY <1>1, <1>2

\* So it always holds.
LEMMA KInvHolds == Spec => []KInv
BY InitKInv, NextKInv, PTL DEF Spec

\* Send, handshake and writeLoop number envelopes from one counter: in the
\* first process no two of those the agent holds share a number, whichever way
\* they went.
THEOREM NumbersIdentify == Spec => []SeqIdentifiesEnvelope
<1>1. KInv => SeqIdentifiesEnvelope
  BY DEF KInv
<1> QED
  BY <1>1, KInvHolds, PTL

\* So no record of the queue is overwritten by Send, or Acked by replayQueue,
\* on behalf of another one before the process has been restarted.
THEOREM KeysAreOwn == Spec => []NoClobberInOneProcess
<1>1. KInv => NoClobberInOneProcess
  BY DEF KInv, Fresh, NoClobberInOneProcess
<1> QED
  BY <1>1, KInvHolds, PTL

-----------------------------------------------------------------------------
(***************************************************************************)
(* How many copies of an envelope there are.                               *)
(***************************************************************************)
\* A channel that takes a message it does not hold holds none twice.
LEMMA NoTwinAppend ==
  ASSUME NEW s \in Seq(Env), NEW e \in Env, NoTwin(s),
         e.id \in Msgs => e.id \notin Ids(s)
  PROVE  NoTwin(Append(s, e))
<1>1. /\ DOMAIN Append(s, e) = DOMAIN s \cup {Len(s) + 1}
      /\ Append(s, e)[Len(s) + 1] = e
      /\ \A i \in DOMAIN s : Append(s, e)[i] = s[i]
  OBVIOUS
<1>2. \A i \in DOMAIN s : s[i].id \in Ids(s)
  BY DEF Ids
<1> QED
  BY <1>1, <1>2 DEF NoTwin

\* A message taken from a channel is not there a second time.
LEMMA NoTwinTail ==
  ASSUME NEW s \in Seq(Env), s # <<>>, NoTwin(s)
  PROVE  /\ NoTwin(Tail(s))
         /\ Head(s).id \in Msgs => Head(s).id \notin Ids(Tail(s))
<1>1. /\ Head(s) = s[1] /\ 1 \in DOMAIN s
      /\ DOMAIN Tail(s) \subseteq Nat \ {0}
      /\ \A i \in DOMAIN Tail(s) : i + 1 \in DOMAIN s /\ Tail(s)[i] = s[i + 1]
  OBVIOUS
<1>2. NoTwin(Tail(s))
  BY <1>1 DEF NoTwin
<1>3. ASSUME NEW i \in DOMAIN Tail(s), Head(s).id \in Msgs,
             Tail(s)[i].id = Head(s).id
      PROVE  FALSE
  BY <1>1, <1>3 DEF NoTwin
<1> QED
  BY <1>2, <1>3 DEF Ids

\* An empty channel holds no message.
LEMMA IdsEmpty == Ids(<<>>) = {} /\ NoTwin(<<>>)
BY DEF Ids, NoTwin

\* What the disk and the batch hold only gets less.
LEMMA OneKeyShrinks ==
  ASSUME OneKey,
         \A k \in DOMAIN queue' : k \in DOMAIN queue /\ queue'[k] = queue[k],
         \A k \in DOMAIN batch' : k \in DOMAIN batch /\ batch'[k] = batch[k]
  PROVE  OneKey' /\ QueueIds' \subseteq QueueIds /\ BatchIds' \subseteq BatchIds
<1>1. OneKey'
  BY DEF OneKey
<1>2. QueueIds' \subseteq QueueIds /\ BatchIds' \subseteq BatchIds
  BY DEF QueueIds, BatchIds
<1> QED
  BY <1>1, <1>2

\* A step that moves no envelope on its way.
LEMMA CopiesFrame ==
  ASSUME TypeOK, Copies, UNCHANGED <<handed, queue, delivered, chan>>,
         held' \in {held, NoEnv}, net' \in {net, <<>>},
         batch' \in {batch, Empty}, held' = NoEnv \/ conns' = conns
  PROVE  Copies'
<1>1. OneKey' /\ QueueIds' \subseteq QueueIds /\ BatchIds' \subseteq BatchIds
  BY OneKeyShrinks DEF Copies, Empty
<1>2. (\A g \in Conns : NoTwin(chan[g])') /\ NoTwin(net)'
  BY IdsEmpty DEF Copies
<1>3. NoEnv.id \notin Msgs
  BY ConstantTypes DEF NoEnv
<1>4. Ids(net') \subseteq Ids(net)
  BY IdsEmpty
<1>5. ASSUME NEW m \in Msgs
      PROVE  Placed(m)'
  <2>1. Placed(m)
    BY DEF Copies
  <2> QED
    BY <1>1, <1>3, <1>4, <2>1 DEF Placed
<1> QED
  BY <1>1, <1>2, <1>5 DEF Copies

\* A message that no channel had goes into one.
LEMMA PushCopies ==
  ASSUME TypeOK, Copies, NEW e \in Env, e.id \in Msgs, NEW g \in Conns,
         handed[e.id] = 0,
         chan' = [chan EXCEPT ![g] = Append(@, e)],
         handed' = [handed EXCEPT ![e.id] = g],
         UNCHANGED <<held, net, delivered, conns>>,
         OneKey', QueueIds' \subseteq QueueIds, BatchIds' \subseteq BatchIds,
         e.id \notin QueueIds' \cup BatchIds'
  PROVE  Copies'
<1> DEFINE m == e.id
<1>1. /\ \A h \in Conns : chan[h] \in Seq(Env) /\ m \notin Ids(chan[h])
      /\ m # held.id /\ m \notin Ids(net) /\ delivered[m] = 0
  <2>1. Placed(m)
    BY DEF Copies
  <2>2. \A h \in Conns : h # 0
    BY DEF Conns
  <2>3. \A h \in Conns : chan[h] \in Seq(Env)
    BY DEF TypeOK
  <2> HIDE DEF m
  <2>4. handed[m] = 0
    BY DEF m
  <2> QED
    BY <2>1, <2>2, <2>3, <2>4 DEF Placed
<1>2. /\ \A h \in Conns \ {g} : chan'[h] = chan[h]
      /\ chan'[g] = Append(chan[g], e)
      /\ handed'[m] = g /\ g # 0
      /\ \A o \in Msgs \ {m} : handed'[o] = handed[o]
  BY DEF TypeOK, Conns
<1>3. Ids(chan'[g]) = Ids(chan[g]) \cup {m}
  BY <1>1, <1>2, IdsAppend
<1>4. \A h \in Conns : NoTwin(chan'[h])
  BY <1>1, <1>2, NoTwinAppend DEF Copies
<1>5. ASSUME NEW o \in Msgs
      PROVE  Placed(o)'
  <2>1. Placed(o)
    BY DEF Copies
  <2>2. CASE o = m
    BY <1>1, <1>2, <1>3, <2>2 DEF Placed
  <2>3. CASE o # m
    BY <1>2, <1>3, <2>1, <2>3 DEF Placed
  <2> QED
    BY <2>2, <2>3
<1> QED
  BY <1>4, <1>5 DEF Copies

\* Every step keeps one copy at most, if no transaction of the store fails.
LEMMA CopiesStep ==
  ASSUME ~StoreMayFail, TypeOK, ConnInv, OnlyReturnedSends, Copies, Next
  PROVE  Copies'
<1> USE ConstantTypes
<1>1. ASSUME NEW m \in Msgs, SendTry(m), Len(chan[cap[m]]) < OutCap
      PROVE  Copies'
  <2>1. /\ chan' = [chan EXCEPT ![cap[m]] = Append(@, SendEnv(m))]
        /\ handed' = [handed EXCEPT ![m] = cap[m]]
        /\ UNCHANGED <<held, net, delivered, conns, queue, batch>>
        /\ snd[m] = "captured"
    BY <1>1 DEF SendTry, SendEnv, connVars, diskVars
  <2>2. SendEnv(m) \in Env /\ SendEnv(m).id = m
    BY EnvTypes DEF TypeOK, SendEnv
  <2>3. cap[m] \in Conns /\ handed[m] = 0
    BY <2>1 DEF TypeOK, OnlyReturnedSends, Conns
  <2>4. m \notin QueueIds \cup BatchIds
    BY <2>1 DEF OnlyReturnedSends, QueueIds, BatchIds
  <2>5. OneKey' /\ QueueIds' = QueueIds /\ BatchIds' = BatchIds
    BY <2>1 DEF Copies, OneKey, QueueIds, BatchIds
  <2> HIDE DEF SendEnv
  <2> QED
    BY <2>1, <2>2, <2>3, <2>4, <2>5, PushCopies
<1>2. ASSUME NEW m \in Msgs, SendEnqueue(m)
      PROVE  Copies'
  <2> DEFINE k == SendKey(m)
  <2>1. /\ queue' = Put(queue, k, SendEnv(m)) /\ snd[m] = "enqueue"
        /\ UNCHANGED <<handed, chan, held, net, delivered, conns, batch>>
    BY <1>2 DEF SendEnqueue, SendEnv, connVars, pathVars, histVars
  <2>2. SendEnv(m).id = m
    BY DEF SendEnv
  <2> HIDE DEF k
  <2>3. \A x \in DOMAIN queue' :
           \/ x = k /\ queue'[x].id = m
           \/ x \in DOMAIN queue /\ queue'[x] = queue[x]
    BY <2>1, <2>2 DEF Put
  <2>4. /\ \A x \in DOMAIN queue : queue[x].id # m
        /\ \A x \in DOMAIN batch : batch[x].id # m
        /\ handed[m] = 0
    BY <2>1 DEF OnlyReturnedSends
  <2>5. OneKey'
    BY <2>1, <2>3, <2>4 DEF Copies, OneKey
  <2>6. QueueIds' \subseteq QueueIds \cup {m} /\ BatchIds' = BatchIds
    BY <2>1, <2>3 DEF QueueIds, BatchIds
  <2>7. ASSUME NEW o \in Msgs
        PROVE  Placed(o)'
    <3>1. Placed(o)
      BY DEF Copies
    <3> QED
      BY <2>1, <2>4, <2>6, <3>1 DEF Placed
  <2> QED
    BY <2>1, <2>5, <2>7 DEF Copies
<1>3. CASE ReplayPop
  <2>1. \A k \in DOMAIN batch' : k \in DOMAIN queue /\ batch'[k] = queue[k]
    BY <1>3 DEF ReplayPop, DequeueJobs, Empty
  <2>2. UNCHANGED <<handed, chan, held, net, delivered, conns, queue>>
    BY <1>3 DEF ReplayPop, pathVars, dataVars, diskVars, histVars
  <2>3. OneKey'
    BY <2>1, <2>2 DEF Copies, OneKey
  <2>4. QueueIds' = QueueIds /\ BatchIds' \subseteq QueueIds
    BY <2>1, <2>2 DEF QueueIds, BatchIds
  <2>5. ASSUME NEW o \in Msgs
        PROVE  Placed(o)'
    <3>1. Placed(o)
      BY DEF Copies
    <3> QED
      BY <2>2, <2>4, <3>1 DEF Placed
  <2> QED
    BY <2>2, <2>3, <2>5 DEF Copies
<1>4. ASSUME NEW k \in DOMAIN batch, NEW acked \in BOOLEAN,
             ReplayPush(k, acked)
      PROVE  Copies'
  <2> DEFINE e == batch[k]
  <2>1. /\ chan' = [chan EXCEPT ![outRef] = Append(@, e)]
        /\ handed' = [handed EXCEPT ![e.id] = outRef]
        /\ UNCHANGED <<held, net, delivered, conns>>
        /\ batch' = Del(batch, k) /\ queue' = Del(queue, k)
    BY <1>4 DEF ReplayPush
  <2>2. e \in Env /\ e.id \in Msgs
    BY EnvTypes DEF TypeOK
  <2>3. outRef \in Conns
    BY <1>4 DEF ReplayPush, TypeOK, ConnInv, OutPublished, Conns
  <2>4. e.id \in BatchIds
    BY DEF BatchIds
  <2>5. handed[e.id] = 0
    BY <2>2, <2>4 DEF Copies, Placed
  <2>6. /\ \A x \in DOMAIN queue' :
             x # k /\ x \in DOMAIN queue /\ queue'[x] = queue[x]
        /\ \A x \in DOMAIN batch' :
             x # k /\ x \in DOMAIN batch /\ batch'[x] = batch[x]
    BY <2>1 DEF Del
  <2>7. OneKey' /\ QueueIds' \subseteq QueueIds /\ BatchIds' \subseteq BatchIds
    BY <2>6, OneKeyShrinks DEF Copies
  <2>8. e.id \notin QueueIds' \cup BatchIds'
    BY <2>6 DEF Copies, OneKey, QueueIds, BatchIds
  <2> HIDE DEF e
  <2> QED
    BY <2>1, <2>2, <2>3, <2>5, <2>7, <2>8, PushCopies
<1>5. CASE WriterTake
  <2> DEFINE e == Head(chan[outRef])
  <2>1. /\ UNCHANGED <<net, conns, queue, batch, handed, delivered>>
        /\ chan' = [chan EXCEPT ![outRef] = Tail(chan[outRef])]
        /\ held = NoEnv
    BY <1>5 DEF WriterTake, connVars, dataVars, diskVars, histVars
  <2>2. /\ outRef \in Conns /\ outRef = conns /\ conns # 0
        /\ chan[outRef] \in Seq(Env) /\ chan[outRef] # <<>>
    BY <1>5 DEF WriterTake, TypeOK, ConnInv, LoopsEndWithConnection,
                OutPublished, Conns
  <2>3. /\ e \in Env /\ Ids(chan[outRef]) = {e.id} \cup Ids(Tail(chan[outRef]))
        /\ NoTwin(Tail(chan[outRef]))
        /\ e.id \in Msgs => e.id \notin Ids(Tail(chan[outRef]))
    BY <2>2, IdsTail, NoTwinTail DEF Copies
  <2>4. held'.id = e.id
    BY <1>5, <2>3 DEF WriterTake, Env
  <2>5. /\ chan'[outRef] = Tail(chan[outRef])
        /\ \A g \in Conns \ {outRef} : chan'[g] = chan[g]
    BY <2>1, <2>2 DEF TypeOK
  <2>6. OneKey' /\ QueueIds' = QueueIds /\ BatchIds' = BatchIds
    BY <2>1 DEF Copies, OneKey, QueueIds, BatchIds
  <2> HIDE DEF e
  <2>7. \A g \in Conns : NoTwin(chan'[g])
    BY <2>3, <2>5 DEF Copies
  <2>8. ASSUME NEW o \in Msgs
        PROVE  Placed(o)'
    <3>1. Placed(o)
      BY DEF Copies
    <3>2. CASE o = e.id
      <4>1. handed[o] = outRef /\ o \notin Ids(net) /\ delivered[o] = 0
        BY <2>2, <2>3, <3>1, <3>2 DEF Placed
      <4>2. \A g \in Conns : o \notin Ids(chan'[g])
        BY <2>3, <2>5, <3>1, <3>2, <4>1 DEF Placed
      <4> QED
        BY <2>1, <2>2, <2>4, <2>6, <3>1, <3>2, <4>1, <4>2 DEF Placed
    <3>3. CASE o # e.id
      <4>1. \A g \in Conns : Ids(chan'[g]) \subseteq Ids(chan[g])
        BY <2>3, <2>5
      <4> QED
        BY <2>1, <2>4, <2>6, <3>1, <3>3, <4>1 DEF Placed
    <3> QED
      BY <3>2, <3>3
  <2> QED
    BY <2>1, <2>6, <2>7, <2>8 DEF Copies
<1>6. CASE WriterWrite /\ link = "up"
  <2>1. /\ UNCHANGED <<chan, conns, queue, batch, handed, delivered>>
        /\ net' = Append(net, held) /\ held' = NoEnv /\ held # NoEnv
    BY <1>6 DEF WriterWrite, connVars, dataVars, diskVars, histVars
  <2>2. held \in Env /\ net \in Seq(Env) /\ NoEnv.id \notin Msgs
    BY <2>1 DEF TypeOK, NoEnv
  <2>3. Ids(net') = Ids(net) \cup {held.id}
    BY <2>1, <2>2, IdsAppend
  <2>4. NoTwin(net')
    BY <2>1, <2>2, NoTwinAppend DEF Copies, Placed
  <2>5. OneKey' /\ QueueIds' = QueueIds /\ BatchIds' = BatchIds
    BY <2>1 DEF Copies, OneKey, QueueIds, BatchIds
  <2>6. ASSUME NEW o \in Msgs
        PROVE  Placed(o)'
    <3>1. Placed(o)
      BY DEF Copies
    <3> QED
      BY <2>1, <2>2, <2>3, <2>5, <3>1 DEF Placed
  <2> QED
    BY <2>1, <2>4, <2>5, <2>6 DEF Copies
<1>7. CASE HeartbeatEmit
  <2> DEFINE e == [id |-> "heartbeat", seq |-> 0]
  <2>1. /\ chan' = [chan EXCEPT ![outRef] = Append(@, e)]
        /\ UNCHANGED <<held, net, conns, queue, batch, handed, delivered>>
    BY <1>7 DEF HeartbeatEmit, dataVars, diskVars, histVars
  <2>2. e \in Env /\ e.id \notin Msgs
    BY EnvTypes
  <2> HIDE DEF e
  <2>3. \A g \in Conns : chan[g] \in Seq(Env) /\ NoTwin(chan[g])
    BY DEF TypeOK, Copies
  <2>4. \A g \in Conns : chan'[g] = chan[g] \/ chan'[g] = Append(chan[g], e)
    BY <2>1 DEF TypeOK
  <2>5. ASSUME NEW g \in Conns
        PROVE  /\ NoTwin(chan'[g])
               /\ Ids(chan'[g]) \subseteq Ids(chan[g]) \cup {e.id}
    <3>1. /\ NoTwin(Append(chan[g], e))
          /\ Ids(Append(chan[g], e)) = Ids(chan[g]) \cup {e.id}
      BY <2>2, <2>3, NoTwinAppend, IdsAppend
    <3> QED
      BY <2>3, <2>4, <3>1
  <2>6. OneKey' /\ QueueIds' = QueueIds /\ BatchIds' = BatchIds
    BY <2>1 DEF Copies, OneKey, QueueIds, BatchIds
  <2>7. ASSUME NEW o \in Msgs
        PROVE  Placed(o)'
    <3>1. Placed(o)
      BY DEF Copies
    <3> QED
      BY <2>1, <2>2, <2>5, <2>6, <3>1 DEF Placed
  <2> QED
    BY <2>1, <2>5, <2>6, <2>7 DEF Copies
<1>8. CASE ServerReceive
  <2> DEFINE e == Head(net)
  <2>1. /\ net # <<>> /\ net' = Tail(net) /\ net \in Seq(Env)
        /\ UNCHANGED <<held, chan, conns, queue, batch, handed>>
        /\ \A m \in Msgs : delivered'[m] = IF m = e.id THEN delivered[m] + 1
                                                       ELSE delivered[m]
    BY <1>8 DEF ServerReceive, connVars, diskVars, TypeOK
  <2>2. /\ Ids(net) = {e.id} \cup Ids(net') /\ NoTwin(net')
        /\ e.id \in Msgs => e.id \notin Ids(net')
    BY <2>1, IdsTail, NoTwinTail DEF Copies
  <2> HIDE DEF e
  <2>3. OneKey' /\ QueueIds' = QueueIds /\ BatchIds' = BatchIds
    BY <2>1 DEF Copies, OneKey, QueueIds, BatchIds
  <2>4. ASSUME NEW o \in Msgs
        PROVE  Placed(o)'
    <3>1. Placed(o)
      BY DEF Copies
    <3>2. CASE o = e.id
      <4>1. /\ handed[o] # 0 /\ delivered[o] = 0 /\ held.id # o
            /\ \A g \in Conns : o \notin Ids(chan[g])
        BY <2>2, <3>1, <3>2 DEF Placed
      <4>2. delivered'[o] = 1
        BY <2>1, <3>2, <4>1
      <4> QED
        BY <2>1, <2>2, <2>3, <3>1, <3>2, <4>1, <4>2 DEF Placed
    <3>3. CASE o # e.id
      BY <2>1, <2>2, <2>3, <3>1, <3>3 DEF Placed
    <3> QED
      BY <3>2, <3>3
  <2> QED
    BY <2>1, <2>2, <2>3, <2>4 DEF Copies
<1>9. CASE Dial
  <2>1. held = NoEnv
    BY <1>9 DEF Dial, Goto, ConnInv, LoopsEndWithConnection
  <2> QED
    BY <1>9, <2>1, CopiesFrame DEF Dial, pathVars, dataVars, diskVars, histVars
<1>10. CASE \/ DialFail \/ HandshakeOk \/ HandshakeFail \/ PublishOut
            \/ ReplayDone \/ TearDown \/ BackoffWait
  BY <1>10, CopiesFrame DEF DialFail, HandshakeOk, HandshakeFail, PublishOut,
       ReplayDone, TearDown, BackoffWait, pathVars, dataVars, diskVars, histVars
<1>11. CASE \/ ReaderReturn \/ WriterReturn \/ HeartbeatTick \/ HeartbeatReturn
            \/ LinkCut \/ Shutdown \/ Restart \/ (WriterWrite /\ link # "up")
  BY <1>11, CopiesFrame DEF ReaderReturn, WriterReturn, HeartbeatTick,
       HeartbeatReturn, LinkCut, Shutdown, Restart, WriterWrite, connVars,
       pathVars, dataVars, diskVars, histVars
<1>12. ASSUME NEW m \in Msgs,
              \/ SendCapture(m) \/ SendEnqueueFail(m)
              \/ SendTry(m) /\ ~(Len(chan[cap[m]]) < OutCap)
       PROVE  Copies'
  BY <1>12, CopiesFrame DEF SendCapture, SendEnqueueFail, SendTry, connVars,
       pathVars, dataVars, diskVars, histVars
<1>13. CASE \/ \E d \in Reports : DiscoveryScan(d)
            \/ \E r \in Runs, o \in {"finished", "cancelled"} : RunFinish(r, o)
            \/ \E p \in Pings : DispatchPing(p)
            \/ \E r \in Runs : DispatchRunBackup(r)
  BY <1>13, CopiesFrame DEF DiscoveryScan, RunFinish, DispatchPing,
       DispatchRunBackup, connVars, pathVars, dataVars, diskVars, histVars
<1> QED
  BY <1>1, <1>2, <1>3, <1>4, <1>5, <1>6, <1>7, <1>8, <1>9, <1>10, <1>11,
     <1>12, <1>13
  DEF Next, MainNext, LoopNext, SenderNext, EnvNext, Send

\* What the refinement and AtMostOnce rest on when the store does not fail.
OInv == KInv /\ Copies

\* It holds when the agent starts.
LEMMA InitOInv == Init => OInv
<1> SUFFICES ASSUME Init PROVE OInv
  OBVIOUS
<1>1. KInv
  BY InitKInv
<1>2. /\ \A g \in Conns : chan[g] = <<>>
      /\ net = <<>> /\ held.id \notin Msgs
      /\ DOMAIN queue = {} /\ DOMAIN batch = {}
      /\ \A m \in Msgs : handed[m] = 0 /\ delivered[m] = 0
  BY ConstantTypes DEF Init, NoEnv, Empty
<1>3. Copies
  BY <1>2, IdsEmpty DEF Copies, Placed, OneKey
<1> QED
  BY <1>1, <1>3 DEF OInv

\* Every step keeps it, if no transaction fails.
LEMMA NextOInv == ~StoreMayFail => (OInv /\ [Next]_vars => OInv')
<1> SUFFICES ASSUME ~StoreMayFail, OInv, [Next]_vars PROVE OInv'
  OBVIOUS
<1>1. KInv /\ TypeOK /\ ConnInv /\ OnlyReturnedSends /\ Copies
  BY DEF OInv, KInv, IInv
<1>2. KInv'
  BY <1>1, NextKInv
<1>3. CASE Next
  BY <1>1, <1>2, <1>3, CopiesStep DEF OInv
<1>4. CASE UNCHANGED vars
  BY <1>1, <1>2, <1>4, CopiesFrame DEF OInv, vars, connVars, pathVars, dataVars,
     diskVars, histVars
<1> QED
  BY <1>3, <1>4

\* So it always holds, if no transaction fails.
LEMMA OInvHolds == ~StoreMayFail => (Spec => []OInv)
<1> SUFFICES ASSUME ~StoreMayFail PROVE Spec => []OInv
  OBVIOUS
<1>1. OInv /\ [Next]_vars => OInv'
  BY NextOInv
<1> QED
  BY <1>1, InitOInv, PTL DEF Spec

\* Client.Send, replayQueue and writeLoop make no second copy of an envelope,
\* through any number of reconnects, replays and restarts: the server receives
\* it at most once, unless an Ack of the queue failed.
THEOREM NoDuplicates == Spec => []AtMostOnce
<1>1. CASE StoreMayFail
  <2>1. AtMostOnce
    BY <1>1 DEF AtMostOnce
  <2> QED
    BY <2>1, PTL
<1>2. CASE ~StoreMayFail
  <2>1. OInv => AtMostOnce
    <3> SUFFICES ASSUME OInv, NEW m \in Msgs PROVE delivered[m] <= 1
      BY DEF AtMostOnce
    <3>1. Placed(m) /\ delivered[m] \in Nat
      BY DEF OInv, KInv, IInv, TypeOK, Copies
    <3> QED
      BY <3>1 DEF Placed
  <2> QED
    BY <1>2, <2>1, OInvHolds, PTL
<1> QED
  BY <1>1, <1>2

-----------------------------------------------------------------------------
(***************************************************************************)
(* The refinement: what a step of the session is to Outbox.                *)
(***************************************************************************)
BoxStep == [Box!Next]_(Box!vars)
Up == link = "up" /\ ~ConnDone

\* The two conditions that the fate of an accepted message depends on.
OnDisk(m) == m \in QueueIds \cup BatchIds
InConn(m) ==
  \/ m \in Ids(net)
  \/ handed[m] = conns /\ Up /\ m \in Ids(chan[handed[m]]) \cup {held.id}
Accepted(m) ==
  IF delivered[m] > 0 THEN "received"
  ELSE IF handed[m] = 0
  THEN IF OnDisk(m) THEN "disk" ELSE "lost"
  ELSE IF InConn(m) THEN "conn" ELSE "lost"

\* The Send of m has not returned.
Unsent(m) == snd[m] \notin {"failed", "gone", "done"}

\* The fate of a message, case by case.
LEMMA FateIs ==
  ASSUME NEW m \in Msgs
  PROVE  /\ snd[m] = "failed" => Fate(m) = "refused"
         /\ snd[m] = "gone" => Fate(m) = "lost"
         /\ Unsent(m) => Fate(m) = "new"
         /\ snd[m] = "done" => Fate(m) = Accepted(m)
<1>1. ~ConnOver(handed[m]) <=> handed[m] = conns /\ Up
  BY DEF ConnOver, Up
<1>2. snd[m] = "done" => Fate(m) = Accepted(m)
  BY <1>1 DEF Fate, Accepted, OnDisk, InConn, BatchIds
<1>3. /\ snd[m] = "failed" => Fate(m) = "refused"
      /\ snd[m] = "gone" => Fate(m) = "lost"
      /\ Unsent(m) => Fate(m) = "new"
  BY DEF Fate, Unsent
<1> QED
  BY <1>2, <1>3

\* The same after a step.
LEMMA FateIsNext ==
  ASSUME NEW m \in Msgs
  PROVE  /\ snd'[m] = "failed" => Fate(m)' = "refused"
         /\ snd'[m] = "gone" => Fate(m)' = "lost"
         /\ Unsent(m)' => Fate(m)' = "new"
         /\ snd'[m] = "done" => Fate(m)' = Accepted(m)'
<1>1. ~ConnOver(handed[m])' <=> handed'[m] = conns' /\ Up'
  BY DEF ConnOver, Up
<1>2. snd'[m] = "done" => Fate(m)' = Accepted(m)'
  BY <1>1 DEF Fate, Accepted, OnDisk, InConn, BatchIds
<1>3. /\ snd'[m] = "failed" => Fate(m)' = "refused"
      /\ snd'[m] = "gone" => Fate(m)' = "lost"
      /\ Unsent(m)' => Fate(m)' = "new"
  BY DEF Fate, Unsent
<1> QED
  BY <1>2, <1>3

\* A message has one of Outbox's fates, before and after a step.
LEMMA FateType ==
  \A m \in Msgs : Fate(m) \in Box!Fates /\ Fate(m)' \in Box!Fates
<1> SUFFICES ASSUME NEW m \in Msgs
             PROVE  Fate(m) \in Box!Fates /\ Fate(m)' \in Box!Fates
  OBVIOUS
<1>1. Fate(m) \in Box!Fates
  BY FateIs DEF Accepted, Unsent, Box!Fates
<1>2. Fate(m)' \in Box!Fates
  BY FateIsNext DEF Accepted, Unsent, Box!Fates
<1> QED
  BY <1>1, <1>2

\* Outbox's function of fates after a step.
LEMMA FateFcn == [m \in Msgs |-> Fate(m)]' = [m \in Msgs |-> Fate(m)']
OBVIOUS

\* A step that changes no fate and no connection is a stutter.
LEMMA BoxStutter ==
  ASSUME \A m \in Msgs : Fate(m)' = Fate(m), Up' = Up, restarts' = restarts
  PROVE  BoxStep
BY FateFcn, Zenon DEF BoxStep, Box!vars, Up

\* A step that only brings the connection up is Connect.
LEMMA BoxConnect ==
  ASSUME \A m \in Msgs : Fate(m)' = Fate(m), ~Up, Up', restarts' = restarts
  PROVE  BoxStep
<1>1. Box!Connect
  BY FateFcn, Zenon DEF Box!Connect, Up
<1> QED
  BY <1>1 DEF BoxStep, Box!Next

\* What happens to the others while one message moves.
Others(m) ==
  \A o \in Msgs \ {m} :
    \/ Fate(o)' = Fate(o)
    \/ restarts > 0 /\ Fate(o) = "disk" /\ Fate(o)' = "lost"

\* A step that moves one message is a MoveTo.
LEMMA BoxMove ==
  ASSUME NEW m \in Msgs, Others(m), Up' = Up, restarts' = restarts
  PROVE  Box!MoveTo(m, Fate(m)')
<1>1. [o \in Msgs |-> Fate(o)]' \in [Msgs -> Box!Fates]
  BY FateType, FateFcn
<1>2. \A o \in Msgs : /\ [x \in Msgs |-> Fate(x)]'[o] = Fate(o)'
                      /\ [x \in Msgs |-> Fate(x)][o] = Fate(o)
  BY FateFcn
<1> QED
  BY <1>1, <1>2 DEF Box!MoveTo, Others, Up

\* The moves of one message that are steps of Outbox.
LEMMA BoxMoves ==
  ASSUME NEW m \in Msgs, Others(m), Up' = Up, restarts' = restarts,
         \/ Fate(m) = "new" /\ Fate(m)' \in {"disk", "lost", "refused"}
         \/ Fate(m) = "new" /\ Up /\ Fate(m)' = "conn"
         \/ Fate(m) = "disk" /\ Fate(m)' = IF Up THEN "conn" ELSE "lost"
         \/ Fate(m) = "conn" /\ Fate(m)' = "received"
  PROVE  BoxStep
<1>1. Box!MoveTo(m, Fate(m)')
  BY BoxMove
<1>2. [o \in Msgs |-> Fate(o)][m] = Fate(m)
  OBVIOUS
<1>3. Box!Accept(m) \/ Box!Refuse(m) \/ Box!Hand(m) \/ Box!Receive(m)
  BY <1>1, <1>2 DEF Box!Accept, Box!Refuse, Box!Hand, Box!Receive, Up
<1> QED
  BY <1>3 DEF BoxStep, Box!Next

\* Losing what the connection had is Break.
LEMMA BoxBreak ==
  ASSUME ~Up', restarts' = restarts,
         \A m \in Msgs : \/ Fate(m)' = Fate(m)
                         \/ Fate(m) = "conn" /\ Fate(m)' = "lost"
                         \/ restarts > 0 /\ Fate(m) = "disk" /\ Fate(m)' = "lost"
  PROVE  BoxStep
<1>1. [o \in Msgs |-> Fate(o)]' \in [Msgs -> Box!Fates]
  BY FateType, FateFcn
<1>2. \A o \in Msgs : /\ [x \in Msgs |-> Fate(x)]'[o] = Fate(o)'
                      /\ [x \in Msgs |-> Fate(x)][o] = Fate(o)
  BY FateFcn
<1>3. Box!Losing({"conn"} \cup Box!Overwritable)
  BY <1>1, <1>2 DEF Box!Losing, Box!Overwritable
<1>4. Box!Break
  BY <1>3, Zenon DEF Box!Break, Up
<1> QED
  BY <1>4 DEF BoxStep, Box!Next

\* Losing what was in memory, with a restart, is Crash.
LEMMA BoxCrash ==
  ASSUME ~Up', restarts' = restarts + 1,
         \A m \in Msgs : \/ Fate(m)' = Fate(m) /\ Fate(m) # "conn"
                         \/ Fate(m) \in {"conn", "new"} /\ Fate(m)' = "lost"
                         \/ restarts > 0 /\ Fate(m) = "disk" /\ Fate(m)' = "lost"
  PROVE  BoxStep
<1>1. [o \in Msgs |-> Fate(o)]' \in [Msgs -> Box!Fates]
  BY FateType, FateFcn
<1>2. \A o \in Msgs : /\ [x \in Msgs |-> Fate(x)]'[o] = Fate(o)'
                      /\ [x \in Msgs |-> Fate(x)][o] = Fate(o)
  BY FateFcn
<1>3. Box!Losing({"new", "conn"} \cup Box!Overwritable)
  BY <1>1, <1>2 DEF Box!Losing, Box!Overwritable
<1>4. \A m \in Msgs : [x \in Msgs |-> Fate(x)]'[m] # "conn"
  BY <1>2
<1>5. Box!Crash
  BY <1>3, <1>4, Zenon DEF Box!Crash, Up
<1> QED
  BY <1>5 DEF BoxStep, Box!Next

\* A message whose places a step leaves alone keeps its fate.
LEMMA FateSame ==
  ASSUME NEW m \in Msgs,
         snd'[m] = snd[m] \/ (Unsent(m) /\ Unsent(m)'),
         delivered'[m] = delivered[m], handed'[m] = handed[m],
         snd[m] = "done" /\ handed[m] = 0 => (OnDisk(m)' <=> OnDisk(m)),
         snd[m] = "done" /\ handed[m] # 0 => (InConn(m)' <=> InConn(m))
  PROVE  Fate(m)' = Fate(m)
<1>1. CASE Unsent(m)
  <2>1. Unsent(m)'
    BY <1>1 DEF Unsent
  <2> QED
    BY <1>1, <2>1, FateIs, FateIsNext
<1>2. CASE snd[m] = "failed" \/ snd[m] = "gone"
  <2>1. snd'[m] = snd[m]
    BY <1>2 DEF Unsent
  <2> QED
    BY <1>2, <2>1, FateIs, FateIsNext
<1>3. CASE snd[m] = "done"
  <2>1. snd'[m] = snd[m]
    BY <1>3 DEF Unsent
  <2>2. Accepted(m)' = Accepted(m)
    BY <1>3 DEF Accepted
  <2> QED
    BY <1>3, <2>1, <2>2, FateIs, FateIsNext
<1> QED
  BY <1>1, <1>2, <1>3 DEF Unsent

\* Steps away from the envelopes' way, in a connection that stays as it is.
LEMMA QuietBox ==
  ASSUME UNCHANGED <<delivered, handed, queue, batch, chan, net, held, conns,
                     link, cancelled, restarts>>,
         mpc' = "closing" <=> mpc = "closing",
         \A m \in Msgs : snd'[m] = snd[m] \/ (Unsent(m) /\ Unsent(m)')
  PROVE  BoxStep
<1>1. Up' = Up
  BY DEF Up, ConnDone
<1>2. ASSUME NEW m \in Msgs PROVE Fate(m)' = Fate(m)
  <2>1. (OnDisk(m)' <=> OnDisk(m)) /\ (InConn(m)' <=> InConn(m))
    BY <1>1 DEF OnDisk, InConn, QueueIds, BatchIds
  <2> QED
    BY <2>1, FateSame
<1> QED
  BY <1>1, <1>2, BoxStutter

\* Steps while the connection is over: what its channel holds does not count.
LEMMA OverBox ==
  ASSUME UNCHANGED <<snd, delivered, handed, queue, batch, net, restarts>>,
         ~Up, ~Up'
  PROVE  BoxStep
<1>1. ASSUME NEW m \in Msgs PROVE Fate(m)' = Fate(m)
  <2>1. (OnDisk(m)' <=> OnDisk(m)) /\ (InConn(m)' <=> InConn(m))
    BY DEF OnDisk, InConn, QueueIds, BatchIds
  <2> QED
    BY <2>1, FateSame
<1>2. Up' = Up
  BY DEF Up
<1> QED
  BY <1>1, <1>2, BoxStutter

\* The steps of Send: accepted by a channel or by the disk, or refused.
LEMMA SendBox ==
  ASSUME OInv, NEW m \in Msgs, Send(m)
  PROVE  BoxStep
<1>0. /\ TypeOK /\ OnlyReturnedSends /\ Keyed /\ SeqIdentifiesEnvelope
      /\ Fresh /\ Copies
  BY DEF OInv, KInv, IInv
<1>1. /\ Unsent(m) /\ Fate(m) = "new" /\ handed[m] = 0
      /\ delivered[m] = 0 /\ m \notin Ids(net)
  <2>1. snd[m] \in {"seq", "captured", "enqueue"}
    BY DEF Send, SendCapture, SendTry, SendEnqueue, SendEnqueueFail
  <2>2. handed[m] = 0
    BY <1>0, <2>1 DEF OnlyReturnedSends
  <2>3. Placed(m) /\ delivered[m] \in Nat
    BY <1>0 DEF Copies, TypeOK
  <2> QED
    BY <2>1, <2>2, <2>3, FateIs DEF Unsent, Placed
<1>2. /\ Up' = Up
      /\ UNCHANGED <<restarts, conns, batch, net, held, delivered>>
  BY DEF Send, SendCapture, SendTry, SendEnqueue, SendEnqueueFail, Up, ConnDone,
         connVars, pathVars, dataVars, histVars
<1>3. \A o \in Msgs \ {m} : snd'[o] = snd[o]
  BY <1>0 DEF Send, SendCapture, SendTry, SendEnqueue, SendEnqueueFail,
              SendReturn, TypeOK
<1>4. CASE SendCapture(m) \/ (SendTry(m) /\ ~(Len(chan[cap[m]]) < OutCap))
  <2>1. Unsent(m)'
    BY <1>0, <1>4 DEF SendCapture, SendTry, TypeOK, Unsent
  <2> QED
    BY <1>1, <1>3, <1>4, <2>1, QuietBox
    DEF SendCapture, SendTry, connVars, pathVars, dataVars, diskVars, histVars
<1>5. CASE SendTry(m) /\ Len(chan[cap[m]]) < OutCap
  <2>1. /\ chan' = [chan EXCEPT ![cap[m]] = Append(@, SendEnv(m))]
        /\ handed' = [handed EXCEPT ![m] = cap[m]]
        /\ queue' = queue /\ snd' = [snd EXCEPT ![m] = "done"]
        /\ snd[m] = "captured"
    BY <1>5 DEF SendTry, SendReturn, SendEnv, diskVars
  <2>2. /\ SendEnv(m) \in Env /\ SendEnv(m).id = m
        /\ chan \in [Conns -> Seq(Env)] /\ cap[m] \in Conns /\ cap[m] # 0
    <3>1. /\ mseq[m] \in Nat /\ cap[m] \in 0 .. MaxConns
          /\ chan \in [Conns -> Seq(Env)]
      BY <1>0 DEF TypeOK
    <3>2. cap[m] > 0
      BY <1>0, <2>1 DEF OnlyReturnedSends
    <3>3. SendEnv(m) \in Env /\ SendEnv(m).id = m
      BY <3>1, EnvTypes DEF SendEnv
    <3> QED
      BY <3>1, <3>2, <3>3, ConstantTypes DEF Conns
  <2>3. handed'[m] = cap[m] /\ snd'[m] = "done"
    BY <1>0, <2>1 DEF TypeOK
  <2>4. Fate(m)' \in {"conn", "lost"} /\ (Fate(m)' = "conn" => Up)
    <3>1. Fate(m)' = Accepted(m)'
      BY <2>3, FateIsNext
    <3>2. InConn(m)' => Up
      BY <1>1, <1>2 DEF InConn
    <3> QED
      BY <1>1, <1>2, <2>2, <2>3, <3>1, <3>2 DEF Accepted
  <2>5. ASSUME NEW o \in Msgs \ {m} PROVE Fate(o)' = Fate(o)
    <3>1. handed'[o] = handed[o]
      BY <1>0, <2>1 DEF TypeOK
    <3>2. \A g \in Conns : o \in Ids(chan'[g]) <=> o \in Ids(chan[g])
      <4> TAKE g \in Conns
      <4>1. chan'[g] = chan[g] \/ chan'[g] = Append(chan[g], SendEnv(m))
        BY <2>1, <2>2
      <4>2. Ids(Append(chan[g], SendEnv(m))) = Ids(chan[g]) \cup {m}
        BY <2>2, IdsAppend
      <4> QED
        BY <4>1, <4>2
    <3>3. handed[o] # 0 => handed[o] \in Conns
      BY <1>0 DEF TypeOK, Conns
    <3>4. OnDisk(o)' <=> OnDisk(o)
      BY <1>2, <2>1 DEF OnDisk, QueueIds, BatchIds
    <3>5. handed[o] # 0 => (InConn(o)' <=> InConn(o))
      BY <1>2, <3>1, <3>2, <3>3 DEF InConn
    <3> QED
      BY <1>2, <1>3, <3>1, <3>4, <3>5, FateSame
  <2> QED
    BY <1>1, <1>2, <2>4, <2>5, BoxMoves DEF Others
<1>6. CASE SendEnqueue(m)
  <2> DEFINE k == SendKey(m)
  <2>1. /\ queue' = Put(queue, k, SendEnv(m))
        /\ snd' = [snd EXCEPT ![m] = "done"] /\ snd[m] = "enqueue"
        /\ UNCHANGED <<handed, chan>>
    BY <1>6 DEF SendEnqueue, SendReturn, SendEnv, pathVars, histVars
  <2>2. SendEnv(m).id = m
    BY DEF SendEnv
  <2>3. restarts = 0 => k \notin DOMAIN queue
    BY <1>0, <2>1, FreeKey DEF InSend
  <2>4. restarts # 0 => restarts > 0
    BY <1>0 DEF TypeOK
  <2> HIDE DEF k
  <2>5. /\ k \in DOMAIN queue' /\ queue'[k].id = m
        /\ \A x \in DOMAIN queue' : x # k => x \in DOMAIN queue /\ queue'[x] = queue[x]
        /\ \A x \in DOMAIN queue : x # k => x \in DOMAIN queue' /\ queue'[x] = queue[x]
    BY <2>1, <2>2 DEF Put
  <2>6. Fate(m)' = "disk"
    <3>1. snd'[m] = "done" /\ OnDisk(m)'
      BY <1>0, <2>1, <2>5 DEF OnDisk, QueueIds, TypeOK
    <3> QED
      BY <1>1, <1>2, <2>1, <3>1, FateIsNext DEF Accepted
  <2>7. ASSUME NEW o \in Msgs \ {m}
        PROVE  \/ Fate(o)' = Fate(o)
               \/ restarts > 0 /\ Fate(o) = "disk" /\ Fate(o)' = "lost"
    <3>1. InConn(o)' <=> InConn(o)
      BY <1>2, <2>1 DEF InConn
    <3>2. OnDisk(o)' => OnDisk(o)
      BY <1>2, <2>5 DEF OnDisk, QueueIds, BatchIds
    <3>3. restarts = 0 => (OnDisk(o) => OnDisk(o)')
      BY <1>2, <2>3, <2>5 DEF OnDisk, QueueIds, BatchIds
    <3>4. CASE OnDisk(o)' <=> OnDisk(o)
      BY <1>2, <1>3, <2>1, <3>1, <3>4, FateSame
    <3>5. CASE OnDisk(o) /\ ~OnDisk(o)' /\ snd[o] = "done" /\ handed[o] = 0
               /\ ~(delivered[o] > 0)
      BY <1>2, <1>3, <2>1, <2>4, <3>3, <3>5, FateIs, FateIsNext DEF Accepted
    <3>6. CASE ~(snd[o] = "done" /\ handed[o] = 0)
      BY <1>2, <1>3, <2>1, <3>1, <3>6, FateSame
    <3>7. CASE snd[o] = "done" /\ delivered[o] > 0
      BY <1>2, <1>3, <3>7, FateIs, FateIsNext DEF Accepted
    <3> QED
      BY <3>2, <3>4, <3>5, <3>6, <3>7
  <2> QED
    BY <1>1, <1>2, <2>6, <2>7, BoxMoves DEF Others
<1>7. CASE SendEnqueueFail(m)
  <2>1. /\ snd' = [snd EXCEPT ![m] = "failed"]
        /\ UNCHANGED <<handed, chan, queue>>
    BY <1>7 DEF SendEnqueueFail, SendReturn, pathVars, dataVars, diskVars,
                histVars
  <2>2. Fate(m)' = "refused"
    BY <1>0, <2>1, FateIsNext DEF TypeOK
  <2>3. ASSUME NEW o \in Msgs \ {m} PROVE Fate(o)' = Fate(o)
    <3>1. (OnDisk(o)' <=> OnDisk(o)) /\ (InConn(o)' <=> InConn(o))
      BY <1>2, <2>1 DEF OnDisk, InConn, QueueIds, BatchIds
    <3> QED
      BY <1>2, <1>3, <2>1, <3>1, FateSame
  <2> QED
    BY <1>1, <1>2, <2>2, <2>3, BoxMoves DEF Others
<1> QED
  BY <1>4, <1>5, <1>6, <1>7 DEF Send

\* Replay: reading the batch is nothing to Outbox, each push hands one
\* message over, and giving up leaves the records where they are.
LEMMA ReplayBox ==
  ASSUME ~StoreMayFail, OInv,
         \/ ReplayPop \/ ReplayDone
         \/ \E k \in DOMAIN batch, acked \in BOOLEAN : ReplayPush(k, acked)
  PROVE  BoxStep
<1>0. /\ TypeOK /\ ConnInv /\ OnlyReturnedSends /\ Fresh /\ Copies
      /\ restarts # 0 => restarts > 0
  <2>1. TypeOK /\ ConnInv /\ OnlyReturnedSends /\ Fresh /\ Copies
    BY DEF OInv, KInv, IInv
  <2>2. restarts \in 0 .. MaxRestarts
    BY <2>1 DEF TypeOK
  <2> QED
    BY <2>1, <2>2
<1>1. CASE ReplayPop
  <2>1. \A k \in DOMAIN batch' : k \in DOMAIN queue /\ batch'[k] = queue[k]
    BY <1>1 DEF ReplayPop, DequeueJobs, Empty
  <2>2. UNCHANGED <<snd, delivered, handed, queue, chan, net, held, conns, link,
                    cancelled, restarts>>
    BY <1>1 DEF ReplayPop, appVars, sendVars, pathVars, dataVars, diskVars,
                histVars
  <2>3. BatchIds = {}
    BY <1>0, <1>1 DEF ReplayPop, Goto, ConnInv, OutPublished, BatchIds
  <2>4. BatchIds' \subseteq QueueIds /\ QueueIds' = QueueIds
    BY <2>1, <2>2 DEF BatchIds, QueueIds
  <2>5. Up' = Up
    BY <1>1, <2>2 DEF ReplayPop, Goto, Up, ConnDone
  <2>6. ASSUME NEW m \in Msgs PROVE Fate(m)' = Fate(m)
    <3>1. (OnDisk(m)' <=> OnDisk(m)) /\ (InConn(m)' <=> InConn(m))
      BY <2>2, <2>3, <2>4, <2>5 DEF OnDisk, InConn
    <3> QED
      BY <2>2, <3>1, FateSame
  <2> QED
    BY <2>2, <2>5, <2>6, BoxStutter
<1>2. ASSUME NEW k \in DOMAIN batch, NEW acked \in BOOLEAN, ReplayPush(k, acked)
      PROVE  BoxStep
  <2>0. PICK e, m : e = batch[k] /\ m = batch[k].id
    OBVIOUS
  <2>1. /\ chan' = [chan EXCEPT ![outRef] = Append(@, e)]
        /\ handed' = [handed EXCEPT ![m] = outRef]
        /\ batch' = Del(batch, k) /\ queue' = Del(queue, k)
        /\ UNCHANGED <<snd, held, net, delivered, conns, link, cancelled, mpc,
                       restarts>>
    BY <1>2, <2>0 DEF ReplayPush, appVars, sendVars
  <2>2. e \in Env /\ m \in Msgs /\ m = e.id
    BY <1>0, <2>0, EnvTypes DEF TypeOK
  <2>3. outRef \in Conns /\ outRef = conns /\ outRef # 0
    BY <1>0, <1>2 DEF ReplayPush, TypeOK, ConnInv, OutPublished, Conns
  <2>4. m \in BatchIds /\ snd[m] = "done"
    BY <1>0, <2>0 DEF BatchIds, OnlyReturnedSends
  <2>5. restarts = 0 => queue[k] = e
    BY <1>0, <2>0 DEF Fresh, BatchOnDisk
  <2>6. /\ \A x \in DOMAIN queue' : x \in DOMAIN queue /\ queue'[x] = queue[x]
        /\ \A x \in DOMAIN queue : x # k => x \in DOMAIN queue' /\ queue'[x] = queue[x]
        /\ \A x \in DOMAIN batch' : x \in DOMAIN batch /\ batch'[x] = batch[x]
        /\ \A x \in DOMAIN batch : x # k => x \in DOMAIN batch' /\ batch'[x] = batch[x]
    BY <2>1 DEF Del
  <2>7. \A o \in Msgs : OnDisk(o)' => OnDisk(o)
    BY <2>6 DEF OnDisk, QueueIds, BatchIds
  <2>8. \A o \in Msgs \ {m} : restarts = 0 /\ OnDisk(o) => OnDisk(o)'
    BY <2>0, <2>5, <2>6 DEF OnDisk, QueueIds, BatchIds
  <2>9. Up' = Up
    BY <2>1 DEF Up, ConnDone
  <2>10. /\ handed[m] = 0 /\ delivered[m] = 0 /\ m \notin Ids(net)
         /\ held.id # m
    <3>1. Placed(m) /\ delivered[m] \in Nat
      BY <1>0, <2>2 DEF Copies, TypeOK
    <3> QED
      BY <2>4, <3>1 DEF Placed
  <2>11. Fate(m) = "disk"
    <3>1. OnDisk(m)
      BY <2>4 DEF OnDisk
    <3> QED
      BY <2>2, <2>4, <2>10, <3>1, FateIs DEF Accepted
  <2>12. Fate(m)' = IF Up THEN "conn" ELSE "lost"
    <3>1. handed'[m] = outRef /\ chan'[outRef] = Append(chan[outRef], e)
      BY <1>0, <2>1, <2>2, <2>3 DEF TypeOK
    <3>2. m \in Ids(chan'[outRef])
      BY <1>0, <2>2, <2>3, <3>1, IdsAppend DEF TypeOK
    <3>3. InConn(m)' <=> Up
      BY <2>1, <2>3, <2>9, <2>10, <3>1, <3>2 DEF InConn
    <3>4. Fate(m)' = Accepted(m)'
      BY <2>1, <2>2, <2>4, FateIsNext
    <3> QED
      BY <2>1, <2>3, <2>10, <3>1, <3>3, <3>4 DEF Accepted
  <2>13. ASSUME NEW o \in Msgs \ {m}
         PROVE  \/ Fate(o)' = Fate(o)
                \/ restarts > 0 /\ Fate(o) = "disk" /\ Fate(o)' = "lost"
    <3>1. /\ handed'[o] = handed[o] /\ snd'[o] = snd[o]
          /\ delivered'[o] = delivered[o]
      BY <1>0, <2>1 DEF TypeOK
    <3>2. \A g \in Conns : o \in Ids(chan'[g]) <=> o \in Ids(chan[g])
      <4> TAKE g \in Conns
      <4>1. chan'[g] = chan[g] \/ chan'[g] = Append(chan[g], e)
        BY <1>0, <2>1 DEF TypeOK
      <4>2. Ids(Append(chan[g], e)) = Ids(chan[g]) \cup {m}
        BY <1>0, <2>2, IdsAppend DEF TypeOK
      <4> QED
        BY <4>1, <4>2
    <3>3. handed[o] # 0 => handed[o] \in Conns
      BY <1>0 DEF TypeOK, Conns
    <3>4. handed[o] # 0 => (InConn(o)' <=> InConn(o))
      BY <2>1, <2>9, <3>1, <3>2, <3>3 DEF InConn
    <3>5. CASE (OnDisk(o)' <=> OnDisk(o)) \/ ~(snd[o] = "done" /\ handed[o] = 0)
      BY <3>1, <3>4, <3>5, FateSame
    <3>6. CASE snd[o] = "done" /\ delivered[o] > 0
      BY <3>1, <3>6, FateIs, FateIsNext DEF Accepted
    <3>7. CASE OnDisk(o) /\ ~OnDisk(o)' /\ snd[o] = "done" /\ handed[o] = 0
               /\ ~(delivered[o] > 0)
      BY <1>0, <2>8, <3>1, <3>7, FateIs, FateIsNext DEF Accepted
    <3> QED
      BY <2>7, <3>5, <3>6, <3>7
  <2> QED
    BY <2>1, <2>2, <2>9, <2>11, <2>12, <2>13, BoxMoves DEF Others
<1>3. CASE ReplayDone
  <2>1. /\ UNCHANGED <<snd, delivered, handed, queue, chan, net, held, conns,
                       link, cancelled, restarts>>
        /\ DOMAIN batch' = {} /\ mpc = "replay" /\ mpc' = "pump"
        /\ DOMAIN batch = {} \/ cancelled
    BY <1>3 DEF ReplayDone, Goto, Empty, appVars, sendVars, pathVars, dataVars,
                diskVars, histVars
  <2>2. Up' = Up /\ (cancelled => ~Up')
    BY <2>1 DEF Up, ConnDone
  <2>3. BatchIds' = {} /\ QueueIds' = QueueIds
    BY <2>1 DEF BatchIds, QueueIds
  <2>4. DOMAIN batch = {} => BatchIds = {}
    BY DEF BatchIds
  <2>5. restarts = 0 => BatchIds \subseteq QueueIds
    BY <1>0 DEF Fresh, BatchOnDisk, BatchIds, QueueIds
  <2>6. ASSUME NEW m \in Msgs
        PROVE  \/ Fate(m)' = Fate(m)
               \/ /\ DOMAIN batch # {} /\ restarts > 0
                  /\ Fate(m) = "disk" /\ Fate(m)' = "lost"
    <3>1. InConn(m)' <=> InConn(m)
      BY <2>1, <2>2 DEF InConn
    <3>2. OnDisk(m)' => OnDisk(m)
      BY <2>3 DEF OnDisk
    <3>3. CASE (OnDisk(m)' <=> OnDisk(m)) \/ ~(snd[m] = "done" /\ handed[m] = 0)
      BY <2>1, <3>1, <3>3, FateSame
    <3>4. CASE snd[m] = "done" /\ delivered[m] > 0
      BY <2>1, <3>4, FateIs, FateIsNext DEF Accepted
    <3>5. CASE OnDisk(m) /\ ~OnDisk(m)' /\ snd[m] = "done" /\ handed[m] = 0
               /\ ~(delivered[m] > 0)
      <4>1. m \in BatchIds /\ m \notin QueueIds
        BY <2>3, <3>5 DEF OnDisk
      <4>2. restarts > 0 /\ DOMAIN batch # {}
        BY <1>0, <2>4, <2>5, <4>1
      <4> QED
        BY <2>1, <3>5, <4>2, FateIs, FateIsNext DEF Accepted
    <3> QED
      BY <3>2, <3>3, <3>4, <3>5
  <2>7. CASE DOMAIN batch = {}
    BY <2>1, <2>2, <2>6, <2>7, BoxStutter
  <2>8. CASE cancelled
    BY <2>1, <2>2, <2>6, <2>8, BoxBreak
  <2> QED
    BY <2>1, <2>7, <2>8
<1> QED
  BY <1>1, <1>2, <1>3

\* The way from the channel to the server.
LEMMA PathBox ==
  ASSUME OInv, WriterTake \/ WriterWrite \/ HeartbeatEmit \/ ServerReceive
  PROVE  BoxStep
<1>0. TypeOK /\ ConnInv /\ OnlyReturnedSends /\ Copies
  BY DEF OInv, KInv, IInv
<1>1. UNCHANGED <<snd, handed, queue, batch, conns, link, cancelled, mpc,
                  restarts>>
  BY DEF WriterTake, WriterWrite, HeartbeatEmit, ServerReceive, appVars,
         sendVars, connVars, dataVars, diskVars, histVars
<1>2. Up' = Up
  BY <1>1 DEF Up, ConnDone
<1>3. \A m \in Msgs : OnDisk(m)' <=> OnDisk(m)
  BY <1>1 DEF OnDisk, QueueIds, BatchIds
<1>4. \A m \in Msgs : handed[m] # 0 => handed[m] \in Conns
  BY <1>0 DEF TypeOK, Conns
<1>5. ASSUME delivered' = delivered,
             \A m \in Msgs : handed[m] # 0 => (InConn(m)' <=> InConn(m))
      PROVE  BoxStep
  <2>1. \A m \in Msgs : Fate(m)' = Fate(m)
    BY <1>1, <1>3, <1>5, FateSame
  <2> QED
    BY <1>1, <1>2, <2>1, BoxStutter
<1>6. CASE WriterTake
  <2> DEFINE e == Head(chan[outRef])
  <2>1. /\ UNCHANGED <<net, delivered>> /\ held = NoEnv
        /\ chan' = [chan EXCEPT ![outRef] = Tail(chan[outRef])]
    BY <1>6 DEF WriterTake, dataVars, histVars
  <2>2. /\ outRef \in Conns /\ outRef = conns
        /\ chan[outRef] \in Seq(Env) /\ chan[outRef] # <<>>
    BY <1>0, <1>6 DEF WriterTake, TypeOK, ConnInv, LoopsEndWithConnection,
                OutPublished, Conns
  <2>3. e \in Env /\ Ids(chan[outRef]) = {e.id} \cup Ids(Tail(chan[outRef]))
    BY <2>2, IdsTail
  <2>4. held'.id = e.id /\ held.id \notin Msgs
    BY <1>6, <2>1, <2>3, ConstantTypes DEF WriterTake, Env, NoEnv
  <2>5. chan'[outRef] = Tail(chan[outRef])
    BY <1>0, <2>1, <2>2 DEF TypeOK
  <2> HIDE DEF e
  <2>6. \A m \in Msgs : InConn(m)' <=> InConn(m)
    BY <1>1, <1>2, <2>1, <2>2, <2>3, <2>4, <2>5 DEF InConn
  <2> QED
    BY <1>5, <2>1, <2>6
<1>7. CASE WriterWrite
  <2>1. UNCHANGED <<chan, delivered>> /\ held' = NoEnv /\ held # NoEnv
    BY <1>7 DEF WriterWrite, dataVars, histVars
  <2>2. held \in Env /\ net \in Seq(Env) /\ NoEnv.id \notin Msgs
    BY <1>0, <2>1, ConstantTypes DEF TypeOK, NoEnv
  <2>3. CASE link = "up"
    <3>1. Up /\ Ids(net') = Ids(net) \cup {held.id}
      BY <1>7, <2>2, <2>3, IdsAppend DEF WriterWrite, Up
    <3>2. \A m \in Msgs : m = held.id => handed[m] = conns
      BY <1>0 DEF Copies, Placed
    <3>3. \A m \in Msgs : InConn(m)' <=> InConn(m)
      BY <1>1, <1>2, <2>1, <2>2, <3>1, <3>2 DEF InConn
    <3> QED
      BY <1>5, <2>1, <3>3
  <2>4. CASE link # "up"
    <3>1. net' = net /\ ~Up
      BY <1>7, <2>4 DEF WriterWrite, Up
    <3>2. \A m \in Msgs : InConn(m)' <=> InConn(m)
      BY <1>1, <1>2, <3>1 DEF InConn
    <3> QED
      BY <1>5, <2>1, <3>2
  <2> QED
    BY <2>3, <2>4
<1>8. CASE HeartbeatEmit
  <2> DEFINE e == [id |-> "heartbeat", seq |-> 0]
  <2>1. /\ chan' = [chan EXCEPT ![outRef] = Append(@, e)]
        /\ UNCHANGED <<held, net, delivered>>
    BY <1>8 DEF HeartbeatEmit, dataVars, histVars
  <2>2. e \in Env /\ e.id \notin Msgs
    BY EnvTypes, ConstantTypes
  <2> HIDE DEF e
  <2>3. ASSUME NEW m \in Msgs, NEW g \in Conns
        PROVE  m \in Ids(chan'[g]) <=> m \in Ids(chan[g])
    <3>1. chan'[g] = chan[g] \/ chan'[g] = Append(chan[g], e)
      BY <1>0, <2>1 DEF TypeOK
    <3>2. Ids(Append(chan[g], e)) = Ids(chan[g]) \cup {e.id}
      BY <1>0, <2>2, IdsAppend DEF TypeOK
    <3> QED
      BY <2>2, <3>1, <3>2
  <2>4. \A m \in Msgs : handed[m] # 0 => (InConn(m)' <=> InConn(m))
    BY <1>1, <1>2, <1>4, <2>1, <2>3 DEF InConn
  <2> QED
    BY <1>5, <2>1, <2>4
<1>9. CASE ServerReceive
  <2>0. PICK e : e = Head(net)
    OBVIOUS
  <2>1. /\ net # <<>> /\ net' = Tail(net) /\ net \in Seq(Env)
        /\ UNCHANGED <<held, chan>>
        /\ delivered' = [m \in Msgs |-> IF m = e.id THEN delivered[m] + 1
                                                    ELSE delivered[m]]
    BY <1>0, <1>9, <2>0 DEF ServerReceive, TypeOK
  <2>2. Ids(net) = {e.id} \cup Ids(net')
    BY <2>0, <2>1, IdsTail
  <2>3. ASSUME NEW o \in Msgs, o # e.id PROVE Fate(o)' = Fate(o)
    <3>1. InConn(o)' <=> InConn(o)
      BY <1>1, <1>2, <2>1, <2>2, <2>3 DEF InConn
    <3> QED
      BY <1>1, <1>3, <2>1, <2>3, <3>1, FateSame
  <2>4. CASE e.id \notin Msgs
    BY <1>1, <1>2, <2>3, <2>4, BoxStutter
  <2>5. CASE e.id \in Msgs
    <3>1. /\ handed[e.id] # 0 /\ delivered[e.id] = 0 /\ e.id \in Ids(net)
      BY <1>0, <2>2, <2>5 DEF Copies, Placed
    <3>2. snd[e.id] = "done"
      BY <1>0, <2>5, <3>1 DEF OnlyReturnedSends
    <3>3. Fate(e.id) = "conn"
      BY <2>5, <3>1, <3>2, FateIs DEF Accepted, InConn
    <3>4. Fate(e.id)' = "received"
      BY <1>1, <2>1, <2>5, <3>1, <3>2, FateIsNext DEF Accepted
    <3> QED
      BY <1>1, <1>2, <2>3, <2>5, <3>3, <3>4, BoxMoves DEF Others
  <2> QED
    BY <2>4, <2>5
<1> QED
  BY <1>6, <1>7, <1>8, <1>9

\* The connection comes up.
LEMMA DialBox ==
  ASSUME OInv, Dial
  PROVE  BoxStep
<1>0. TypeOK /\ OnlyReturnedSends /\ Unlinked
  BY DEF OInv, KInv, IInv
<1>1. /\ UNCHANGED <<snd, delivered, handed, queue, batch, chan, net, held,
                     restarts>>
      /\ conns' = conns + 1 /\ ~Up /\ Up'
  BY <1>0 DEF Dial, Goto, Up, ConnDone, Unlinked, appVars, sendVars, pathVars,
              dataVars, diskVars, histVars
<1>2. ASSUME NEW m \in Msgs PROVE Fate(m)' = Fate(m)
  <2>1. handed[m] # conns'
    BY <1>0, <1>1 DEF OnlyReturnedSends, TypeOK
  <2>2. (OnDisk(m)' <=> OnDisk(m)) /\ (InConn(m)' <=> InConn(m))
    BY <1>1, <2>1 DEF OnDisk, InConn, QueueIds, BatchIds
  <2> QED
    BY <1>1, <2>2, FateSame
<1> QED
  BY <1>1, <1>2, BoxConnect

\* The connection goes down, or what was under way is dropped with it.
LEMMA BreakBox ==
  ASSUME OInv, TearDown \/ LinkCut \/ Shutdown
  PROVE  BoxStep
<1>1. /\ UNCHANGED <<snd, delivered, handed, queue, batch, chan, held, conns,
                     restarts>>
      /\ net' = net \/ net' = <<>>
      /\ ~Up'
  BY DEF TearDown, LinkCut, Shutdown, Up, ConnDone, appVars, sendVars, pathVars,
         dataVars, diskVars, histVars
<1>2. ASSUME NEW m \in Msgs
      PROVE  Fate(m)' = Fate(m) \/ (Fate(m) = "conn" /\ Fate(m)' = "lost")
  <2>1. OnDisk(m)' <=> OnDisk(m)
    BY <1>1 DEF OnDisk, QueueIds, BatchIds
  <2>2. InConn(m)' => InConn(m)
    BY <1>1, IdsEmpty DEF InConn
  <2>3. CASE \/ InConn(m)' <=> InConn(m)
             \/ ~(snd[m] = "done" /\ handed[m] # 0)
    BY <1>1, <2>1, <2>3, FateSame
  <2>4. CASE snd[m] = "done" /\ handed[m] # 0 /\ InConn(m) /\ ~InConn(m)'
    BY <1>1, <2>4, FateIs, FateIsNext DEF Accepted
  <2> QED
    BY <2>2, <2>3, <2>4
<1> QED
  BY <1>1, <1>2, BoxBreak

\* The process ends and starts again.
LEMMA RestartBox ==
  ASSUME OInv, Restart
  PROVE  BoxStep
<1>0. TypeOK /\ Fresh /\ (restarts # 0 => restarts > 0)
  <2>1. TypeOK /\ Fresh
    BY DEF OInv, KInv, IInv
  <2>2. restarts \in 0 .. MaxRestarts
    BY <2>1 DEF TypeOK
  <2> QED
    BY <2>1, <2>2
<1>1. /\ UNCHANGED <<delivered, handed, queue>>
      /\ net' = <<>> /\ DOMAIN batch' = {} /\ ~Up' /\ restarts' = restarts + 1
      /\ \A m \in Msgs : snd'[m] = IF snd[m] \in {"idle", "done", "failed"}
                                   THEN snd[m] ELSE "gone"
  BY DEF Restart, Empty, Up, diskVars, histVars
<1>2. BatchIds' = {} /\ QueueIds' = QueueIds
  BY <1>1 DEF BatchIds, QueueIds
<1>3. restarts = 0 => BatchIds \subseteq QueueIds
  BY <1>0 DEF Fresh, BatchOnDisk, BatchIds, QueueIds
<1>4. ASSUME NEW m \in Msgs
      PROVE  \/ Fate(m)' = Fate(m) /\ Fate(m) # "conn"
             \/ Fate(m) \in {"conn", "new"} /\ Fate(m)' = "lost"
             \/ restarts > 0 /\ Fate(m) = "disk" /\ Fate(m)' = "lost"
  <2>1. ~InConn(m)'
    BY <1>1, IdsEmpty DEF InConn
  <2>2. CASE Unsent(m)
    <3>1. Unsent(m)' \/ snd'[m] = "gone"
      BY <1>1, <2>2 DEF Unsent
    <3> QED
      BY <2>2, <3>1, FateIs, FateIsNext
  <2>3. CASE snd[m] = "failed" \/ snd[m] = "gone"
    <3>1. snd'[m] = snd[m]
      BY <1>1, <2>3
    <3> QED
      BY <2>3, <3>1, FateIs, FateIsNext
  <2>4. CASE snd[m] = "done"
    <3>1. snd'[m] = "done"
      BY <1>1, <2>4
    <3>2. Fate(m) = Accepted(m) /\ Fate(m)' = Accepted(m)'
      BY <2>4, <3>1, FateIs, FateIsNext
    <3>3. restarts = 0 => (OnDisk(m)' <=> OnDisk(m))
      BY <1>2, <1>3 DEF OnDisk
    <3>4. OnDisk(m)' => OnDisk(m)
      BY <1>2 DEF OnDisk
    <3> QED
      BY <1>0, <1>1, <2>1, <3>2, <3>3, <3>4 DEF Accepted
  <2> QED
    BY <2>2, <2>3, <2>4 DEF Unsent
<1> QED
  BY <1>1, <1>4, BoxCrash

\* Every step of the session is a step of Outbox or leaves it as it is.
LEMMA NextBox ==
  ASSUME ~StoreMayFail, OInv, [Next]_vars
  PROVE  BoxStep
<1>0. TypeOK
  BY DEF OInv, KInv, IInv
<1>1. ASSUME NEW m \in Msgs, Send(m) PROVE BoxStep
  BY <1>1, SendBox
<1>2. CASE \/ \E d \in Reports : DiscoveryScan(d)
           \/ \E r \in Runs, o \in {"finished", "cancelled"} : RunFinish(r, o)
           \/ \E p \in Pings : DispatchPing(p)
           \/ \E r \in Runs : DispatchRunBackup(r)
  <2>1. UNCHANGED <<delivered, handed, queue, batch, chan, net, held, conns,
                    link, cancelled, restarts, mpc>>
    BY <1>2 DEF DiscoveryScan, RunFinish, DispatchPing, DispatchRunBackup,
                connVars, pathVars, dataVars, diskVars, histVars
  <2>2. \A m \in Msgs : snd'[m] = snd[m] \/ (Unsent(m) /\ Unsent(m)')
    BY <1>0, <1>2, ConstantTypes
    DEF DiscoveryScan, RunFinish, DispatchPing, DispatchRunBackup, SendSeq,
        Unsent, TypeOK
  <2> QED
    BY <2>1, <2>2, QuietBox
<1>3. CASE Dial
  BY <1>3, DialBox
<1>4. CASE DialFail \/ HandshakeOk \/ PublishOut \/ BackoffWait \/ HeartbeatTick
  <2>1. /\ UNCHANGED <<snd, delivered, handed, queue, batch, chan, net, held,
                       conns, link, cancelled, restarts>>
        /\ mpc' = "closing" <=> mpc = "closing"
    BY <1>4 DEF DialFail, HandshakeOk, PublishOut, BackoffWait, HeartbeatTick,
                Goto, appVars, sendVars, pathVars, dataVars, diskVars, histVars
  <2> QED
    BY <2>1, QuietBox
<1>5. CASE HandshakeFail \/ ReaderReturn \/ WriterReturn \/ HeartbeatReturn
  <2>1. /\ UNCHANGED <<snd, delivered, handed, queue, batch, net, restarts>>
        /\ ~Up /\ ~Up'
    BY <1>5 DEF HandshakeFail, ReaderReturn, WriterReturn, HeartbeatReturn,
                LoopReturn, Up, ConnDone, appVars, sendVars, pathVars, dataVars,
                diskVars, histVars
  <2> QED
    BY <2>1, OverBox
<1>6. CASE \/ ReplayPop \/ ReplayDone
           \/ \E k \in DOMAIN batch, acked \in BOOLEAN : ReplayPush(k, acked)
  BY <1>6, ReplayBox
<1>7. CASE WriterTake \/ WriterWrite \/ HeartbeatEmit \/ ServerReceive
  BY <1>7, PathBox
<1>8. CASE TearDown \/ LinkCut \/ Shutdown
  BY <1>8, BreakBox
<1>9. CASE Restart
  BY <1>9, RestartBox
<1>10. CASE UNCHANGED vars
  <2>1. UNCHANGED <<snd, delivered, handed, queue, batch, chan, net, held,
                    conns, link, cancelled, restarts, mpc>>
    BY <1>10 DEF vars, appVars, sendVars, connVars, pathVars, dataVars, diskVars,
                 histVars
  <2> QED
    BY <2>1, QuietBox
<1> QED
  BY <1>1, <1>2, <1>3, <1>4, <1>5, <1>6, <1>7, <1>8, <1>9, <1>10
  DEF Next, MainNext, LoopNext, SenderNext, EnvNext

\* The agent starts with every message new.
LEMMA InitBox == Init => Box!Init
<1> SUFFICES ASSUME Init PROVE Box!Init
  OBVIOUS
<1>1. ASSUME NEW m \in Msgs PROVE Fate(m) = "new"
  <2>1. Unsent(m)
    BY DEF Init, Unsent
  <2> QED
    BY <2>1, FateIs
<1>2. link # "up" /\ restarts = 0
  BY DEF Init
<1> QED
  BY <1>1, <1>2, Zenon DEF Box!Init

\* The session implements Outbox, for any messages, channel sizes, numbers of
\* connections and restarts, if no transaction of the store fails: what is on
\* disk leaves it only for a connection (or, after a restart, for a record with
\* the same key), what a living connection was handed is received, and nothing
\* lost or received comes back.
THEOREM SessionKeepsOutbox == ~StoreMayFail => (Spec => KeepsOutbox)
<1> SUFFICES ASSUME ~StoreMayFail PROVE Spec => KeepsOutbox
  OBVIOUS
<1>1. Spec => []OInv
  BY OInvHolds
<1>2. OInv /\ [Next]_vars => BoxStep
  BY NextBox
<1> QED
  BY <1>1, <1>2, InitBox, PTL DEF Spec, KeepsOutbox, Box!Spec, BoxStep

=============================================================================
