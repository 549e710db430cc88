--------------------------- MODULE WssClientProofs ---------------------------
(***************************************************************************)
(* Proofs about WssClient, for every value of its constants.               *)
(***************************************************************************)
EXTENDS WssClient, TLAPS

-----------------------------------------------------------------------------
(* Facts about the operators the model is built from. *)

\* Appending to a channel adds one message to those it holds.
LEMMA IdsAppend ==
  ASSUME NEW s \in Seq(Env), NEW e \in Env
  PROVE  Ids(Append(s, e)) = Ids(s) \cup {e.id}
<1>1. /\ Append(s, e) \in Seq(Env)
      /\ DOMAIN Append(s, e) = DOMAIN s \cup {Len(s) + 1}
      /\ Append(s, e)[Len(s) + 1] = e
      /\ \A i \in DOMAIN s : Append(s, e)[i] = s[i]
  OBVIOUS
<1> QED
  BY <1>1, Zenon DEF Ids

\* Taking the head of a channel removes at most that message.
LEMMA IdsTail ==
  ASSUME NEW s \in Seq(Env), s # <<>>
  PROVE  /\ Tail(s) \in Seq(Env)
         /\ Head(s) \in Env
         /\ Ids(s) = {Head(s).id} \cup Ids(Tail(s))
<1>1. /\ Tail(s) \in Seq(Env)
      /\ Head(s) \in Env
      /\ Head(s) = s[1]
      /\ Len(s) \in Nat \ {0}
      /\ DOMAIN s = 1 .. Len(s)
      /\ DOMAIN Tail(s) = 1 .. Len(s) - 1
      /\ \A i \in 1 .. Len(s) - 1 : Tail(s)[i] = s[i + 1]
  OBVIOUS
<1>2. ASSUME NEW i \in DOMAIN s
      PROVE  s[i].id \in {Head(s).id} \cup Ids(Tail(s))
  <2>1. CASE i = 1
    BY <1>1, <2>1
  <2>2. CASE i # 1
    <3>1. i - 1 \in DOMAIN Tail(s) /\ Tail(s)[i - 1] = s[i]
      BY <1>1, <2>2
    <3> QED
      BY <3>1 DEF Ids
  <2> QED
    BY <2>1, <2>2
<1>3. ASSUME NEW i \in DOMAIN Tail(s)
      PROVE  Tail(s)[i].id \in Ids(s)
  <2>1. i + 1 \in DOMAIN s /\ Tail(s)[i] = s[i + 1]
    BY <1>1
  <2> QED
    BY <2>1 DEF Ids
<1>4. Head(s).id \in Ids(s)
  BY <1>1 DEF Ids
<1> QED
  BY <1>1, <1>2, <1>3, <1>4 DEF Ids

\* Pushing into one channel keeps all of them sequences of envelopes.
LEMMA PushType ==
  ASSUME NEW c \in [Conns -> Seq(Env)], NEW g, NEW e \in Env
  PROVE  [c EXCEPT ![g] = Append(@, e)] \in [Conns -> Seq(Env)]
<1>1. CASE g \in Conns
  <2>1. Append(c[g], e) \in Seq(Env)
    BY <1>1
  <2> QED
    BY <2>1
<1>2. CASE g \notin Conns
  BY <1>2
<1> QED
  BY <1>1, <1>2

-----------------------------------------------------------------------------
(* Type correctness. *)

\* The envelope a Send builds, and the records replay reads.
LEMMA EnvTypes ==
  /\ \A m \in Msgs, n \in Nat : /\ [id |-> m, seq |-> n] \in Env
                                /\ [id |-> m, seq |-> n] \in [id : Msgs, seq : Nat]
  /\ [id |-> "heartbeat", seq |-> 0] \in Env
  /\ \A e \in [id : Msgs, seq : Nat] : e \in Env /\ e.id \in Msgs
  /\ \A e \in Env, n \in Nat : [e EXCEPT !.seq = n] \in Env
BY DEF Env

\* The constants, one by one.
LEMMA ConstantTypes ==
  /\ OutCap \in Nat /\ MaxConns \in Nat /\ MaxConns > 0
  /\ MaxBeats \in Nat /\ MaxRestarts \in Nat
  /\ 0 \in 0 .. MaxConns /\ 0 \in 0 .. MaxBeats /\ 0 \in 0 .. MaxRestarts
  /\ Runs \subseteq Msgs /\ Reports \subseteq Msgs /\ Pings \subseteq Msgs
  /\ "heartbeat" \notin Msgs /\ "none" \notin Msgs
BY WssAssumption DEF WssAssumption, Msgs

\* The initial state is well typed.
LEMMA InitType == Init => TypeOK
<1> SUFFICES ASSUME Init PROVE TypeOK
  OBVIOUS
<1>1. chan \in [Conns -> Seq(Env)] /\ net \in Seq(Env)
  BY DEF Init
<1>2. DOMAIN queue = {} /\ DOMAIN batch = {}
  BY DEF Init, Empty
<1>3. /\ snd \in [Msgs -> SendStates]
      /\ mseq \in [Msgs -> Nat]
      /\ cap \in [Msgs -> 0 .. MaxConns]
      /\ runConn \in [Runs -> 0 .. MaxConns]
      /\ outcome \in [Runs -> {"none", "finished", "cancelled"}]
      /\ delivered \in [Msgs -> Nat]
      /\ handed \in [Msgs -> 0 .. MaxConns]
  BY ConstantTypes DEF Init, SendStates
<1> QED
  BY <1>1, <1>2, <1>3, ConstantTypes DEF Init, TypeOK, MainStates

\* What the steps of Send do to their types.
LEMMA SendType ==
  ASSUME TypeOK, NEW m \in Msgs, Send(m)
  PROVE  TypeOK'
<1> USE ConstantTypes
<1>1. CASE SendCapture(m)
  BY <1>1 DEF TypeOK, SendCapture, SendStates, runVars, connVars, pathVars,
              dataVars, diskVars, histVars
<1>2. CASE SendTry(m)
  <2>0. UNCHANGED <<runVars, connVars, outRef, held, net, diskVars, delivered,
                    restarts>>
    BY <1>2 DEF SendTry
  <2>1. CASE Len(chan[cap[m]]) < OutCap
    <3>1. [id |-> m, seq |-> mseq[m]] \in Env
      BY EnvTypes DEF TypeOK
    <3>2. /\ chan' = [chan EXCEPT ![cap[m]] =
                        Append(@, [id |-> m, seq |-> mseq[m]])]
          /\ handed' = [handed EXCEPT ![m] = cap[m]]
          /\ SendReturn(m, "done")
      BY <1>2, <2>1 DEF SendTry
    <3>3. chan' \in [Conns -> Seq(Env)]
      BY <3>1, <3>2, PushType DEF TypeOK
    <3>4. handed' \in [Msgs -> 0 .. MaxConns]
      BY <3>2 DEF TypeOK
    <3>5. /\ snd' \in [Msgs -> SendStates]
          /\ mseq' \in [Msgs -> Nat]
          /\ cap' \in [Msgs -> 0 .. MaxConns]
          /\ seq' \in Nat
      BY <3>2 DEF TypeOK, SendReturn, SendStates
    <3> QED
      BY <2>0, <3>3, <3>4, <3>5 DEF TypeOK, runVars, connVars, diskVars
  <2>2. CASE ~(Len(chan[cap[m]]) < OutCap)
    BY <1>2, <2>0, <2>2 DEF TypeOK, SendTry, SendStates, runVars, connVars,
                            diskVars
  <2> QED
    BY <2>1, <2>2
<1>3. CASE SendEnqueue(m)
  <2>0. UNCHANGED <<runVars, connVars, pathVars, histVars, restarts>>
    BY <1>3 DEF SendEnqueue
  <2>1. /\ snd' \in [Msgs -> SendStates]
        /\ mseq' \in [Msgs -> Nat]
        /\ cap' \in [Msgs -> 0 .. MaxConns]
        /\ seq' \in Nat
    BY <1>3 DEF TypeOK, SendEnqueue, SendReturn, SendStates
  <2>2. /\ DOMAIN queue' \subseteq Keys
        /\ \A k \in DOMAIN queue' : queue'[k] \in [id : Msgs, seq : Nat]
        /\ clobbered' \subseteq Msgs
    <3> DEFINE k == SendKey(m)
               e == [id |-> m, seq |-> mseq[m]]
    <3>1. k \in Keys
      BY DEF SendKey, TypeOK, Keys
    <3>2. e \in [id : Msgs, seq : Nat]
      BY EnvTypes DEF TypeOK
    <3>3. queue' = Put(queue, k, e)
      BY <1>3 DEF SendEnqueue
    <3>4. clobbered' \subseteq Msgs
      BY <1>3 DEF SendEnqueue, TypeOK
    <3> HIDE DEF k, e
    <3>5. /\ DOMAIN queue' = DOMAIN queue \cup {k}
          /\ queue'[k] = e
          /\ \A x \in DOMAIN queue \ {k} : queue'[x] = queue[x]
      BY <3>3 DEF Put
    <3>6. ASSUME NEW x \in DOMAIN queue'
          PROVE  x \in Keys /\ queue'[x] \in [id : Msgs, seq : Nat]
      <4>1. CASE x = k
        BY <3>1, <3>2, <3>5, <4>1
      <4>2. CASE x # k
        BY <3>5, <4>2 DEF TypeOK
      <4> QED
        BY <4>1, <4>2
    <3> QED
      BY <3>4, <3>6
  <2> QED
    BY <2>0, <2>1, <2>2 DEF TypeOK, runVars, connVars, pathVars, histVars
<1>4. CASE SendEnqueueFail(m)
  <2>1. /\ snd' \in [Msgs -> SendStates]
        /\ mseq' \in [Msgs -> Nat]
        /\ cap' \in [Msgs -> 0 .. MaxConns]
        /\ seq' \in Nat
    BY <1>4 DEF TypeOK, SendEnqueueFail, SendReturn, SendStates
  <2>2. UNCHANGED <<runVars, connVars, pathVars, dataVars>>
    BY <1>4 DEF SendEnqueueFail
  <2> QED
    BY <2>1, <2>2 DEF TypeOK, runVars, connVars, pathVars, dataVars, diskVars,
                      histVars
<1> QED
  BY <1>1, <1>2, <1>3, <1>4 DEF Send

\* Numbering an envelope, whoever sends it.
LEMMA SendSeqType ==
  ASSUME TypeOK, NEW m \in Msgs, SendSeq(m)
  PROVE  /\ snd' \in [Msgs -> SendStates]
         /\ mseq' \in [Msgs -> Nat]
         /\ cap' \in [Msgs -> 0 .. MaxConns]
         /\ seq' \in Nat
BY DEF TypeOK, SendSeq, SendStates

\* The goroutines that call Send.
LEMMA SenderType ==
  ASSUME TypeOK, SenderNext
  PROVE  TypeOK'
<1> USE ConstantTypes
<1>1. ASSUME NEW d \in Reports, DiscoveryScan(d)
      PROVE  TypeOK'
  <2>1. SendSeq(d) /\ UNCHANGED <<runVars, connVars, pathVars, dataVars>>
    BY <1>1 DEF DiscoveryScan
  <2> QED
    BY <2>1, SendSeqType DEF TypeOK, runVars, connVars, pathVars, dataVars,
                             diskVars, histVars
<1>2. ASSUME NEW r \in Runs, NEW o \in {"finished", "cancelled"},
             RunFinish(r, o)
      PROVE  TypeOK'
  <2>1. SendSeq(r) /\ UNCHANGED <<connVars, pathVars, dataVars>>
    BY <1>2 DEF RunFinish
  <2>2. /\ runConn' \in [Runs -> 0 .. MaxConns]
        /\ outcome' \in [Runs -> {"none", "finished", "cancelled"}]
    BY <1>2 DEF RunFinish, TypeOK
  <2> QED
    BY <2>1, <2>2, SendSeqType DEF TypeOK, connVars, pathVars, dataVars,
                                   diskVars, histVars
<1> QED
  BY <1>1, <1>2, SendType DEF SenderNext

\* The goroutine of Start.
LEMMA MainType ==
  ASSUME TypeOK, MainNext
  PROVE  TypeOK'
<1> USE ConstantTypes DEF MainStates, Goto
<1>1. CASE Dial
  BY <1>1 DEF TypeOK, Dial, appVars, sendVars, runVars, loopVars, pathVars,
              dataVars, diskVars, histVars
<1>2. CASE DialFail
  BY <1>2 DEF TypeOK, DialFail, appVars, sendVars, runVars, loopVars, pathVars,
              dataVars, diskVars, histVars
<1>3. CASE HandshakeOk
  BY <1>3 DEF TypeOK, HandshakeOk, runVars, loopVars, pathVars, dataVars,
              diskVars, histVars
<1>4. CASE HandshakeFail
  BY <1>4 DEF TypeOK, HandshakeFail, runVars, loopVars, pathVars, dataVars,
              diskVars, histVars
<1>5. CASE PublishOut
  BY <1>5 DEF TypeOK, PublishOut, appVars, sendVars, runVars, loopVars,
              dataVars, diskVars, histVars
<1>6. CASE ReplayPop
  <2>1. /\ DOMAIN batch' \subseteq Keys
        /\ \A k \in DOMAIN batch' : batch'[k] \in [id : Msgs, seq : Nat]
    BY <1>6 DEF TypeOK, ReplayPop, DequeueJobs, Empty
  <2> QED
    BY <1>6, <2>1 DEF TypeOK, ReplayPop, appVars, sendVars, runVars, loopVars,
                      pathVars, dataVars, diskVars, histVars
<1>7. CASE ReplayDone
  <2>1. DOMAIN batch' = {}
    BY <1>7 DEF ReplayDone, Empty
  <2> QED
    BY <1>7, <2>1 DEF TypeOK, ReplayDone, appVars, sendVars, runVars, pathVars,
                      dataVars, diskVars, histVars
<1>8. CASE TearDown
  BY <1>8 DEF TypeOK, TearDown, appVars, sendVars, runVars, loopVars, dataVars,
              diskVars, histVars
<1>9. CASE BackoffWait
  BY <1>9 DEF TypeOK, BackoffWait, appVars, sendVars, runVars, loopVars,
              pathVars, dataVars, diskVars, histVars
<1>10. ASSUME NEW k \in DOMAIN batch, NEW acked \in BOOLEAN,
              ReplayPush(k, acked)
       PROVE  TypeOK'
  <2>1. batch[k] \in [id : Msgs, seq : Nat] /\ batch[k] \in Env
    BY EnvTypes DEF TypeOK
  <2>2. chan' \in [Conns -> Seq(Env)]
    BY <1>10, <2>1, PushType DEF TypeOK, ReplayPush
  <2>3. handed' \in [Msgs -> 0 .. MaxConns]
    BY <1>10, <2>1 DEF TypeOK, ReplayPush
  <2>4. /\ DOMAIN batch' \subseteq Keys
        /\ \A x \in DOMAIN batch' : batch'[x] \in [id : Msgs, seq : Nat]
    BY <1>10 DEF TypeOK, ReplayPush, Del
  <2>5. /\ DOMAIN queue' \subseteq Keys
        /\ \A x \in DOMAIN queue' : queue'[x] \in [id : Msgs, seq : Nat]
        /\ clobbered' \subseteq Msgs
    BY <1>10 DEF TypeOK, ReplayPush, Del
  <2> QED
    BY <1>10, <2>2, <2>3, <2>4, <2>5 DEF TypeOK, ReplayPush, appVars, sendVars,
                                          runVars, loopVars
<1> QED
  BY <1>1, <1>2, <1>3, <1>4, <1>5, <1>6, <1>7, <1>8, <1>9, <1>10 DEF MainNext

\* The loops of a connection.
LEMMA LoopType ==
  ASSUME TypeOK, PhaseInv, LoopsEndWithConnection, LoopNext
  PROVE  TypeOK'
<1> USE ConstantTypes DEF MainStates, LoopReturn
<1>1. CASE ReaderReturn
  BY <1>1 DEF TypeOK, ReaderReturn, appVars, sendVars, runVars, pathVars,
              dataVars, diskVars, histVars
<1>2. CASE WriterTake
  <2>0. outRef \in Conns
    BY <1>2 DEF TypeOK, PhaseInv, OutPublished, LoopsEndWithConnection,
                 WriterTake, Conns
  <2>1. chan[outRef] \in Seq(Env) /\ chan[outRef] # <<>>
    BY <1>2, <2>0 DEF TypeOK, WriterTake
  <2>2. Head(chan[outRef]) \in Env /\ Tail(chan[outRef]) \in Seq(Env)
    BY <2>1, IdsTail
  <2>3. chan' \in [Conns -> Seq(Env)]
    BY <1>2, <2>0, <2>2 DEF TypeOK, WriterTake
  <2>4. seq' \in Nat /\ held' \in Env
    <3>1. CASE Head(chan[outRef]).seq = 0
      <4>1. seq' = seq + 1 /\ held' = [Head(chan[outRef]) EXCEPT !.seq = seq + 1]
        BY <1>2, <3>1 DEF WriterTake
      <4>2. seq + 1 \in Nat
        BY DEF TypeOK
      <4> QED
        BY <2>2, <4>1, <4>2, EnvTypes
    <3>2. CASE Head(chan[outRef]).seq # 0
      BY <1>2, <2>2, <3>2 DEF TypeOK, WriterTake
    <3> QED
      BY <3>1, <3>2
  <2> QED
    BY <1>2, <2>3, <2>4 DEF TypeOK, WriterTake, runVars, connVars, dataVars,
                            diskVars, histVars
<1>3. CASE WriterWrite
  <2>1. held \in Env /\ net \in Seq(Env)
    BY <1>3 DEF TypeOK, WriterWrite
  <2>2. net' \in Seq(Env) /\ held' = NoEnv
    BY <1>3, <2>1 DEF WriterWrite
  <2> QED
    BY <1>3, <2>2 DEF TypeOK, WriterWrite, appVars, sendVars, runVars, connVars,
                      dataVars, diskVars, histVars
<1>4. CASE WriterReturn
  BY <1>4 DEF TypeOK, WriterReturn, appVars, sendVars, runVars, dataVars,
              diskVars, histVars
<1>5. CASE HeartbeatEmit
  <2>1. chan' \in [Conns -> Seq(Env)]
    BY <1>5, EnvTypes, PushType DEF TypeOK, HeartbeatEmit
  <2> QED
    BY <1>5, <2>1 DEF TypeOK, HeartbeatEmit, appVars, sendVars, runVars,
                      dataVars, diskVars, histVars
<1>6. CASE HeartbeatTick
  BY <1>6 DEF TypeOK, HeartbeatTick, appVars, sendVars, runVars, pathVars,
              dataVars, diskVars, histVars
<1>7. CASE HeartbeatReturn
  BY <1>7 DEF TypeOK, HeartbeatReturn, appVars, sendVars, runVars, pathVars,
              dataVars, diskVars, histVars
<1>8. ASSUME NEW r \in Runs, DispatchRunBackup(r)
      PROVE  TypeOK'
  BY <1>8 DEF TypeOK, DispatchRunBackup, SendStates, connVars, pathVars,
              dataVars, diskVars, histVars
<1>9. ASSUME NEW p \in Pings, DispatchPing(p)
      PROVE  TypeOK'
  <2>1. SendSeq(p) /\ UNCHANGED <<runVars, connVars, pathVars, dataVars>>
    BY <1>9 DEF DispatchPing
  <2> QED
    BY <2>1, SendSeqType DEF TypeOK, runVars, connVars, pathVars, dataVars,
                             diskVars, histVars
<1> QED
  BY <1>1, <1>2, <1>3, <1>4, <1>5, <1>6, <1>7, <1>8, <1>9 DEF LoopNext

\* The environment.
LEMMA EnvironmentType ==
  ASSUME TypeOK, EnvNext
  PROVE  TypeOK'
<1> USE ConstantTypes DEF MainStates
<1>1. CASE ServerReceive
  <2>1. net' \in Seq(Env)
    BY <1>1, IdsTail DEF TypeOK, ServerReceive
  <2>2. delivered' \in [Msgs -> Nat]
    BY <1>1 DEF TypeOK, ServerReceive
  <2> QED
    BY <1>1, <2>1, <2>2 DEF TypeOK, ServerReceive, appVars, sendVars, runVars,
                            connVars, diskVars
<1>2. CASE LinkCut
  BY <1>2 DEF TypeOK, LinkCut, appVars, sendVars, runVars, loopVars, dataVars,
              diskVars, histVars
<1>3. CASE Shutdown
  BY <1>3 DEF TypeOK, Shutdown, appVars, sendVars, runVars, loopVars, pathVars,
              dataVars, diskVars, histVars
<1>4. CASE Restart
  <2>1. DOMAIN batch' = {}
    BY <1>4 DEF Restart, Empty
  <2>2. /\ snd' \in [Msgs -> SendStates]
        /\ mseq' \in [Msgs -> Nat]
        /\ cap' \in [Msgs -> 0 .. MaxConns]
        /\ runConn' \in [Runs -> 0 .. MaxConns]
    BY <1>4 DEF TypeOK, Restart, SendStates
  <2>3. /\ mpc' = "idle" /\ cancelled' = FALSE /\ link' = "none"
        /\ outRef' = 0 /\ held' = NoEnv /\ net' = <<>>
        /\ loops' = {} /\ hb' = "wait" /\ beats' = 0 /\ seq' = 0
        /\ restarts' = restarts + 1 /\ restarts < MaxRestarts
    BY <1>4, Zenon DEF Restart
  <2>4. UNCHANGED <<outcome, conns, chan, diskVars, histVars>>
    BY <1>4 DEF Restart
  <2>5. restarts' \in 0 .. MaxRestarts /\ net' \in Seq(Env)
    BY <2>3 DEF TypeOK
  <2>6. /\ \A k \in DOMAIN queue' : queue'[k] \in [id : Msgs, seq : Nat]
        /\ DOMAIN queue' \subseteq Keys /\ clobbered' \subseteq Msgs
        /\ outcome' \in [Runs -> {"none", "finished", "cancelled"}]
        /\ chan' \in [Conns -> Seq(Env)] /\ conns' \in 0 .. MaxConns
        /\ delivered' \in [Msgs -> Nat] /\ handed' \in [Msgs -> 0 .. MaxConns]
    BY <2>4 DEF TypeOK, diskVars, histVars
  <2> QED
    BY <2>1, <2>2, <2>3, <2>5, <2>6 DEF TypeOK
<1> QED
  BY <1>1, <1>2, <1>3, <1>4 DEF EnvNext

-----------------------------------------------------------------------------
(* The phases of a connection: OutPublished and LoopsEndWithConnection. *)

ConnInv == OutPublished /\ LoopsEndWithConnection

\* Only the goroutine of Start, the loops and a restart move the phases.
LEMMA ConnStep ==
  ASSUME TypeOK, ConnInv, Next
  PROVE  ConnInv'
<1> USE DEF ConnInv, OutPublished, LoopsEndWithConnection
<1>1. ASSUME NEW m \in Msgs, Send(m)
      PROVE  ConnInv'
  BY <1>1 DEF Send, SendCapture, SendTry, SendEnqueue, SendEnqueueFail,
              connVars, pathVars
<1>2. CASE \/ \E d \in Reports : DiscoveryScan(d)
           \/ \E r \in Runs, o \in {"finished", "cancelled"} : RunFinish(r, o)
  BY <1>2 DEF DiscoveryScan, RunFinish, connVars, pathVars
<1>3. CASE Dial \/ DialFail \/ HandshakeOk \/ HandshakeFail \/ PublishOut
  BY <1>3 DEF TypeOK, Dial, DialFail, HandshakeOk, HandshakeFail, PublishOut,
              Goto, loopVars, pathVars
<1>4. CASE ReplayPop \/ TearDown \/ BackoffWait
  BY <1>4 DEF TypeOK, ReplayPop, TearDown, BackoffWait, Goto, loopVars,
              pathVars
<1>5. CASE ReplayDone
  BY <1>5 DEF ReplayDone, Goto, Empty, pathVars
<1>6. ASSUME NEW k \in DOMAIN batch, NEW acked \in BOOLEAN,
             ReplayPush(k, acked)
      PROVE  ConnInv'
  BY <1>6 DEF ReplayPush, loopVars
<1>7. CASE ReaderReturn \/ HeartbeatReturn
  BY <1>7 DEF ReaderReturn, HeartbeatReturn, LoopReturn, pathVars
<1>8. CASE WriterTake \/ WriterWrite \/ WriterReturn
  BY <1>8 DEF WriterTake, WriterWrite, WriterReturn, LoopReturn, connVars
<1>9. CASE HeartbeatEmit \/ HeartbeatTick
  BY <1>9 DEF HeartbeatEmit, HeartbeatTick, pathVars
<1>10. CASE \/ \E r \in Runs : DispatchRunBackup(r)
            \/ \E p \in Pings : DispatchPing(p)
  BY <1>10 DEF DispatchRunBackup, DispatchPing, connVars, pathVars
<1>11. CASE ServerReceive \/ LinkCut \/ Shutdown
  BY <1>11 DEF ServerReceive, LinkCut, Shutdown, connVars, loopVars, pathVars
<1>12. CASE Restart
  BY <1>12 DEF Restart, Empty
<1> QED
  BY <1>1, <1>2, <1>3, <1>4, <1>5, <1>6, <1>7, <1>8, <1>9, <1>10, <1>11, <1>12
  DEF Next, MainNext, LoopNext, SenderNext, EnvNext

-----------------------------------------------------------------------------
(* What is on disk, in a batch or in a channel comes from a finished Send. *)

\* A step that leaves these variables alone keeps OnlyReturnedSends.
LEMMA ReturnedFrame ==
  ASSUME OnlyReturnedSends, UNCHANGED <<snd, cap, handed, queue>>,
         TypeOK, conns' \in Nat, conns <= conns',
         batch' = batch \/ DOMAIN batch' = {}
  PROVE  OnlyReturnedSends'
BY DEF OnlyReturnedSends, TypeOK

\* Every step keeps the provenance of what is stored: queue and channel
\* contents come from a Send that has returned.
LEMMA ReturnedStep ==
  ASSUME TypeOK, ConnInv, OnlyReturnedSends, Next
  PROVE  OnlyReturnedSends'
<1> USE ConstantTypes
<1>1. ASSUME NEW m \in Msgs, SendCapture(m)
      PROVE  OnlyReturnedSends'
  BY <1>1 DEF SendCapture, OnlyReturnedSends, ConnInv, OutPublished, TypeOK,
              connVars, dataVars, diskVars, histVars
<1>2. ASSUME NEW m \in Msgs, SendTry(m)
      PROVE  OnlyReturnedSends'
  <2>1. CASE Len(chan[cap[m]]) < OutCap
    <3>1. /\ handed' = [handed EXCEPT ![m] = cap[m]]
          /\ snd' = [snd EXCEPT ![m] = "done"]
          /\ cap' = [cap EXCEPT ![m] = 0]
          /\ UNCHANGED <<conns, queue, batch>>
      BY <1>2, <2>1 DEF SendTry, SendReturn, connVars, diskVars
    <3> QED
      BY <3>1 DEF OnlyReturnedSends, TypeOK
  <2>2. CASE ~(Len(chan[cap[m]]) < OutCap)
    BY <1>2, <2>2 DEF SendTry, OnlyReturnedSends, TypeOK, connVars, diskVars
  <2> QED
    BY <2>1, <2>2
<1>3. ASSUME NEW m \in Msgs, SendEnqueue(m)
      PROVE  OnlyReturnedSends'
  <2>1. /\ snd' = [snd EXCEPT ![m] = "done"]
        /\ cap' = [cap EXCEPT ![m] = 0]
        /\ UNCHANGED <<handed, conns, batch>>
    BY <1>3 DEF SendEnqueue, SendReturn, connVars, histVars
  <2>2. \A x \in DOMAIN queue' :
           queue'[x].id = m \/ (x \in DOMAIN queue /\ queue'[x] = queue[x])
    BY <1>3 DEF SendEnqueue, Put
  <2> QED
    BY <2>1, <2>2 DEF OnlyReturnedSends, TypeOK
<1>4. ASSUME NEW m \in Msgs, SendEnqueueFail(m)
      PROVE  OnlyReturnedSends'
  BY <1>4 DEF SendEnqueueFail, SendReturn, OnlyReturnedSends, TypeOK, connVars,
              dataVars, diskVars, histVars
<1>5. ASSUME NEW d \in Reports, DiscoveryScan(d)
      PROVE  OnlyReturnedSends'
  BY <1>5 DEF DiscoveryScan, SendSeq, OnlyReturnedSends, TypeOK, connVars,
              dataVars, diskVars, histVars
<1>6. ASSUME NEW r \in Runs, NEW o \in {"finished", "cancelled"},
             RunFinish(r, o)
      PROVE  OnlyReturnedSends'
  BY <1>6 DEF RunFinish, SendSeq, OnlyReturnedSends, TypeOK, connVars,
              dataVars, diskVars, histVars
<1>7. CASE MainNext /\ ~ReplayPop /\
           ~\E k \in DOMAIN batch, acked \in BOOLEAN : ReplayPush(k, acked)
  <2>1. UNCHANGED <<snd, cap, handed, queue>>
    BY <1>7 DEF MainNext, Dial, DialFail, HandshakeOk, HandshakeFail,
                PublishOut, ReplayDone, TearDown, BackoffWait, appVars,
                sendVars, dataVars, diskVars, histVars
  <2>2. /\ conns' \in Nat /\ conns <= conns'
        /\ batch' = batch \/ DOMAIN batch' = {}
    BY <1>7 DEF MainNext, Dial, DialFail, HandshakeOk, HandshakeFail,
                PublishOut, ReplayDone, TearDown, BackoffWait, Empty, TypeOK
  <2> QED
    BY <2>1, <2>2, ReturnedFrame
<1>8. CASE ReplayPop
  <2>1. \A k \in DOMAIN batch' : k \in DOMAIN queue /\ batch'[k] = queue[k]
    BY <1>8 DEF ReplayPop, DequeueJobs, Empty
  <2> QED
    BY <1>8, <2>1 DEF ReplayPop, OnlyReturnedSends, TypeOK, appVars, sendVars,
                      dataVars, diskVars, histVars
<1>9. ASSUME NEW k \in DOMAIN batch, NEW acked \in BOOLEAN,
             ReplayPush(k, acked)
      PROVE  OnlyReturnedSends'
  <2>1. /\ \A x \in DOMAIN queue' : x \in DOMAIN queue /\ queue'[x] = queue[x]
        /\ \A x \in DOMAIN batch' : x \in DOMAIN batch /\ batch'[x] = batch[x]
    BY <1>9 DEF ReplayPush, Del
  <2>2. /\ handed' = [handed EXCEPT ![batch[k].id] = outRef]
        /\ outRef <= conns
        /\ snd[batch[k].id] = "done"
        /\ UNCHANGED <<snd, cap, conns>>
    BY <1>9 DEF ReplayPush, OnlyReturnedSends, ConnInv, OutPublished, TypeOK,
                appVars, sendVars
  <2> QED
    BY <2>1, <2>2 DEF OnlyReturnedSends, TypeOK
<1>10. ASSUME NEW r \in Runs, DispatchRunBackup(r)
       PROVE  OnlyReturnedSends'
  BY <1>10 DEF DispatchRunBackup, OnlyReturnedSends, TypeOK, connVars,
               dataVars, diskVars, histVars
<1>11. ASSUME NEW p \in Pings, DispatchPing(p)
       PROVE  OnlyReturnedSends'
  BY <1>11 DEF DispatchPing, SendSeq, OnlyReturnedSends, TypeOK, connVars,
               dataVars, diskVars, histVars
<1>12. CASE \/ ReaderReturn \/ WriterTake \/ WriterWrite \/ WriterReturn
            \/ HeartbeatEmit \/ HeartbeatTick \/ HeartbeatReturn
            \/ ServerReceive \/ LinkCut \/ Shutdown
  <2>1. UNCHANGED <<snd, cap, handed, queue, conns, batch>>
    BY <1>12 DEF ReaderReturn, WriterTake, WriterWrite, WriterReturn,
                 HeartbeatEmit, HeartbeatTick, HeartbeatReturn, ServerReceive,
                 LinkCut, Shutdown, connVars, appVars, sendVars, dataVars,
                 diskVars, histVars
  <2> QED
    BY <2>1, ReturnedFrame DEF TypeOK
<1>13. CASE Restart
  BY <1>13 DEF Restart, Empty, OnlyReturnedSends, TypeOK, diskVars, histVars
<1> QED
  BY <1>1, <1>2, <1>3, <1>4, <1>5, <1>6, <1>7, <1>8, <1>9, <1>10, <1>11,
     <1>12, <1>13
  DEF Next, MainNext, LoopNext, SenderNext, EnvNext, Send

-----------------------------------------------------------------------------
(* Conservation: every accepted envelope is accounted for. *)

\* A step that keeps the places where an envelope can be, and does not bring a
\* connection back to life, keeps it accounted for.
LEMMA AccountedFrame ==
  ASSUME NEW m \in Msgs, AccountedFor(m), TypeOK,
         UNCHANGED <<handed, queue, clobbered, delivered, chan>>,
         \/ /\ conns' = conns /\ Ids(net') = Ids(net)
            /\ held' = held /\ link' = link
            /\ (ConnDone => ConnDone')
         \/ handed[m] = 0
         \/ ConnOver(handed[m])'
  PROVE  AccountedFor(m)'
BY DEF AccountedFor, QueueIds, ConnOver

\* Everything a step of Next may assume.
IInv == TypeOK /\ ConnInv /\ OnlyReturnedSends /\ Accounted

\* The four steps of Send keep every accepted envelope accounted for; the
\* sender's own becomes so at the push or at the enqueue.
LEMMA SendAccounted ==
  ASSUME IInv, NEW s \in Msgs, Send(s)
  PROVE  Accounted'
<1> USE DEF IInv
<1>1. CASE SendCapture(s) \/ SendEnqueueFail(s)
  <2>1. /\ UNCHANGED <<handed, queue, clobbered, delivered, chan>>
        /\ UNCHANGED <<conns, net, held, link, cancelled, mpc>>
    BY <1>1 DEF SendCapture, SendEnqueueFail, connVars, pathVars, dataVars,
                diskVars, histVars
  <2>2. ASSUME NEW m \in Msgs, snd'[m] = "done"
        PROVE  snd[m] = "done"
    BY <1>1, <2>2 DEF SendCapture, SendEnqueueFail, SendReturn, TypeOK
  <2>3. ASSUME NEW m \in Msgs, snd'[m] = "done"
        PROVE  AccountedFor(m)'
    <3>1. AccountedFor(m)
      BY <2>2, <2>3 DEF Accounted
    <3> QED
      BY <2>1, <3>1, AccountedFrame DEF ConnDone
  <2> QED
    BY <2>3 DEF Accounted
<1>2. CASE SendTry(s)
  <2>0. UNCHANGED <<queue, clobbered, delivered, conns, net, held, link,
                    cancelled, mpc, outRef>>
    BY <1>2 DEF SendTry, connVars, diskVars
  <2>1. CASE Len(chan[cap[s]]) < OutCap
    <3> DEFINE e == [id |-> s, seq |-> mseq[s]]
    <3>1. /\ chan' = [chan EXCEPT ![cap[s]] = Append(@, e)]
          /\ handed' = [handed EXCEPT ![s] = cap[s]]
          /\ snd' = [snd EXCEPT ![s] = "done"]
      BY <1>2, <2>1 DEF SendTry, SendReturn
    <3>2. cap[s] \in Conns /\ e \in Env
      BY <1>2, ConstantTypes, EnvTypes
      DEF SendTry, OnlyReturnedSends, TypeOK, Conns
    <3>3. /\ chan[cap[s]] \in Seq(Env)
          /\ chan'[cap[s]] = Append(chan[cap[s]], e)
          /\ e.id = s
      BY <3>1, <3>2 DEF TypeOK
    <3> HIDE DEF e
    <3>4. Ids(chan'[cap[s]]) = Ids(chan[cap[s]]) \cup {s}
      BY <3>2, <3>3, IdsAppend
    <3>5. \A g \in Conns : Ids(chan[g]) \subseteq Ids(chan'[g])
      <4> TAKE g \in Conns
      <4>1. CASE g = cap[s]
        BY <3>4, <4>1
      <4>2. CASE g # cap[s]
        BY <3>1, <3>2, <4>2 DEF TypeOK
      <4> QED
        BY <4>1, <4>2
    <3>6. ASSUME NEW m \in Msgs, snd'[m] = "done"
          PROVE  AccountedFor(m)'
      <4>1. CASE m = s
        <5>1. handed'[m] = cap[s] /\ handed'[m] # 0
          BY <3>1, <3>2, <4>1 DEF TypeOK, Conns
        <5> QED
          BY <3>4, <4>1, <5>1 DEF AccountedFor
      <4>2. CASE m # s
        <5>1. snd[m] = "done" /\ handed'[m] = handed[m]
          BY <3>1, <3>6, <4>2 DEF TypeOK
        <5>2. AccountedFor(m)
          BY <5>1 DEF Accounted
        <5>3. handed[m] = 0 \/ handed[m] \in Conns
          BY ConstantTypes DEF TypeOK, Conns
        <5> QED
          BY <2>0, <3>5, <5>1, <5>2, <5>3
          DEF AccountedFor, QueueIds, ConnOver, ConnDone
      <4> QED
        BY <4>1, <4>2
    <3> QED
      BY <3>6 DEF Accounted
  <2>2. CASE ~(Len(chan[cap[s]]) < OutCap)
    <3>1. UNCHANGED <<chan, handed>> /\ snd' = [snd EXCEPT ![s] = "enqueue"]
      BY <1>2, <2>2 DEF SendTry
    <3>2. ASSUME NEW m \in Msgs, snd'[m] = "done"
          PROVE  AccountedFor(m)'
      <4>1. AccountedFor(m)
        BY <3>1, <3>2 DEF Accounted, TypeOK
      <4> QED
        BY <2>0, <3>1, <4>1, AccountedFrame DEF ConnDone
    <3> QED
      BY <3>2 DEF Accounted
  <2> QED
    BY <2>1, <2>2
<1>3. CASE SendEnqueue(s)
  <2> DEFINE k == SendKey(s)
  <2>1. /\ UNCHANGED <<handed, delivered, chan, conns, net, held, link,
                       cancelled, mpc>>
        /\ snd' = [snd EXCEPT ![s] = "done"]
    BY <1>3 DEF SendEnqueue, SendReturn, connVars, pathVars, histVars
  <2>2. /\ k \in DOMAIN queue' /\ queue'[k].id = s
        /\ \A x \in DOMAIN queue : \/ x \in DOMAIN queue' /\ queue'[x] = queue[x]
                                   \/ queue[x].id \in clobbered'
        /\ clobbered \subseteq clobbered'
    BY <1>3 DEF SendEnqueue, Put
  <2>3. ASSUME NEW m \in Msgs, snd'[m] = "done"
        PROVE  AccountedFor(m)'
    <3>1. CASE m = s
      <4>1. handed[m] = 0
        BY <1>3, <3>1 DEF SendEnqueue, OnlyReturnedSends, TypeOK
      <4> QED
        BY <2>1, <2>2, <3>1, <4>1 DEF AccountedFor, QueueIds
    <3>2. CASE m # s
      <4>1. AccountedFor(m)
        BY <2>1, <2>3, <3>2 DEF Accounted, TypeOK
      <4> QED
        BY <2>1, <2>2, <4>1 DEF AccountedFor, QueueIds, ConnOver, ConnDone
    <3> QED
      BY <3>1, <3>2
  <2> QED
    BY <2>3 DEF Accounted
<1> QED
  BY <1>1, <1>2, <1>3 DEF Send

\* Replay hands a record over and Acks its key in one iteration.
LEMMA ReplayAccounted ==
  ASSUME IInv, NEW k \in DOMAIN batch, NEW acked \in BOOLEAN,
         ReplayPush(k, acked)
  PROVE  Accounted'
<1> USE DEF IInv
<1> DEFINE s == batch[k].id
<1>0. UNCHANGED <<snd, delivered, conns, net, held, link, cancelled, mpc>>
  BY DEF ReplayPush, appVars, sendVars
<1>1. /\ batch[k] \in Env /\ s \in Msgs
      /\ outRef \in Conns /\ outRef # 0
      /\ chan[outRef] \in Seq(Env)
  BY EnvTypes DEF ReplayPush, ConnInv, OutPublished, TypeOK, Conns
<1>2. /\ chan' = [chan EXCEPT ![outRef] = Append(@, batch[k])]
      /\ handed' = [handed EXCEPT ![s] = outRef]
  BY DEF ReplayPush
<1>3. Ids(chan'[outRef]) = Ids(chan[outRef]) \cup {s}
  <2>1. chan'[outRef] = Append(chan[outRef], batch[k])
    BY <1>1, <1>2 DEF TypeOK
  <2> QED
    BY <1>1, <2>1, IdsAppend
<1>4. \A g \in Conns : Ids(chan[g]) \subseteq Ids(chan'[g])
  <2> TAKE g \in Conns
  <2>1. CASE g = outRef
    BY <1>3, <2>1
  <2>2. CASE g # outRef
    BY <1>1, <1>2, <2>2 DEF TypeOK
  <2> QED
    BY <2>1, <2>2
<1>5. /\ \A x \in DOMAIN queue : \/ x \in DOMAIN queue' /\ queue'[x] = queue[x]
                                 \/ queue[x].id \in clobbered'
                                 \/ queue[x].id = s
      /\ clobbered \subseteq clobbered'
  BY DEF ReplayPush, Del
<1> HIDE DEF s
<1>6. ASSUME NEW m \in Msgs, snd'[m] = "done"
      PROVE  AccountedFor(m)'
  <2>1. CASE m = s
    <3>1. handed'[m] = outRef
      BY <1>1, <1>2, <2>1 DEF TypeOK
    <3> QED
      BY <1>1, <1>3, <2>1, <3>1 DEF AccountedFor
  <2>2. CASE m # s
    <3>1. AccountedFor(m) /\ handed'[m] = handed[m]
      BY <1>0, <1>1, <1>2, <1>6, <2>2 DEF Accounted, TypeOK
    <3>2. handed[m] = 0 \/ handed[m] \in Conns
      BY ConstantTypes DEF TypeOK, Conns
    <3> QED
      BY <1>0, <1>4, <1>5, <2>2, <3>1, <3>2
      DEF AccountedFor, QueueIds, ConnOver, ConnDone
  <2> QED
    BY <2>1, <2>2
<1> QED
  BY <1>6 DEF Accounted

\* The writer moves an envelope from the channel to its hand, and from there
\* to the transport; the server takes it from there.
LEMMA PathAccounted ==
  ASSUME IInv, WriterTake \/ WriterWrite \/ ServerReceive
  PROVE  Accounted'
<1> USE DEF IInv
<1>0. UNCHANGED <<snd, handed, queue, clobbered, conns, link, cancelled, mpc>>
  BY DEF WriterTake, WriterWrite, ServerReceive, connVars, appVars, sendVars,
         dataVars, diskVars, histVars
<1>1. SUFFICES ASSUME NEW m \in Msgs, snd[m] = "done", AccountedFor(m),
                      handed[m] # 0, ~ConnOver(handed[m])
               PROVE  AccountedFor(m)'
  <2>1. ASSUME NEW m \in Msgs, snd'[m] = "done"
        PROVE  AccountedFor(m)'
    <3>1. snd[m] = "done" /\ AccountedFor(m)
      BY <1>0, <2>1 DEF Accounted
    <3>2. CASE handed[m] = 0
      BY <1>0, <3>1, <3>2 DEF AccountedFor, QueueIds
    <3>3. CASE handed[m] # 0 /\ ConnOver(handed[m])
      BY <1>0, <3>3 DEF AccountedFor, ConnOver, ConnDone
    <3> QED
      BY <1>1, <3>1, <3>2, <3>3
  <2> QED
    BY <2>1 DEF Accounted
<1>2. handed[m] = conns /\ handed[m] \in Conns /\ link = "up" /\ ~ConnDone
  BY <1>1, ConstantTypes DEF ConnOver, TypeOK, Conns
<1>3. CASE WriterTake
  <2>1. outRef = handed[m] /\ held.id # m /\ UNCHANGED <<net, delivered>>
    BY <1>2, <1>3, ConstantTypes
    DEF WriterTake, ConnInv, LoopsEndWithConnection, NoEnv, dataVars, histVars
  <2>2. chan[outRef] \in Seq(Env) /\ chan[outRef] # <<>>
    BY <1>2, <1>3, <2>1 DEF WriterTake, TypeOK
  <2>3. Ids(chan[outRef]) = {Head(chan[outRef]).id} \cup Ids(chan'[outRef])
    <3>1. chan'[outRef] = Tail(chan[outRef])
      BY <1>2, <1>3, <2>1 DEF WriterTake, TypeOK
    <3> QED
      BY <2>2, <3>1, IdsTail
  <2>4. held'.id = Head(chan[outRef]).id
    <3>1. Head(chan[outRef]) \in Env
      BY <2>2, IdsTail
    <3> QED
      BY <1>3, <3>1 DEF WriterTake, Env
  <2> QED
    BY <1>0, <1>1, <2>1, <2>3, <2>4 DEF AccountedFor
<1>4. CASE WriterWrite
  <2>1. UNCHANGED <<chan, delivered>> /\ net' = Append(net, held)
    BY <1>2, <1>4 DEF WriterWrite, dataVars, histVars
  <2>2. held \in Env /\ net \in Seq(Env)
    BY <1>4 DEF WriterWrite, TypeOK
  <2>3. Ids(net') = Ids(net) \cup {held.id}
    BY <2>1, <2>2, IdsAppend
  <2> QED
    BY <1>0, <1>1, <2>1, <2>3 DEF AccountedFor
<1>5. CASE ServerReceive
  <2>1. UNCHANGED <<chan, held>> /\ net \in Seq(Env) /\ net # <<>>
    BY <1>5 DEF ServerReceive, TypeOK
  <2>2. Ids(net) = {Head(net).id} \cup Ids(net')
    BY <1>5, <2>1, IdsTail DEF ServerReceive
  <2>3. /\ delivered'[m] >= delivered[m]
        /\ m = Head(net).id => delivered'[m] > 0
        /\ delivered[m] \in Nat /\ delivered'[m] \in Nat
    BY <1>5 DEF ServerReceive, TypeOK
  <2> QED
    BY <1>0, <1>1, <2>1, <2>2, <2>3 DEF AccountedFor
<1> QED
  BY <1>3, <1>4, <1>5

\* A heartbeat only adds to the channel.
LEMMA HeartbeatAccounted ==
  ASSUME IInv, HeartbeatEmit
  PROVE  Accounted'
<1> USE DEF IInv
<1> DEFINE e == [id |-> "heartbeat", seq |-> 0]
<1>0. UNCHANGED <<snd, handed, queue, clobbered, delivered, conns, net, held,
                  link, cancelled, mpc>>
  BY DEF HeartbeatEmit, appVars, sendVars, dataVars, diskVars, histVars
<1>1. outRef \in Conns /\ chan[outRef] \in Seq(Env) /\ e \in Env
  BY EnvTypes, ConstantTypes
  DEF HeartbeatEmit, ConnInv, OutPublished, LoopsEndWithConnection, TypeOK,
      Conns
<1>2. chan' = [chan EXCEPT ![outRef] = Append(@, e)]
  BY DEF HeartbeatEmit
<1> HIDE DEF e
<1>3. \A g \in Conns : Ids(chan[g]) \subseteq Ids(chan'[g])
  <2> TAKE g \in Conns
  <2>1. CASE g = outRef
    <3>1. chan'[g] = Append(chan[g], e)
      BY <1>1, <1>2, <2>1 DEF TypeOK
    <3> QED
      BY <1>1, <2>1, <3>1, IdsAppend
  <2>2. CASE g # outRef
    BY <1>1, <1>2, <2>2 DEF TypeOK
  <2> QED
    BY <2>1, <2>2
<1>4. ASSUME NEW m \in Msgs, snd'[m] = "done"
      PROVE  AccountedFor(m)'
  <2>1. AccountedFor(m)
    BY <1>0, <1>4 DEF Accounted
  <2>2. handed[m] = 0 \/ handed[m] \in Conns
    BY ConstantTypes DEF TypeOK, Conns
  <2> QED
    BY <1>0, <1>3, <2>1, <2>2 DEF AccountedFor, QueueIds, ConnOver, ConnDone
<1> QED
  BY <1>4 DEF Accounted

\* The other steps move no envelope: they keep the connection as it is, or end
\* it, or start one that nothing was handed to yet.
QuietStep ==
  \/ Dial \/ DialFail \/ HandshakeOk \/ HandshakeFail \/ PublishOut
  \/ ReplayPop \/ ReplayDone \/ TearDown \/ BackoffWait
  \/ ReaderReturn \/ WriterReturn \/ HeartbeatTick \/ HeartbeatReturn
  \/ LinkCut \/ Shutdown \/ Restart
  \/ \E r \in Runs : DispatchRunBackup(r)
  \/ \E p \in Pings : DispatchPing(p)
  \/ \E d \in Reports : DiscoveryScan(d)
  \/ \E r \in Runs, o \in {"finished", "cancelled"} : RunFinish(r, o)

\* The steps that touch neither the queue nor the way to the server.
LEMMA QuietAccounted ==
  ASSUME IInv, QuietStep
  PROVE  Accounted'
<1> USE DEF IInv
<1>1. UNCHANGED <<handed, queue, clobbered, delivered, chan>>
  BY DEF QuietStep, Dial, DialFail, HandshakeOk, HandshakeFail, PublishOut,
         ReplayPop, ReplayDone, TearDown, BackoffWait, ReaderReturn,
         WriterReturn, HeartbeatTick, HeartbeatReturn, LinkCut, Shutdown,
         Restart, DispatchRunBackup, DispatchPing, DiscoveryScan, RunFinish,
         pathVars, dataVars, diskVars, histVars
<1>2. ASSUME NEW m \in Msgs, snd'[m] = "done"
      PROVE  snd[m] = "done"
  <2>1. CASE Restart
    BY <1>2, <2>1 DEF Restart
  <2>2. CASE \/ \E r \in Runs : DispatchRunBackup(r)
             \/ \E p \in Pings : DispatchPing(p)
             \/ \E d \in Reports : DiscoveryScan(d)
             \/ \E r \in Runs, o \in {"finished", "cancelled"} : RunFinish(r, o)
    BY <1>2, <2>2 DEF DispatchRunBackup, DispatchPing, DiscoveryScan, RunFinish,
                      SendSeq, TypeOK
  <2>3. CASE snd' = snd
    BY <1>2, <2>3
  <2> QED
    BY <2>1, <2>2, <2>3
    DEF QuietStep, Dial, DialFail, HandshakeOk, HandshakeFail, PublishOut,
        ReplayPop, ReplayDone, TearDown, BackoffWait, ReaderReturn,
        WriterReturn, HeartbeatTick, HeartbeatReturn, LinkCut, Shutdown,
        appVars, sendVars
<1>3. ASSUME NEW m \in Msgs
      PROVE  \/ /\ conns' = conns /\ net' = net /\ held' = held /\ link' = link
                /\ ConnDone => ConnDone'
             \/ ConnOver(handed[m])'
  <2>1. CASE Dial
    <3>1. conns' = conns + 1 /\ handed' = handed /\ handed[m] <= conns
      BY <2>1 DEF Dial, OnlyReturnedSends, dataVars, histVars
    <3>2. handed'[m] # conns'
      BY <3>1 DEF TypeOK
    <3> QED
      BY <3>2 DEF ConnOver
  <2>2. CASE HandshakeFail \/ TearDown \/ LinkCut \/ Restart
    BY <2>2 DEF HandshakeFail, TearDown, LinkCut, Restart, ConnOver
  <2>3. CASE ReaderReturn \/ WriterReturn \/ HeartbeatReturn
    BY <2>3 DEF ReaderReturn, WriterReturn, HeartbeatReturn, LoopReturn,
                ConnOver, ConnDone
  <2>4. CASE \/ DialFail \/ HandshakeOk \/ PublishOut \/ ReplayPop
             \/ ReplayDone \/ BackoffWait
    BY <2>4 DEF DialFail, HandshakeOk, PublishOut, ReplayPop, ReplayDone,
                BackoffWait, Goto, ConnDone, pathVars
  <2>5. CASE HeartbeatTick \/ Shutdown
    BY <2>5 DEF HeartbeatTick, Shutdown, ConnDone, pathVars
  <2>6. CASE \/ \E r \in Runs : DispatchRunBackup(r)
             \/ \E p \in Pings : DispatchPing(p)
             \/ \E d \in Reports : DiscoveryScan(d)
             \/ \E r \in Runs, o \in {"finished", "cancelled"} : RunFinish(r, o)
    BY <2>6 DEF DispatchRunBackup, DispatchPing, DiscoveryScan, RunFinish,
                ConnDone, connVars, pathVars
  <2> QED
    BY <2>1, <2>2, <2>3, <2>4, <2>5, <2>6 DEF QuietStep
<1>4. ASSUME NEW m \in Msgs, snd'[m] = "done"
      PROVE  AccountedFor(m)'
  <2>1. AccountedFor(m)
    BY <1>2, <1>4 DEF Accounted
  <2> QED
    BY <1>1, <1>3, <2>1, AccountedFrame
<1> QED
  BY <1>4 DEF Accounted

-----------------------------------------------------------------------------
(* The invariant is inductive. *)

\* NewClient's state satisfies the inductive invariant.
LEMMA InitIInv == Init => IInv
<1> SUFFICES ASSUME Init PROVE IInv
  OBVIOUS
<1>1. TypeOK
  BY InitType
<1>2. ConnInv
  BY DEF Init, ConnInv, OutPublished, LoopsEndWithConnection, Empty
<1>3. OnlyReturnedSends /\ Accounted
  BY DEF Init, OnlyReturnedSends, Accounted, Empty
<1> QED
  BY <1>1, <1>2, <1>3 DEF IInv

\* A stuttering step keeps the inductive invariant.
LEMMA StutterIInv == IInv /\ UNCHANGED vars => IInv'
<1> SUFFICES ASSUME IInv, UNCHANGED vars PROVE IInv'
  OBVIOUS
<1> USE DEF IInv, vars, appVars, sendVars, runVars, connVars, pathVars,
            dataVars, diskVars, histVars
<1>1. TypeOK'
  BY DEF TypeOK
<1>2. ConnInv' /\ OnlyReturnedSends'
  BY DEF ConnInv, OutPublished, LoopsEndWithConnection, OnlyReturnedSends
<1>3. Accounted'
  BY DEF Accounted, AccountedFor, QueueIds, ConnOver, ConnDone
<1> QED
  BY <1>1, <1>2, <1>3

\* Every step of the session keeps the inductive invariant.
LEMMA NextIInv == IInv /\ [Next]_vars => IInv'
<1>1. ASSUME IInv, Next PROVE IInv'
  <2> USE <1>1 DEF IInv
  <2>1. TypeOK'
    BY MainType, LoopType, SenderType, EnvironmentType
    DEF Next, ConnInv, PhaseInv
  <2>2. ConnInv'
    BY ConnStep
  <2>3. OnlyReturnedSends'
    BY ReturnedStep
  <2>4. Accounted'
    BY SendAccounted, ReplayAccounted, PathAccounted, HeartbeatAccounted,
       QuietAccounted
    DEF Next, MainNext, LoopNext, SenderNext, EnvNext, QuietStep
  <2> QED
    BY <2>1, <2>2, <2>3, <2>4
<1> QED
  BY <1>1, StutterIInv

\* Every state variable keeps its type.
THEOREM TypeCorrect == Spec => []TypeOK
<1>1. IInv => TypeOK
  BY DEF IInv
<1> QED
  BY <1>1, InitIInv, NextIInv, PTL DEF Spec

\* The phases of Start and the provenance of what is stored: the part of the
\* inductive invariant that Accounted rests on.
THEOREM Phases == Spec => []PhaseInv
<1>1. IInv => PhaseInv
  BY DEF IInv, ConnInv, PhaseInv
<1> QED
  BY <1>1, InitIInv, NextIInv, PTL DEF Spec

\* Whatever the number of messages, connections, restarts and failures, no
\* loop of a connection outlives it.
THEOREM OnePump == Spec => []LoopsEndWithConnection
<1>1. IInv => LoopsEndWithConnection
  BY DEF IInv, ConnInv
<1> QED
  BY <1>1, InitIInv, NextIInv, PTL DEF Spec

\* The conservation law: an envelope that Send has accepted is on disk, in the
\* connection it was handed to, or with the server, until that connection ends
\* or another record takes its key.
THEOREM NoSilentLoss == Spec => []Accounted
<1>1. IInv => Accounted
  BY DEF IInv
<1> QED
  BY <1>1, InitIInv, NextIInv, PTL DEF Spec

=============================================================================
