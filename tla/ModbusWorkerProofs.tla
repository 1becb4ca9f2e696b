------------------------- MODULE ModbusWorkerProofs -------------------------
(***************************************************************************)
(* Proofs about ModbusWorker, for every configuration of sensors.  The     *)
(* inductive invariant IInv joins the type invariant with what the pump    *)
(* and the connection promise each other: neither part is inductive alone, *)
(* since a reply is only handled on an open client, and the client is only *)
(* open between a successful connect and the step that loses it.           *)
(***************************************************************************)
EXTENDS ModbusWorker, TLAPS

Controls == [await : Requests, queue : Seq(WriteOps), pump : BOOLEAN]

Consistent(c) ==
  /\ c \in Controls
  /\ c.pump = (c.await # NoRequest)
  /\ ~c.pump => c.queue = <<>>

LinkInv ==
  /\ client = "open" => owner = "monitor" /\ phase \in {"running", "crashed"}
  /\ phase = "created" => /\ ~pollTimer /\ ~connected /\ ~reported
                          /\ reconnects = 0 /\ client = "null"
  /\ phase = "running" => /\ reported = connected
                          /\ client = "open" => connected
                          /\ connected => pollTimer
                          /\ reconnects = IF pollTimer THEN 0 ELSE 1

PumpInv ==
  /\ phase # "crashed" =>
       /\ pump = (await # NoRequest)
       /\ pump => client = "open" /\ phase = "running"
       /\ ~pump => queue = <<>>
       /\ outstanding = IF await = NoRequest THEN 0 ELSE 1
  /\ await.stage = "reset" => await.todo \subseteq resetDoCoils

IInv == TypeOK /\ LinkInv /\ PumpInv
-----------------------------------------------------------------------------
(***************************************************************************)
(* What the control operators return.                                      *)
(***************************************************************************)
LEMMA Assumptions ==
  /\ Len(PollList) \in Nat /\ Len(PollList) >= 1
  /\ BackoffInit \in BackoffInit..BackoffMax
  /\ BackoffInit \in Nat /\ BackoffMax \in Nat
  /\ \A i \in 1..Len(PollList) : PollList[i] \in Polled
  /\ \A i \in 1..Len(PollList) : DiChannels[PollList[i]] \in Nat
  /\ LinkedDOs \cap StandaloneDOs = {}
BY ConfigAssumption DEF ConfigAssumption, StandaloneDOs, Polled

LEMMA RequestType ==
  ASSUME NEW stage \in Stages, NEW i \in 0..Len(PollList), NEW n \in Nat,
         NEW w \in SUBSET Write
  PROVE  /\ Request(stage, i, n, w) \in Requests
         /\ Request(stage, i, n, w) # NoRequest
BY DEF Request, Requests, NoRequest, Stages

LEMMA BusyConsistent ==
  ASSUME NEW stage \in Stages, NEW i \in 0..Len(PollList), NEW n \in Nat,
         NEW w \in SUBSET Write, NEW q \in Seq(WriteOps)
  PROVE  Consistent(Busy(Request(stage, i, n, w), q))
BY RequestType DEF Consistent, Controls, Busy

LEMMA NextOpConsistent ==
  ASSUME NEW q \in Seq(WriteOps)
  PROVE  /\ Consistent(pumpNextOp(q))
         /\ pumpNextOp(q).await.stage \in {"none", "coil"}
<1>1. CASE q = <<>>
  BY <1>1, Assumptions DEF pumpNextOp, Idle, Consistent, Controls, Requests, NoRequest,
     Request
<1>2. CASE q # <<>>
  <2>1. Head(q) \in WriteOps /\ Tail(q) \in Seq(WriteOps)
    BY <1>2
  <2>2. FirstRequest(Head(q)) = Request("coil", 0, 0, Head(q).todo)
    BY <2>1 DEF FirstRequest, WriteOps
  <2>3. Head(q).todo \in SUBSET Write
    BY <2>1 DEF WriteOps
  <2>4. pumpNextOp(q) = Busy(Request("coil", 0, 0, Head(q).todo), Tail(q))
    BY <1>2, <2>2 DEF pumpNextOp
  <2>5. "coil" \in Stages /\ 0 \in 0..Len(PollList) /\ 0 \in Nat
    BY Assumptions DEF Stages
  <2>6. Consistent(pumpNextOp(q))
    BY <2>1, <2>3, <2>4, <2>5, BusyConsistent
  <2> QED
    BY <2>4, <2>6 DEF Busy, Request
<1> QED
  BY <1>1, <1>2

LEMMA PollSensorConsistent ==
  ASSUME NEW q \in Seq(WriteOps), NEW i \in Nat
  PROVE  /\ Consistent(pollSensorAt(i, q))
         /\ pollSensorAt(i, q).await.stage \in {"none", "coil", "analog", "sdi", "sdo"}
<1>1. CASE i > Len(PollList)
  BY <1>1, NextOpConsistent DEF pollSensorAt
<1>2. CASE ~(i > Len(PollList))
  <2>1. i \in 0..Len(PollList)
    BY <1>2, Assumptions
  <2>2. ReadStage(PollList[i]) \in Stages \cap {"analog", "sdi", "sdo"}
    BY DEF ReadStage, Stages
  <2>3. pollSensorAt(i, q) = Busy(Request(ReadStage(PollList[i]), i, 0, {}), q)
    BY <1>2 DEF pollSensorAt, SensorRequest
  <2>4. {} \in SUBSET Write /\ 0 \in Nat
    OBVIOUS
  <2>5. Consistent(pollSensorAt(i, q))
    BY <2>1, <2>2, <2>3, <2>4, BusyConsistent
  <2> QED
    BY <2>2, <2>3, <2>5 DEF Busy, Request
<1> QED
  BY <1>1, <1>2

LEMMA ReadDiConsistent ==
  ASSUME NEW q \in Seq(WriteOps), NEW i \in 0..Len(PollList), NEW n \in Nat
  PROVE  /\ Consistent(readDiChain(i, n, q))
         /\ readDiChain(i, n, q).await.stage # "reset"
<1>1. CASE n > DiChannels[PollList[i]]
  <2>1. i + 1 \in Nat
    BY Assumptions
  <2> QED
    BY <1>1, <2>1, PollSensorConsistent DEF readDiChain
<1>2. CASE ~(n > DiChannels[PollList[i]])
  <2>1. "di" \in Stages
    BY DEF Stages
  <2> QED
    BY <1>2, <2>1, BusyConsistent DEF readDiChain, Busy, Request
<1> QED
  BY <1>1, <1>2

LEMMA WriteDoConsistent ==
  ASSUME NEW q \in Seq(WriteOps), NEW i \in 0..Len(PollList), NEW w \in SUBSET Write
  PROVE  /\ Consistent(writeDoChain(i, w, q))
         /\ writeDoChain(i, w, q).await.stage # "reset"
<1>1. CASE w = {}
  BY <1>1, ReadDiConsistent DEF writeDoChain
<1>2. CASE w # {}
  <2>1. "doWrite" \in Stages
    BY DEF Stages
  <2> QED
    BY <1>2, <2>1, BusyConsistent DEF writeDoChain, Busy, Request
<1> QED
  BY <1>1, <1>2

LEMMA ResetConsistent ==
  ASSUME NEW q \in Seq(WriteOps), NEW w \in SUBSET Write
  PROVE  /\ Consistent(resetWrites(w, q))
         /\ \/ resetWrites(w, q).await = Request("reset", 0, 0, w)
            \/ w = {} /\ resetWrites(w, q).await.stage # "reset"
<1>1. CASE w = {}
  BY <1>1, NextOpConsistent DEF resetWrites
<1>2. CASE w # {}
  <2>1. "reset" \in Stages /\ 0 \in 0..Len(PollList) /\ 0 \in Nat
    BY Assumptions DEF Stages
  <2> QED
    BY <1>2, <2>1, BusyConsistent DEF resetWrites, Busy
<1> QED
  BY <1>1, <1>2

\* An operation enqueued on an idle pump runs at once.
LEMMA EnqueuePollConsistent ==
  ASSUME ~pump, queue = <<>>
  PROVE  /\ Consistent(enqueueOp(Op("poll", {})))
         /\ enqueueOp(Op("poll", {})).await.stage # "reset"
<1> DEFINE q == Append(<<>>, Op("poll", {}))
<1>1. q = <<Op("poll", {})>> /\ q # <<>> /\ Head(q) = Op("poll", {}) /\ Tail(q) = <<>>
  OBVIOUS
<1>2. enqueueOp(Op("poll", {})) = Busy(SensorRequest(1), <<>>)
  BY <1>1 DEF enqueueOp, pumpNextOp, FirstRequest, Op
<1>3. 1 \in 0..Len(PollList) /\ <<>> \in Seq(WriteOps)
  BY Assumptions
<1>4. ReadStage(PollList[1]) \in Stages \ {"reset"}
  BY DEF ReadStage, Stages
<1>5. {} \in SUBSET Write /\ 0 \in Nat
  OBVIOUS
<1>6. Consistent(Busy(SensorRequest(1), <<>>))
  BY <1>3, <1>4, <1>5, BusyConsistent DEF SensorRequest
<1>7. Busy(SensorRequest(1), <<>>).await.stage = ReadStage(PollList[1])
  BY DEF Busy, SensorRequest, Request
<1> QED
  BY <1>2, <1>4, <1>6, <1>7

LEMMA EnqueueWriteConsistent ==
  ASSUME TypeOK, pump = (await # NoRequest), ~pump => queue = <<>>,
         NEW w \in SUBSET Write
  PROVE  LET c == enqueueOp(Op("write", w))
         IN /\ Consistent(c)
            /\ c.await = await \/ c.await.stage = "coil"
            /\ pump => c.await = await
<1> DEFINE op == Op("write", w)
<1>1. op \in WriteOps
  BY DEF Op, WriteOps
<1>2. queue \in Seq(WriteOps) /\ await \in Requests
  BY DEF TypeOK
<1>3. Append(queue, op) \in Seq(WriteOps)
  BY <1>1, <1>2
<1>4. CASE pump
  BY <1>2, <1>3, <1>4 DEF enqueueOp, Busy, Consistent, Controls
<1>5. CASE ~pump
  <2>1. Consistent(pumpNextOp(Append(queue, op)))
    BY <1>3, NextOpConsistent
  <2>2. Append(queue, op) # <<>> /\ Head(Append(queue, op)) = op
    BY <1>1, <1>2, <1>5
  <2>3. pumpNextOp(Append(queue, op)).await = Request("coil", 0, 0, w)
    BY <2>2 DEF pumpNextOp, FirstRequest, Op, Busy
  <2> QED
    BY <1>5, <2>1, <2>3 DEF enqueueOp, Request
<1> QED
  BY <1>4, <1>5
-----------------------------------------------------------------------------
(***************************************************************************)
(* Taking a control keeps the pump's part of the invariant.                *)
(***************************************************************************)
LEMMA GotoPump ==
  ASSUME NEW c, NEW k \in {0, 1}, Consistent(c), Goto(c, k), await \in Requests,
         outstanding = IF await = NoRequest THEN 0 ELSE 1,
         \/ k = 1 /\ await # NoRequest
         \/ k = 0 /\ (c.await = await \/ await = NoRequest)
  PROVE  /\ await' \in Requests /\ await' = c.await
         /\ queue' \in Seq(WriteOps)
         /\ pump' \in BOOLEAN /\ pump' = (await' # NoRequest)
         /\ ~pump' => queue' = <<>>
         /\ outstanding' \in Nat
         /\ outstanding' = IF await' = NoRequest THEN 0 ELSE 1
BY DEF Consistent, Controls, Goto

LEMMA RunDryPump ==
  ASSUME RunDry
  PROVE  /\ await' \in Requests /\ await' = NoRequest /\ await'.stage # "reset"
         /\ queue' \in Seq(WriteOps) /\ queue' = <<>>
         /\ pump' = FALSE /\ outstanding' = 0
BY DEF RunDry, Requests, NoRequest, Request

LEMMA PublishType ==
  ASSUME published \in [LinkedDOs -> {"none", "on", "off"}], NEW a, NEW b,
         Publish(a, b)
  PROVE  published' \in [LinkedDOs -> {"none", "on", "off"}]
BY DEF Publish, Belief

LEMMA ExecutesType ==
  ASSUME TypeOK, NEW w \in Write, Executes(w)
  PROVE  coil' \in [Coils -> BOOLEAN]
BY DEF TypeOK, Executes, Write

LEMMA MayExecuteType ==
  ASSUME TypeOK, NEW may, MayExecute(may)
  PROVE  coil' \in [Coils -> BOOLEAN]
<1>1. await.todo \subseteq Write
  BY DEF TypeOK, Requests, NoRequest, Request
<1> QED
  BY <1>1, ExecutesType DEF MayExecute, TypeOK

LEMMA DrainType ==
  ASSUME TypeOK, PublishOnDrain
  PROVE  published' \in [LinkedDOs -> {"none", "on", "off"}]
BY PublishType DEF PublishOnDrain, TypeOK

\* What a reply handler may rely on.
LEMMA AnsweredFacts ==
  ASSUME IInv, NEW S \in SUBSET Stages, Answered(S)
  PROVE  /\ phase = "running" /\ client = "open" /\ await # NoRequest
         /\ await \in [stage : Stages, idx : 0..Len(PollList), di : Nat,
                       todo : SUBSET Write]
         /\ outstanding = IF await = NoRequest THEN 0 ELSE 1
         /\ queue \in Seq(WriteOps)
<1>1. await # NoRequest
  BY DEF Answered, NoRequest, Request, Stages
<1> QED
  BY <1>1 DEF IInv, TypeOK, PumpInv, Requests, Answered
-----------------------------------------------------------------------------
\* The inductive invariant holds when the worker is created.
THEOREM WorkerInit == Init => IInv
<1> SUFFICES ASSUME Init PROVE IInv
  OBVIOUS
<1>1. await \in Requests /\ queue \in Seq(WriteOps)
  BY DEF Init, Requests
<1>2. /\ alarm \in [Analogs -> SUBSET Limits]
      /\ doStates \in [Coils -> {"unknown", "on", "off"}]
      /\ published \in [LinkedDOs -> {"none", "on", "off"}]
  BY DEF Init, NoAlarm, Unknown
<1>3. TypeOK
  BY <1>1, <1>2, Assumptions DEF Init, TypeOK
<1>4. LinkInv
  BY DEF Init, LinkInv
<1>5. PumpInv
  BY DEF Init, PumpInv, NoRequest, Request
<1> QED
  BY <1>3, <1>4, <1>5 DEF IInv

\* A step that changes nothing, or nothing but what a tester does.
LEMMA SameInv ==
  ASSUME IInv, UNCHANGED <<pumpVars, linkVars, doVars>>
  PROVE  IInv'
<1>1. TypeOK'
  BY DEF IInv, TypeOK, pumpVars, linkVars, doVars
<1>2. LinkInv'
  BY DEF IInv, LinkInv, linkVars
<1>3. PumpInv'
  BY DEF IInv, PumpInv, pumpVars, linkVars, resetDoCoils
<1> QED
  BY <1>1, <1>2, <1>3 DEF IInv

LEMMA ConnectFails ==
  ASSUME IInv, connectBusy \/ connectRefused, phase' = "running",
         phase \in {"created", "running"}, ~pollTimer, reconnects' = 1,
         backoff' \in BackoffInit..BackoffMax, heartbeat' \in BOOLEAN
  PROVE  IInv'
<1>1. client # "open" /\ ~connected /\ ~reported
  BY DEF IInv, LinkInv, TypeOK
<1>2. /\ client' \in {"null", "closed"} /\ ~connected' /\ ~reported' /\ ~pollTimer'
      /\ connected' \in BOOLEAN /\ reported' \in BOOLEAN /\ pollTimer' \in BOOLEAN
      /\ owner' \in {"none", "monitor", "tester"}
  <2>1. /\ client \in {"null", "closed"} /\ owner \in {"none", "monitor", "tester"}
        /\ reported = FALSE /\ pollTimer = FALSE
    BY <1>1 DEF IInv, TypeOK
  <2>2. CASE connectBusy
    BY <1>1, <2>1, <2>2 DEF connectBusy
  <2>3. CASE connectRefused
    BY <1>1, <2>1, <2>3 DEF connectRefused, acquirePort, reportLost
  <2> QED
    BY <2>2, <2>3
<1>3. UNCHANGED <<pumpVars, doVars>>
  BY DEF connectBusy, connectRefused
<1>4. TypeOK'
  BY <1>2, <1>3 DEF IInv, TypeOK, pumpVars, doVars
<1>5. LinkInv'
  BY <1>2 DEF LinkInv
<1>6. PumpInv'
  BY <1>1, <1>3 DEF IInv, TypeOK, LinkInv, PumpInv, pumpVars, resetDoCoils
<1> QED
  BY <1>4, <1>5, <1>6 DEF IInv

LEMMA ResetWritesType == resetDoCoils \in SUBSET Write
<1> SUFFICES ASSUME NEW d \in LinkedDOs PROVE [do |-> d, want |-> FALSE] \in Write
  BY DEF resetDoCoils
<1>1. d \in Coils
  BY DEF Coils
<1> QED
  BY <1>1 DEF Write

LEMMA ConnectOpens ==
  ASSUME IInv, connectOpened, phase' = "running", phase \in {"created", "running"},
         reconnects' = 0, heartbeat' \in BOOLEAN
  PROVE  IInv'
<1>1. ~pump /\ queue = <<>> /\ await = NoRequest /\ outstanding = 0 /\ queue \in Seq(WriteOps)
  BY DEF IInv, PumpInv, TypeOK, connectOpened
<1> DEFINE c == IF FailSafe /\ resetDoCoils # {} THEN resetWrites(resetDoCoils, queue)
                ELSE enqueueOp(Op("poll", {}))
<1>3. Consistent(c) /\ (c.await.stage = "reset" => c.await.todo \subseteq resetDoCoils)
  <2>1. CASE FailSafe /\ resetDoCoils # {}
    <3>1. c = resetWrites(resetDoCoils, queue)
      BY <2>1
    <3>2. Consistent(c) /\ c.await = Request("reset", 0, 0, resetDoCoils)
      BY <1>1, <2>1, <3>1, ResetWritesType, ResetConsistent
    <3> QED
      BY <3>2 DEF Request
  <2>2. CASE ~(FailSafe /\ resetDoCoils # {})
    BY <1>1, <2>2, EnqueuePollConsistent
  <2> QED
    BY <2>1, <2>2
<1>4. Goto(c, 0)
  BY DEF connectOpened
<1>5. await \in Requests
  BY DEF IInv, TypeOK
<1> HIDE DEF c
<1>6. /\ await' \in Requests /\ await' = c.await
      /\ queue' \in Seq(WriteOps)
      /\ pump' \in BOOLEAN /\ pump' = (await' # NoRequest)
      /\ ~pump' => queue' = <<>>
      /\ outstanding' \in Nat
      /\ outstanding' = IF await' = NoRequest THEN 0 ELSE 1
  BY <1>1, <1>3, <1>4, <1>5, GotoPump
<1>7. TypeOK'
  BY <1>6, Assumptions DEF connectOpened, IInv, TypeOK, NoAlarm, Unknown, acquirePort, reconnectBeliefs
<1>8. LinkInv'
  BY DEF connectOpened, acquirePort, IInv, LinkInv
<1>9. PumpInv'
  BY <1>3, <1>6 DEF connectOpened, PumpInv, resetDoCoils
<1> QED
  BY <1>7, <1>8, <1>9 DEF IInv

LEMMA StartInv == ASSUME IInv, start PROVE IInv'
<1>1. phase' = "running" /\ phase = "created" /\ ~pollTimer /\ reconnects = 0 /\ heartbeat' \in BOOLEAN
  BY DEF start, IInv, LinkInv
<1>2. CASE connectOpened /\ UNCHANGED reconnects
  BY <1>1, <1>2, ConnectOpens
<1>3. CASE (connectBusy \/ connectRefused) /\ reconnects' = reconnects + 1 /\ UNCHANGED backoff
  BY <1>1, <1>3, ConnectFails DEF IInv, TypeOK
<1> QED
  BY <1>2, <1>3 DEF start

LEMMA TryReconnectInv == ASSUME IInv, tryReconnect PROVE IInv'
<1>1. CASE reconnectOpens
  <2>1. phase = "running" /\ phase' = "running" /\ reconnects = 1 /\ heartbeat' \in BOOLEAN
    BY <1>1 DEF reconnectOpens, IInv, LinkInv, TypeOK
  <2> QED
    BY <1>1, <2>1, ConnectOpens DEF reconnectOpens
<1>2. CASE reconnectFails
  <2>1. /\ phase = "running" /\ phase' = "running" /\ reconnects' = 1 /\ ~pollTimer
        /\ heartbeat' \in BOOLEAN
    BY <1>2 DEF reconnectFails, IInv, LinkInv, TypeOK
  <2>2. backoff' \in BackoffInit..BackoffMax
    BY <1>2, Assumptions DEF reconnectFails, nextBackoff, IInv, TypeOK
  <2> QED
    BY <1>2, <2>1, <2>2, ConnectFails DEF reconnectFails
<1>3. CASE reconnectIgnored
  BY <1>3 DEF reconnectIgnored, IInv, TypeOK, LinkInv, PumpInv, pumpVars, doVars,
     resetDoCoils
<1> QED
  BY <1>1, <1>2, <1>3 DEF tryReconnect

\* A step of the pump: the connection is left alone, a consistent control is
\* taken, and the alarms, beliefs, coils and reports keep their types.
LEMMA PumpStep ==
  ASSUME IInv, phase = "running", client = "open", UNCHANGED linkVars,
         NEW c, NEW k \in {0, 1}, Consistent(c), Goto(c, k),
         \/ k = 1 /\ await # NoRequest
         \/ k = 0 /\ (c.await = await \/ await = NoRequest),
         c.await.stage = "reset" => c.await.todo \subseteq resetDoCoils,
         alarm' \in [Analogs -> SUBSET Limits],
         doStates' \in [Coils -> {"unknown", "on", "off"}],
         coil' \in [Coils -> BOOLEAN],
         published' \in [LinkedDOs -> {"none", "on", "off"}]
  PROVE  IInv'
<1>1. await \in Requests /\ outstanding = IF await = NoRequest THEN 0 ELSE 1
  BY DEF IInv, TypeOK, PumpInv
<1>2. /\ await' \in Requests /\ await' = c.await
      /\ queue' \in Seq(WriteOps)
      /\ pump' \in BOOLEAN /\ pump' = (await' # NoRequest)
      /\ ~pump' => queue' = <<>>
      /\ outstanding' \in Nat
      /\ outstanding' = IF await' = NoRequest THEN 0 ELSE 1
  BY <1>1, GotoPump
<1>3. TypeOK'
  BY <1>2 DEF IInv, TypeOK, linkVars
<1>4. LinkInv'
  BY DEF IInv, LinkInv, linkVars
<1>5. PumpInv'
  BY <1>2 DEF PumpInv, linkVars, resetDoCoils
<1> QED
  BY <1>3, <1>4, <1>5 DEF IInv

LEMMA PollTimerInv == ASSUME IInv, onPollTimer PROVE IInv'
<1>1. CASE pollTickLost
  <2>1. /\ phase = "running" /\ pollTimer = TRUE /\ client # "open"
        /\ owner \in {"none", "monitor", "tester"} /\ reconnects = 0
    BY <1>1 DEF pollTickLost, IInv, LinkInv, TypeOK
  <2>2. /\ phase' = "running" /\ pollTimer' = FALSE /\ connected' = FALSE
        /\ reported' = FALSE /\ backoff' = BackoffInit /\ reconnects' = 1
        /\ client' = client /\ heartbeat' = heartbeat /\ owner' = owner
    BY <1>1, <2>1 DEF pollTickLost, reportLost, scheduleReconnect
  <2>3. UNCHANGED pumpVars /\ UNCHANGED doVars
    BY <1>1 DEF pollTickLost
  <2>4. TypeOK'
    BY <2>2, <2>3, Assumptions DEF IInv, TypeOK, pumpVars, doVars
  <2>5. LinkInv'
    BY <2>1, <2>2 DEF LinkInv
  <2>6. PumpInv'
    BY <2>1, <2>2, <2>3 DEF IInv, PumpInv, pumpVars, resetDoCoils
  <2> QED
    BY <2>4, <2>5, <2>6 DEF IInv
<1>2. CASE pollTickRound
  <2> DEFINE c == enqueueOp(Op("poll", {}))
  <2>1. ~pump /\ queue = <<>> /\ await = NoRequest /\ phase = "running" /\ client = "open"
    BY <1>2 DEF pollTickRound, IInv, PumpInv
  <2>2. Consistent(c) /\ c.await.stage # "reset"
    BY <2>1, EnqueuePollConsistent
  <2>3. Goto(c, 0) /\ UNCHANGED <<linkVars, doVars>>
    BY <1>2 DEF pollTickRound
  <2> HIDE DEF c
  <2>4. /\ alarm' \in [Analogs -> SUBSET Limits]
        /\ doStates' \in [Coils -> {"unknown", "on", "off"}]
        /\ coil' \in [Coils -> BOOLEAN]
        /\ published' \in [LinkedDOs -> {"none", "on", "off"}]
    BY <2>3 DEF doVars, IInv, TypeOK
  <2> QED
    BY <2>1, <2>2, <2>3, <2>4, PumpStep
<1> QED
  BY <1>1, <1>2 DEF onPollTimer

LEMMA WriteSingleInv ==
  ASSUME IInv, NEW d \in StandaloneDOs, NEW v \in BOOLEAN, writeSingleCoil(d, v)
  PROVE  IInv'
<1> DEFINE w == {[do |-> d, want |-> v]}
           c == enqueueOp(Op("write", w))
<1>1. CASE client = "open"
  <2>1. w \in SUBSET Write
    BY DEF Write, Coils
  <2>2. /\ TypeOK /\ pump = (await # NoRequest) /\ (~pump => queue = <<>>)
        /\ phase = "running"
        /\ await.stage = "reset" => await.todo \subseteq resetDoCoils
    BY DEF writeSingleCoil, IInv, PumpInv
  <2>3. Goto(c, 0) /\ UNCHANGED <<linkVars, doVars>>
    BY <1>1 DEF writeSingleCoil
  <2> HIDE DEF w
  <2>4. /\ Consistent(c)
        /\ c.await = await \/ c.await.stage = "coil"
        /\ c.await = await \/ await = NoRequest
    BY <2>1, <2>2, EnqueueWriteConsistent
  <2> HIDE DEF c
  <2>5. /\ alarm' \in [Analogs -> SUBSET Limits]
        /\ doStates' \in [Coils -> {"unknown", "on", "off"}]
        /\ coil' \in [Coils -> BOOLEAN]
        /\ published' \in [LinkedDOs -> {"none", "on", "off"}]
    BY <2>3 DEF doVars, IInv, TypeOK
  <2> QED
    BY <1>1, <2>2, <2>3, <2>4, <2>5, PumpStep
<1>2. CASE client # "open"
  <2>1. UNCHANGED <<pumpVars, linkVars, doVars>>
    BY <1>2 DEF writeSingleCoil
  <2> QED
    BY <2>1, SameInv
<1> QED
  BY <1>1, <1>2

LEMMA AnalogInv ==
  ASSUME IInv, NEW limits \in SUBSET Limits, analogOk(limits)
  PROVE  IInv'
<1> DEFINE a == PollList[await.idx]
           al == [alarm EXCEPT ![a] = limits]
           todo == buildDoWrites(al)
           c == writeDoChain(await.idx, todo, queue)
<1>1. /\ phase = "running" /\ client = "open" /\ await # NoRequest
      /\ await.idx \in 0..Len(PollList) /\ queue \in Seq(WriteOps)
  BY AnsweredFacts DEF analogOk, Stages
<1>2. todo \in SUBSET Write
  BY DEF buildDoWrites
<1>3. Consistent(c) /\ c.await.stage # "reset"
  <2> HIDE DEF todo
  <2> QED
    BY <1>1, <1>2, WriteDoConsistent
<1>4. /\ Goto(c, 1) /\ UNCHANGED <<linkVars, doStates, coil>> /\ alarm' = al
      /\ UNCHANGED published \/ Publish(a, doStates)
  BY DEF analogOk
<1> HIDE DEF c
<1>5. alarm' \in [Analogs -> SUBSET Limits]
  BY <1>4 DEF IInv, TypeOK
<1> HIDE DEF a, al, todo
<1>6. published' \in [LinkedDOs -> {"none", "on", "off"}]
  BY <1>4, PublishType DEF IInv, TypeOK
<1>7. doStates' \in [Coils -> {"unknown", "on", "off"}] /\ coil' \in [Coils -> BOOLEAN]
  BY <1>4 DEF IInv, TypeOK
<1> QED
  BY <1>1, <1>3, <1>4, <1>5, <1>6, <1>7, PumpStep

LEMMA DoWriteInv ==
  ASSUME IInv, NEW ok \in BOOLEAN, doWriteAnswered(ok)
  PROVE  IInv'
<1>1. /\ phase = "running" /\ client = "open" /\ await # NoRequest
      /\ await.idx \in 0..Len(PollList) /\ queue \in Seq(WriteOps)
      /\ await.todo \in SUBSET Write
  BY AnsweredFacts DEF doWriteAnswered, Stages
<1>2. PICK w \in await.todo :
        LET c == writeDoChain(await.idx, await.todo \ {w}, queue)
            belief == IF ok THEN [doStates EXCEPT ![w.do] = Belief(w.want)] ELSE doStates
        IN /\ doStates' = belief
           /\ Executes(w) \/ UNCHANGED coil
           /\ Goto(c, 1)
           /\ UNCHANGED published \/ Publish(PollList[await.idx], belief)
  BY DEF doWriteAnswered
<1> DEFINE c == writeDoChain(await.idx, await.todo \ {w}, queue)
<1>3. w \in Write /\ await.todo \ {w} \in SUBSET Write
  BY <1>1
<1>4. Consistent(c) /\ c.await.stage # "reset" /\ Goto(c, 1)
  BY <1>1, <1>2, <1>3, WriteDoConsistent
<1> HIDE DEF c
<1>5. doStates' \in [Coils -> {"unknown", "on", "off"}]
  BY <1>2, <1>3 DEF IInv, TypeOK, Belief, Write
<1>6. coil' \in [Coils -> BOOLEAN]
  BY <1>2, <1>3, ExecutesType DEF IInv, TypeOK
<1>7. published' \in [LinkedDOs -> {"none", "on", "off"}]
  BY <1>2, PublishType DEF IInv, TypeOK
<1>8. UNCHANGED linkVars /\ alarm' \in [Analogs -> SUBSET Limits]
  BY DEF doWriteAnswered, IInv, TypeOK
<1> QED
  BY <1>1, <1>4, <1>5, <1>6, <1>7, <1>8, PumpStep

LEMMA DiInv == ASSUME IInv, diAnswered PROVE IInv'
<1> DEFINE c == readDiChain(await.idx, await.di + 1, queue)
<1>1. /\ phase = "running" /\ client = "open" /\ await # NoRequest
      /\ await.idx \in 0..Len(PollList) /\ queue \in Seq(WriteOps)
      /\ await.di + 1 \in Nat
  BY AnsweredFacts DEF diAnswered, Stages
<1>2. Consistent(c) /\ c.await.stage # "reset"
  BY <1>1, ReadDiConsistent
<1>3. /\ Goto(c, 1) /\ UNCHANGED <<linkVars, alarm, doStates, coil>>
      /\ UNCHANGED published \/ Publish(PollList[await.idx], doStates)
  BY DEF diAnswered
<1> HIDE DEF c
<1>4. /\ alarm' \in [Analogs -> SUBSET Limits]
      /\ doStates' \in [Coils -> {"unknown", "on", "off"}]
      /\ coil' \in [Coils -> BOOLEAN]
  BY <1>3 DEF IInv, TypeOK
<1>5. published' \in [LinkedDOs -> {"none", "on", "off"}]
  BY <1>3, PublishType DEF IInv, TypeOK
<1> QED
  BY <1>1, <1>2, <1>3, <1>4, <1>5, PumpStep

LEMMA ReadInv ==
  ASSUME IInv, NEW ok \in BOOLEAN, readAnswered(ok)
  PROVE  IInv'
<1> DEFINE c == pollSensorAt(await.idx + 1, queue)
<1>1. /\ phase = "running" /\ client = "open" /\ await # NoRequest
      /\ await.idx + 1 \in Nat /\ queue \in Seq(WriteOps)
  BY AnsweredFacts, Assumptions DEF readAnswered, Stages
<1>2. Consistent(c) /\ c.await.stage # "reset"
  BY <1>1, PollSensorConsistent
<1>3. Goto(c, 1) /\ UNCHANGED <<linkVars, alarm, coil, published>>
  BY DEF readAnswered
<1> HIDE DEF c
<1>4. /\ alarm' \in [Analogs -> SUBSET Limits]
      /\ coil' \in [Coils -> BOOLEAN]
      /\ published' \in [LinkedDOs -> {"none", "on", "off"}]
  BY <1>3 DEF IInv, TypeOK
<1>5. doStates' \in [Coils -> {"unknown", "on", "off"}]
  BY DEF readAnswered, IInv, TypeOK, Belief
<1> QED
  BY <1>1, <1>2, <1>3, <1>4, <1>5, PumpStep

LEMMA CoilInv ==
  ASSUME IInv, NEW ok \in BOOLEAN, coilAnswered(ok)
  PROVE  IInv'
<1> DEFINE c == pumpNextOp(queue)
<1>1. /\ phase = "running" /\ client = "open" /\ await # NoRequest
      /\ queue \in Seq(WriteOps) /\ await.todo \in SUBSET Write
  BY AnsweredFacts DEF coilAnswered, Stages
<1>2. Consistent(c) /\ c.await.stage # "reset"
  BY <1>1, NextOpConsistent
<1>3. Goto(c, 1) /\ UNCHANGED <<linkVars, alarm, published>>
  BY DEF coilAnswered
<1> HIDE DEF c
<1>4. PICK w \in await.todo :
        /\ doStates' = IF ok THEN [doStates EXCEPT ![w.do] = Belief(w.want)] ELSE doStates
        /\ Executes(w) \/ UNCHANGED coil
  BY DEF coilAnswered
<1>5. doStates' \in [Coils -> {"unknown", "on", "off"}]
  BY <1>1, <1>4 DEF IInv, TypeOK, Belief, Write
<1>6. coil' \in [Coils -> BOOLEAN]
  BY <1>1, <1>4, ExecutesType DEF IInv, TypeOK
<1>7. /\ alarm' \in [Analogs -> SUBSET Limits]
      /\ published' \in [LinkedDOs -> {"none", "on", "off"}]
  BY <1>3 DEF IInv, TypeOK
<1> QED
  BY <1>1, <1>2, <1>3, <1>5, <1>6, <1>7, PumpStep

LEMMA ResetInv ==
  ASSUME IInv, NEW ok \in BOOLEAN, resetAnswered(ok)
  PROVE  IInv'
<1>1. /\ phase = "running" /\ client = "open" /\ await # NoRequest
      /\ queue \in Seq(WriteOps) /\ await.todo \in SUBSET Write
  BY AnsweredFacts DEF resetAnswered, Stages
<1>2. await.todo \subseteq resetDoCoils
  BY DEF resetAnswered, Answered, IInv, PumpInv
<1>3. PICK w \in await.todo :
        /\ doStates' = [doStates EXCEPT ![w.do] = IF ok THEN "off" ELSE "unknown"]
        /\ Executes(w) \/ UNCHANGED coil
        /\ Goto(resetWrites(await.todo \ {w}, queue), 1)
  BY DEF resetAnswered
<1> DEFINE c == resetWrites(await.todo \ {w}, queue)
<1>4. await.todo \ {w} \in SUBSET Write
  BY <1>1
<1>5. Consistent(c) /\ (c.await.stage = "reset" => c.await.todo \subseteq resetDoCoils)
  <2>1. c.await = Request("reset", 0, 0, await.todo \ {w}) => c.await.todo \subseteq resetDoCoils
    BY <1>2 DEF Request
  <2> QED
    BY <1>1, <1>4, <2>1, ResetConsistent
<1>6. Goto(c, 1) /\ UNCHANGED <<linkVars, alarm, published>>
  BY <1>3 DEF resetAnswered
<1> HIDE DEF c
<1>7. doStates' \in [Coils -> {"unknown", "on", "off"}]
  BY <1>1, <1>3 DEF IInv, TypeOK, Write
<1>8. coil' \in [Coils -> BOOLEAN]
  BY <1>1, <1>3, ExecutesType DEF IInv, TypeOK
<1>9. /\ alarm' \in [Analogs -> SUBSET Limits]
      /\ published' \in [LinkedDOs -> {"none", "on", "off"}]
  BY <1>6 DEF IInv, TypeOK
<1> QED
  BY <1>1, <1>5, <1>6, <1>7, <1>8, <1>9, PumpStep

LEMMA ClientLostInv == ASSUME IInv, clientLost PROVE IInv'
<1>1. /\ phase = "running" /\ client = "open" /\ client' = "closed"
      /\ UNCHANGED <<phase, connected, reported, backoff, pollTimer, heartbeat,
                     reconnects, owner, alarm>>
  BY DEF clientLost
<1>2. RunDry /\ MayExecute(TRUE) /\ PublishOnDrain
  BY DEF clientLost
<1>3. doStates' \in [Coils -> {"unknown", "on", "off"}]
  BY DEF clientLost, IInv, TypeOK
<1>4. coil' \in [Coils -> BOOLEAN] /\ published' \in [LinkedDOs -> {"none", "on", "off"}]
  BY <1>2, MayExecuteType, DrainType DEF IInv
<1>5. TypeOK'
  BY <1>1, <1>2, <1>3, <1>4, RunDryPump DEF IInv, TypeOK
<1>6. LinkInv'
  BY <1>1 DEF IInv, LinkInv
<1>7. PumpInv'
  BY <1>2, RunDryPump DEF PumpInv
<1> QED
  BY <1>5, <1>6, <1>7 DEF IInv

LEMMA AwaitTimeoutInv ==
  ASSUME IInv, NEW late \in BOOLEAN, onAwaitTimeout(late)
  PROVE  IInv'
<1>1. /\ phase = "running" /\ client = "open" /\ MayExecute(TRUE)
      /\ UNCHANGED <<alarm, doStates>>
  BY DEF onAwaitTimeout
<1>2. coil' \in [Coils -> BOOLEAN]
  BY <1>1, MayExecuteType DEF IInv
<1>3. CASE late
  <2>1. /\ phase' = "crashed"
        /\ UNCHANGED <<client, connected, reported, backoff, pollTimer,
                       heartbeat, reconnects, owner, pumpVars, published>>
    BY <1>3 DEF onAwaitTimeout
  <2>2. TypeOK'
    BY <1>1, <1>2, <2>1 DEF IInv, TypeOK, pumpVars
  <2>3. LinkInv'
    BY <1>1, <2>1 DEF IInv, LinkInv
  <2>4. PumpInv'
    BY <2>1 DEF IInv, PumpInv, pumpVars, resetDoCoils
  <2> QED
    BY <2>2, <2>3, <2>4 DEF IInv
<1>4. CASE ~late
  <2>1. phase' = "running" /\ RunDry /\ PublishOnDrain
    BY <1>1, <1>4 DEF onAwaitTimeout, resetConnectionAfterHang
  <2>2. /\ client' = "null" /\ connected' = FALSE /\ reported' = FALSE
        /\ backoff' = BackoffInit /\ pollTimer' = FALSE /\ heartbeat' = FALSE
        /\ reconnects' = reconnects + 1 /\ owner' = "none"
    BY <1>4 DEF onAwaitTimeout, resetConnectionAfterHang, reportLost,
       scheduleReconnect
  <2>3. reconnects' = 1
    BY <1>1, <2>2 DEF IInv, LinkInv
  <2>4. published' \in [LinkedDOs -> {"none", "on", "off"}]
    BY <2>1, DrainType DEF IInv
  <2>5. TypeOK'
    <3>1. /\ await' \in Requests /\ queue' \in Seq(WriteOps) /\ pump' \in BOOLEAN
          /\ outstanding' \in Nat
      BY <2>1, RunDryPump
    <3>2. alarm' \in [Analogs -> SUBSET Limits]
      BY <1>1 DEF IInv, TypeOK
    <3>3. doStates' \in [Coils -> {"unknown", "on", "off"}]
      BY <1>1 DEF IInv, TypeOK
    <3>4. /\ phase' \in {"created", "running", "stopped", "crashed"}
          /\ client' \in {"null", "closed", "open"}
          /\ owner' \in {"none", "monitor", "tester"}
      BY <2>1, <2>2
    <3>5. backoff' \in BackoffInit..BackoffMax
      BY <2>2, Assumptions
    <3>6. /\ connected' \in BOOLEAN /\ reported' \in BOOLEAN
          /\ pollTimer' \in BOOLEAN /\ heartbeat' \in BOOLEAN
      BY <2>2
    <3>7. reconnects' \in Nat
      BY <2>3
    <3> QED
      BY <1>2, <2>4, <3>1, <3>2, <3>3, <3>4, <3>5, <3>6, <3>7 DEF TypeOK
  <2>6. LinkInv'
    BY <2>1, <2>2, <2>3 DEF LinkInv
  <2>7. PumpInv'
    BY <2>1, RunDryPump DEF PumpInv
  <2> QED
    BY <2>5, <2>6, <2>7 DEF IInv
<1> QED
  BY <1>3, <1>4

LEMMA StopInv == ASSUME IInv, stop PROVE IInv'
<1>1. /\ phase' = "stopped" /\ RunDry /\ MayExecute(TRUE)
      /\ pollTimer' = FALSE /\ heartbeat' = FALSE
      /\ client' \in {"null", "closed"}
      /\ UNCHANGED <<connected, reported, backoff, reconnects, alarm, doStates, published>>
  BY DEF stop
<1>2. owner' \in {"none", "monitor", "tester"}
  BY DEF stop, IInv, TypeOK
<1>3. coil' \in [Coils -> BOOLEAN]
  BY <1>1, MayExecuteType DEF IInv
<1>4. TypeOK'
  <2>1. /\ await' \in Requests /\ queue' \in Seq(WriteOps) /\ pump' \in BOOLEAN
        /\ outstanding' \in Nat
    BY <1>1, RunDryPump
  <2>2. /\ phase' \in {"created", "running", "stopped", "crashed"}
        /\ client' \in {"null", "closed", "open"}
        /\ pollTimer' \in BOOLEAN /\ heartbeat' \in BOOLEAN
    BY <1>1
  <2>3. /\ connected' \in BOOLEAN /\ reported' \in BOOLEAN
        /\ backoff' \in BackoffInit..BackoffMax /\ reconnects' \in Nat
        /\ alarm' \in [Analogs -> SUBSET Limits]
        /\ doStates' \in [Coils -> {"unknown", "on", "off"}]
        /\ published' \in [LinkedDOs -> {"none", "on", "off"}]
    BY <1>1 DEF IInv, TypeOK
  <2> QED
    BY <1>2, <1>3, <2>1, <2>2, <2>3 DEF TypeOK
<1>5. LinkInv'
  BY <1>1 DEF LinkInv
<1>6. PumpInv'
  BY <1>1, RunDryPump DEF PumpInv
<1> QED
  BY <1>4, <1>5, <1>6 DEF IInv

LEMMA TesterInv == ASSUME IInv, tester PROVE IInv'
<1>1. /\ UNCHANGED <<phase, client, connected, reported, backoff, pollTimer,
                     heartbeat, reconnects, pumpVars, alarm, doStates, published>>
  BY DEF tester, testerTakes, testerWrites, testerReleases, linkVars, doVars
<1>2. coil' \in [Coils -> BOOLEAN]
  BY DEF tester, testerTakes, testerWrites, testerReleases, doVars, IInv, TypeOK
<1>3. owner' \in {"none", "monitor", "tester"} /\ (client = "open" => owner' = owner)
  BY DEF tester, testerTakes, testerWrites, testerReleases, linkVars, IInv, TypeOK, LinkInv
<1>4. TypeOK'
  BY <1>1, <1>2, <1>3 DEF IInv, TypeOK, pumpVars
<1>5. LinkInv'
  BY <1>1, <1>3 DEF IInv, LinkInv
<1>6. PumpInv'
  BY <1>1 DEF IInv, PumpInv, pumpVars, resetDoCoils
<1> QED
  BY <1>4, <1>5, <1>6 DEF IInv
-----------------------------------------------------------------------------
\* Every handler of the worker, and every step of its environment, keeps it.
THEOREM WorkerStep == IInv /\ [Next]_vars => IInv'
<1> SUFFICES ASSUME IInv, [Next]_vars PROVE IInv'
  OBVIOUS
<1>1. CASE start
  BY <1>1, StartInv
<1>2. CASE stop
  BY <1>2, StopInv
<1>3. CASE tryReconnect
  BY <1>3, TryReconnectInv
<1>4. CASE onPollTimer
  BY <1>4, PollTimerInv
<1>5. CASE onAwaitFinished
  BY <1>5, AnalogInv, DiInv, DoWriteInv, ReadInv, CoilInv, ResetInv DEF onAwaitFinished
<1>6. CASE \E late \in LateFinishes : onAwaitTimeout(late)
  BY <1>6, AwaitTimeoutInv, ConfigAssumption DEF ConfigAssumption
<1>7. CASE \E d \in StandaloneDOs, v \in BOOLEAN : writeSingleCoil(d, v)
  BY <1>7, WriteSingleInv
<1>8. CASE clientLost
  BY <1>8, ClientLostInv
<1>9. CASE tester
  BY <1>9, TesterInv
<1>10. CASE UNCHANGED vars
  BY <1>10, SameInv DEF vars
<1> QED
  BY <1>1, <1>2, <1>3, <1>4, <1>5, <1>6, <1>7, <1>8, <1>9, <1>10 DEF Next

\* So it holds in every state the worker can reach.
THEOREM WorkerInvariant == Spec => []IInv
<1> QED
  BY WorkerInit, WorkerStep, PTL DEF Spec

\* Every variable holds a value of its type, in every configuration.
THEOREM WorkerTypeCorrect == Spec => []TypeOK
<1>1. IInv => TypeOK
  BY DEF IInv
<1> QED
  BY <1>1, WorkerInvariant, PTL

(***************************************************************************)
(* A running worker has exactly one way to wake up: its poll timer or one  *)
(* pending tryReconnect (start, tryReconnect, onPollTimer,                 *)
(* resetConnectionAfterHang).                                              *)
(***************************************************************************)
THEOREM WorkerWakesUp == Spec => []OneWakeUp
<1>1. IInv => OneWakeUp
  BY DEF IInv, LinkInv, OneWakeUp
<1> QED
  BY <1>1, WorkerInvariant, PTL

(***************************************************************************)
(* One request in flight, and the pump is active exactly then: the         *)
(* Q_ASSERT of sendAndAwait can never fire.                                *)
(***************************************************************************)
THEOREM WorkerOneInFlight == Spec => []OneInFlight
<1>1. IInv => OneInFlight
  <2> SUFFICES ASSUME IInv, phase # "crashed" PROVE OneInFlight
    BY DEF OneInFlight
  <2>1. /\ pump = (await # NoRequest) /\ (pump => client = "open" /\ phase = "running")
        /\ (~pump => queue = <<>>) /\ outstanding = IF await = NoRequest THEN 0 ELSE 1
    BY DEF IInv, PumpInv
  <2> QED
    BY <2>1 DEF OneInFlight
<1> QED
  BY <1>1, WorkerInvariant, PTL

\* An open client is a connected one, and the controller was told so.
THEOREM WorkerOpenIsConnected == Spec => []OpenIsConnected
<1>1. IInv => OpenIsConnected
  BY DEF IInv, LinkInv, OpenIsConnected
<1> QED
  BY <1>1, WorkerInvariant, PTL
-----------------------------------------------------------------------------
(***************************************************************************)
(* The worker implements PortOwner.                                        *)
(***************************************************************************)
LEMMA OwnershipNeverPasses ==
  ASSUME IInv, [Next]_vars
  PROVE  owner = "none" \/ owner' \in {owner, "none"}
<1>1. CASE start
  BY <1>1 DEF start, connectBusy, connectRefused, connectOpened, acquirePort, IInv, TypeOK
<1>2. CASE tryReconnect
  BY <1>2 DEF tryReconnect, reconnectOpens, reconnectFails, reconnectIgnored,
     connectBusy, connectRefused, connectOpened, acquirePort, IInv, TypeOK
<1>3. CASE stop
  BY <1>3 DEF stop
<1>4. CASE onPollTimer
  BY <1>4 DEF onPollTimer, pollTickLost, pollTickRound, linkVars
<1>5. CASE onAwaitFinished
  BY <1>5 DEF onAwaitFinished, analogOk, diAnswered, doWriteAnswered, readAnswered,
     coilAnswered, resetAnswered, linkVars
<1>6. CASE \E late \in LateFinishes : onAwaitTimeout(late)
  BY <1>6 DEF onAwaitTimeout, resetConnectionAfterHang
<1>7. CASE \E d \in StandaloneDOs, v \in BOOLEAN : writeSingleCoil(d, v)
  BY <1>7 DEF writeSingleCoil, linkVars
<1>8. CASE clientLost
  BY <1>8 DEF clientLost
<1>9. CASE tester
  BY <1>9 DEF tester, testerTakes, testerWrites, testerReleases, linkVars
<1>10. CASE UNCHANGED vars
  BY <1>10 DEF vars, linkVars
<1> QED
  BY <1>1, <1>2, <1>3, <1>4, <1>5, <1>6, <1>7, <1>8, <1>9, <1>10 DEF Next

LEMMA OpenedByOwner ==
  ASSUME IInv
  PROVE  /\ owner \in {"none", "monitor", "tester"}
         /\ owner = "none" => Opened = {}
         /\ owner = "tester" => Opened = {"tester"}
         /\ owner = "monitor" => Opened \in SUBSET {"monitor"}
BY DEF IInv, TypeOK, LinkInv, Opened

LEMMA PortStep ==
  ASSUME IInv, IInv', [Next]_vars
  PROVE  [Port!Next]_(Port!portVars)
<1> DEFINE who == {"none", "monitor", "tester"}
<1>1. /\ owner \in who
      /\ owner = "none" => Opened = {}
      /\ owner = "tester" => Opened = {"tester"}
  BY OpenedByOwner
<1>2. /\ owner' \in who
      /\ owner' = "none" => Opened' = {}
      /\ owner' = "tester" => Opened' = {"tester"}
      /\ owner' = "monitor" => Opened' \in SUBSET {"monitor"}
  BY DEF IInv, TypeOK, LinkInv, Opened
<1>3. CASE owner = "monitor" /\ owner' = "monitor"
  <2>1. Port!Use
    BY <1>2, <1>3 DEF Port!Use
  <2> QED
    BY <2>1 DEF Port!Next
<1>4. CASE owner' = owner /\ owner # "monitor"
  BY <1>1, <1>2, <1>4 DEF Port!portVars
<1>5. CASE owner = "none" /\ owner' # "none"
  <2>1. owner' \in {"monitor", "tester"}
    BY <1>2, <1>5
  <2>2. Port!Take(owner')
    BY <1>2, <1>5 DEF Port!Take
  <2> QED
    BY <2>1, <2>2 DEF Port!Next
<1>6. CASE owner # "none" /\ owner' = "none"
  <2>1. Port!GiveUp
    BY <1>1, <1>2, <1>6 DEF Port!GiveUp
  <2> QED
    BY <2>1 DEF Port!Next
<1> QED
  BY <1>1, <1>3, <1>4, <1>5, <1>6, OwnershipNeverPasses

(***************************************************************************)
(* On every path of the worker (open, loss, hang, reconnect, stop) the     *)
(* port keeps the promise of PortOwner: only the owner has a client open,  *)
(* and ownership passes only through a free port.                          *)
(***************************************************************************)
THEOREM WorkerGuardsPort == Spec => PortGuarded
<1>1. Init => Port!Init
  BY DEF Init, Port!Init, Opened
<1>2. IInv /\ IInv' /\ [Next]_vars => [Port!Next]_(Port!portVars)
  BY PortStep
<1> QED
  BY <1>1, <1>2, WorkerInvariant, PTL DEF Spec, PortGuarded, Port!Spec
-----------------------------------------------------------------------------
(***************************************************************************)
(* What the worker believes of a linked relay, when no write that was      *)
(* answered by an error can have been executed.                            *)
(***************************************************************************)
Certain(d) == doStates[d] \in {"unknown", Belief(coil[d])}
InReset(d) == await.stage = "reset" /\ \E w \in await.todo : w.do = d

LEMMA BeliefKept ==
  ASSUME BeliefCertain, client = "open", phase = "running", await.stage # "reset",
         UNCHANGED <<doStates, coil>>, NEW d \in LinkedDOs
  PROVE  Certain(d)'
BY DEF BeliefCertain, Certain, Belief

LEMMA BeliefWritten ==
  ASSUME TypeOK, BeliefCertain, client = "open", phase = "running",
         await.stage # "reset", NEW w \in Write, Executes(w),
         doStates' = [doStates EXCEPT ![w.do] = Belief(w.want)],
         NEW d \in LinkedDOs
  PROVE  Certain(d)'
<1>1. d \in Coils /\ w.do \in Coils
  BY DEF Coils, Write
<1>2. doStates' = [doStates EXCEPT ![w.do] = Belief(w.want)]
      /\ coil' = [coil EXCEPT ![w.do] = w.want]
  BY DEF Executes
<1>3. CASE d = w.do
  BY <1>1, <1>2, <1>3 DEF Certain, Belief, TypeOK
<1>4. CASE d # w.do
  <2>1. doStates'[d] = doStates[d] /\ coil'[d] = coil[d]
    BY <1>1, <1>2, <1>4 DEF TypeOK
  <2>2. doStates[d] \in {"unknown", Belief(coil[d])}
    BY DEF BeliefCertain
  <2> QED
    BY <2>1, <2>2 DEF Certain, Belief
<1> QED
  BY <1>3, <1>4

\* After a connect, either the fail-safe reset has every linked relay ahead
\* of it, or every belief was forgotten.
LEMMA BeliefConnected ==
  ASSUME IInv, connectOpened, NEW d \in LinkedDOs
  PROVE  InReset(d)' \/ Certain(d)'
<1>1. CASE FailSafe
  <2>1. [do |-> d, want |-> FALSE] \in resetDoCoils
    BY DEF resetDoCoils
  <2>2. Goto(resetWrites(resetDoCoils, queue), 0)
    BY <1>1, <2>1 DEF connectOpened
  <2>3. await' = Request("reset", 0, 0, resetDoCoils)
    BY <2>1, <2>2 DEF Goto, resetWrites, Busy
  <2> QED
    BY <2>1, <2>3 DEF InReset, Request
<1>2. CASE ~FailSafe
  <2>1. doStates' = Unknown /\ d \in Coils
    BY <1>2 DEF connectOpened, reconnectBeliefs, Coils
  <2> QED
    BY <2>1 DEF Unknown, Certain
<1> QED
  BY <1>1, <1>2

LEMMA BeliefReset ==
  ASSUME IInv, BeliefCertain, TRUE \notin LostReplies,
         NEW ok \in BOOLEAN, resetAnswered(ok), NEW d \in LinkedDOs
  PROVE  InReset(d)' \/ Certain(d)'
<1>1. /\ phase = "running" /\ client = "open" /\ queue \in Seq(WriteOps)
      /\ await.todo \in SUBSET Write /\ await.todo \subseteq resetDoCoils
      /\ await.stage = "reset"
  BY AnsweredFacts DEF resetAnswered, Stages, Answered, IInv, PumpInv
<1>2. PICK w \in await.todo :
        /\ doStates' = [doStates EXCEPT ![w.do] = IF ok THEN "off" ELSE "unknown"]
        /\ IF ok THEN Executes(w) ELSE UNCHANGED coil
        /\ Goto(resetWrites(await.todo \ {w}, queue), 1)
  BY DEF resetAnswered
<1>3. w \in Write /\ w = [do |-> w.do, want |-> FALSE] /\ w.do \in Coils /\ d \in Coils
  BY <1>1 DEF resetDoCoils, Write, Coils
<1>4. CASE d = w.do
  <2>1. CASE ok
    BY <1>2, <1>3, <1>4, <2>1 DEF Executes, Certain, Belief, IInv, TypeOK
  <2>2. CASE ~ok
    BY <1>2, <1>3, <1>4, <2>2 DEF Certain, Belief, IInv, TypeOK
  <2> QED
    BY <2>1, <2>2
<1>5. CASE d # w.do /\ InReset(d)
  <2>1. PICK v \in await.todo : v.do = d
    BY <1>5 DEF InReset
  <2>2. v \in await.todo \ {w}
    BY <1>5, <2>1
  <2>3. await' = Request("reset", 0, 0, await.todo \ {w})
    BY <1>2, <2>2 DEF Goto, resetWrites, Busy
  <2> QED
    BY <2>1, <2>2, <2>3 DEF InReset, Request
<1>6. CASE d # w.do /\ ~InReset(d)
  <2>1. doStates[d] \in {"unknown", Belief(coil[d])}
    BY <1>1, <1>6 DEF BeliefCertain, InReset
  <2>2. doStates'[d] = doStates[d]
    BY <1>2, <1>3, <1>6 DEF IInv, TypeOK
  <2>3. coil'[d] = coil[d]
    BY <1>2, <1>3, <1>6 DEF Executes, IInv, TypeOK
  <2> QED
    BY <2>1, <2>2, <2>3 DEF Certain, Belief
<1> QED
  BY <1>4, <1>5, <1>6

LEMMA BeliefAnswered ==
  ASSUME IInv, BeliefCertain, TRUE \notin LostReplies, onAwaitFinished,
         NEW d \in LinkedDOs
  PROVE  InReset(d)' \/ Certain(d)'
<1>1. ASSUME NEW limits \in SUBSET Limits, analogOk(limits) PROVE Certain(d)'
  <2>1. client = "open" /\ phase = "running" /\ await.stage # "reset" /\ UNCHANGED <<doStates, coil>>
    BY <1>1 DEF analogOk, Answered
  <2> QED
    BY <2>1, BeliefKept
<1>2. CASE diAnswered
  <2>1. client = "open" /\ phase = "running" /\ await.stage # "reset" /\ UNCHANGED <<doStates, coil>>
    BY <1>2 DEF diAnswered, Answered
  <2> QED
    BY <2>1, BeliefKept
<1>3. ASSUME NEW ok \in BOOLEAN, doWriteAnswered(ok) \/ coilAnswered(ok) PROVE Certain(d)'
  <2>1. /\ client = "open" /\ phase = "running" /\ await.stage # "reset"
        /\ await.todo \in SUBSET Write
    BY <1>3, AnsweredFacts DEF doWriteAnswered, coilAnswered, Answered, Stages
  <2>2. PICK w \in await.todo :
          /\ doStates' = IF ok THEN [doStates EXCEPT ![w.do] = Belief(w.want)] ELSE doStates
          /\ IF ok THEN Executes(w) ELSE UNCHANGED coil
    BY <1>3 DEF doWriteAnswered, coilAnswered
  <2>3. CASE ok
    BY <2>1, <2>2, <2>3, BeliefWritten DEF IInv
  <2>4. CASE ~ok
    BY <2>1, <2>2, <2>4, BeliefKept
  <2> QED
    BY <2>3, <2>4
<1>4. ASSUME NEW ok \in BOOLEAN, readAnswered(ok) PROVE Certain(d)'
  <2>1. /\ client = "open" /\ phase = "running" /\ await.stage # "reset" /\ UNCHANGED coil
    BY <1>4 DEF readAnswered, Answered
  <2>2. d \in Coils /\ doStates[d] \in {"unknown", Belief(coil[d])}
    BY <2>1 DEF BeliefCertain, Coils
  <2>3. doStates' = doStates
        \/ doStates' = [doStates EXCEPT ![PollList[await.idx]] = Belief(coil[PollList[await.idx]])]
    BY <1>4 DEF readAnswered
  <2>4. doStates'[d] \in {"unknown", Belief(coil[d])}
    BY <2>2, <2>3 DEF IInv, TypeOK
  <2> QED
    BY <2>1, <2>4 DEF Certain, Belief
<1>5. ASSUME NEW ok \in BOOLEAN, resetAnswered(ok) PROVE InReset(d)' \/ Certain(d)'
  BY <1>5, BeliefReset
<1> QED
  BY <1>1, <1>2, <1>3, <1>4, <1>5 DEF onAwaitFinished

LEMMA BeliefStep ==
  ASSUME IInv, BeliefCertain, TRUE \notin LostReplies, [Next]_vars
  PROVE  BeliefCertain'
<1> SUFFICES ASSUME client' = "open", phase' = "running", NEW d \in LinkedDOs
             PROVE  InReset(d)' \/ Certain(d)'
  BY DEF BeliefCertain, InReset, Certain, LinkedDOs
<1>1. CASE start
  <2>1. client = "null" /\ (connectOpened \/ connectBusy \/ connectRefused)
    BY <1>1 DEF start, IInv, LinkInv
  <2>2. connectOpened
    BY <2>1 DEF connectBusy, connectRefused
  <2> QED
    BY <2>2, BeliefConnected
<1>2. CASE tryReconnect
  <2>1. phase = "running" /\ reconnects > 0
    BY <1>2 DEF tryReconnect, reconnectOpens, reconnectFails, reconnectIgnored
  <2>2. client # "open"
    BY <2>1 DEF IInv, LinkInv, TypeOK
  <2>3. connectOpened
    BY <1>2, <2>1, <2>2 DEF tryReconnect, reconnectOpens, reconnectFails, reconnectIgnored,
       connectBusy, connectRefused
  <2> QED
    BY <2>3, BeliefConnected
<1>3. CASE onPollTimer
  <2>1. CASE pollTickLost
    BY <2>1 DEF pollTickLost, IInv, LinkInv
  <2>2. CASE pollTickRound
    <3>1. /\ client = "open" /\ phase = "running" /\ await = NoRequest
          /\ UNCHANGED <<doStates, coil>>
      BY <2>2 DEF pollTickRound, IInv, PumpInv, doVars
    <3> QED
      BY <3>1, BeliefKept DEF NoRequest, Request
  <2> QED
    BY <1>3, <2>1, <2>2 DEF onPollTimer
<1>4. CASE onAwaitFinished
  BY <1>4, BeliefAnswered
<1>5. CASE \E e \in StandaloneDOs, v \in BOOLEAN : writeSingleCoil(e, v)
  <2>1. PICK e \in StandaloneDOs, v \in BOOLEAN : writeSingleCoil(e, v)
    BY <1>5
  <2>2. client = "open" /\ phase = "running" /\ UNCHANGED <<doStates, coil>>
    BY <2>1 DEF writeSingleCoil, linkVars, doVars
  <2>3. await' = await \/ await.stage # "reset"
    <3> DEFINE w == {[do |-> e, want |-> v]}
               c == enqueueOp(Op("write", w))
    <3>1. w \in SUBSET Write
      BY DEF Write, Coils
    <3>2. TypeOK /\ pump = (await # NoRequest) /\ (~pump => queue = <<>>)
      BY <2>2 DEF IInv, PumpInv
    <3>3. await' = c.await
      BY <2>1, <2>2 DEF writeSingleCoil, Goto
    <3> HIDE DEF w
    <3>4. c.await = await \/ await = NoRequest
      BY <3>1, <3>2, EnqueueWriteConsistent
    <3> QED
      BY <3>3, <3>4 DEF NoRequest, Request
  <2>4. CASE await.stage # "reset"
    BY <2>2, <2>4, BeliefKept
  <2>5. CASE await' = await
    BY <2>2, <2>5 DEF BeliefCertain, InReset, Certain, Belief
  <2> QED
    BY <2>3, <2>4, <2>5
<1>6. CASE tester
  <2>1. /\ UNCHANGED <<phase, client, await, doStates>>
        /\ UNCHANGED coil \/ owner = "tester"
    BY <1>6 DEF tester, testerTakes, testerWrites, testerReleases, linkVars, doVars, pumpVars
  <2>2. UNCHANGED coil
    BY <2>1 DEF IInv, LinkInv
  <2> QED
    BY <2>1, <2>2 DEF BeliefCertain, InReset, Certain, Belief
<1>7. CASE stop \/ clientLost \/ \E late \in LateFinishes : onAwaitTimeout(late)
  BY <1>7 DEF stop, clientLost, onAwaitTimeout, resetConnectionAfterHang
<1>8. CASE UNCHANGED vars
  BY <1>8 DEF vars, linkVars, pumpVars, doVars, BeliefCertain, InReset, Certain, Belief
<1> QED
  BY <1>1, <1>2, <1>3, <1>4, <1>5, <1>6, <1>7, <1>8 DEF Next

(***************************************************************************)
(* buildDoWrites may skip a coil it has a belief about: if a write that is *)
(* answered by an error was never executed, every known belief about a     *)
(* linked relay is the state of its coil, whatever the order of polls,     *)
(* resets, losses, hangs and uses of the port by the tester.               *)
(***************************************************************************)
THEOREM WorkerBeliefsCertain ==
  ASSUME TRUE \notin LostReplies
  PROVE  Spec => []BeliefCertain
<1>1. Init => BeliefCertain
  BY DEF Init, BeliefCertain
<1>2. IInv /\ BeliefCertain /\ [Next]_vars => BeliefCertain'
  BY BeliefStep
<1> QED
  BY <1>1, <1>2, WorkerInvariant, PTL DEF Spec
-----------------------------------------------------------------------------
\* A relay newly published as ON is one whose belief is "on".
LEMMA PublishOn ==
  ASSUME NEW a, NEW b, Publish(a, b), NEW d \in LinkedDOs,
         published'[d] = "on", published[d] # "on"
  PROVE  b[d] = "on"
BY DEF Publish, Belief

LEMMA ReportStep ==
  ASSUME IInv, BeliefCertain, BeliefCertain', TRUE \notin LostReplies, [Next]_vars,
         NEW d \in LinkedDOs, published'[d] = "on", published[d] # "on",
         client' = "open"
  PROVE  coil'[d]
<1>1. ASSUME client = "open", phase = "running", await.stage # "reset",
             UNCHANGED <<doStates, coil>>, NEW a, Publish(a, doStates)
      PROVE  coil'[d]
  <2>1. doStates[d] = "on"
    BY <1>1, PublishOn
  <2>2. doStates[d] \in {"unknown", Belief(coil[d])}
    BY <1>1 DEF BeliefCertain
  <2>3. coil[d]
    BY <2>1, <2>2 DEF Belief
  <2> QED
    BY <1>1, <2>3
<1>2. CASE UNCHANGED published
  BY <1>2
<1>3. ASSUME NEW limits \in SUBSET Limits, analogOk(limits), ~UNCHANGED published
      PROVE  coil'[d]
  <2>1. /\ client = "open" /\ phase = "running" /\ await.stage # "reset"
        /\ UNCHANGED <<doStates, coil>>
        /\ Publish(PollList[await.idx], doStates)
    BY <1>3 DEF analogOk, Answered
  <2> QED
    BY <2>1, <1>1
<1>4. CASE diAnswered /\ ~UNCHANGED published
  <2>1. /\ client = "open" /\ phase = "running" /\ await.stage # "reset"
        /\ UNCHANGED <<doStates, coil>>
        /\ Publish(PollList[await.idx], doStates)
    BY <1>4 DEF diAnswered, Answered
  <2> QED
    BY <2>1, <1>1
<1>5. ASSUME NEW ok \in BOOLEAN, doWriteAnswered(ok), ~UNCHANGED published
      PROVE  coil'[d]
  <2>1. /\ client = "open" /\ phase = "running" /\ await.stage # "reset"
        /\ await.todo \in SUBSET Write
    BY <1>5, AnsweredFacts DEF doWriteAnswered, Answered, Stages
  <2>2. PICK w \in await.todo :
          /\ doStates' = IF ok THEN [doStates EXCEPT ![w.do] = Belief(w.want)] ELSE doStates
          /\ IF ok THEN Executes(w) ELSE UNCHANGED coil
          /\ Publish(PollList[await.idx], doStates')
    BY <1>5 DEF doWriteAnswered
  <2>3. CASE ok
    <3>1. Certain(d)'
      BY <2>1, <2>2, <2>3, BeliefWritten DEF IInv
    <3>2. doStates'[d] = "on"
      BY <2>2, PublishOn
    <3>3. d \in Coils /\ coil'[d] \in BOOLEAN
      BY <2>1, <2>2, <2>3, ExecutesType DEF IInv, Coils
    <3> QED
      BY <3>1, <3>2, <3>3 DEF Certain, Belief
  <2>4. CASE ~ok
    BY <2>1, <2>2, <2>4, <1>1
  <2> QED
    BY <2>3, <2>4
<1>6. CASE onAwaitFinished
  BY <1>2, <1>3, <1>4, <1>5, <1>6
     DEF onAwaitFinished, readAnswered, coilAnswered, resetAnswered
<1>7. CASE clientLost \/ stop \/ \E late \in LateFinishes : onAwaitTimeout(late)
  <2>1. client' # "open" \/ UNCHANGED published
    BY <1>7 DEF clientLost, stop, onAwaitTimeout, resetConnectionAfterHang
  <2> QED
    BY <2>1, <1>2
<1>8. CASE start \/ tryReconnect
  BY <1>2, <1>8 DEF start, tryReconnect, reconnectOpens, reconnectFails, reconnectIgnored,
     connectBusy, connectRefused, connectOpened, doVars
<1>9. CASE onPollTimer \/ tester \/ UNCHANGED vars
           \/ \E e \in StandaloneDOs, v \in BOOLEAN : writeSingleCoil(e, v)
  BY <1>2, <1>9 DEF onPollTimer, pollTickLost, pollTickRound, tester, testerTakes,
     testerWrites, testerReleases, writeSingleCoil, doVars, vars
<1> QED
  BY <1>6, <1>7, <1>8, <1>9 DEF Next

(***************************************************************************)
(* dataReady never claims that a relay went on when it did not: under the  *)
(* same assumption, a reading published on a live connection takes an ON   *)
(* only from a belief that is certain.                                     *)
(***************************************************************************)
THEOREM WorkerReportsOn ==
  ASSUME TRUE \notin LostReplies
  PROVE  Spec => ReportedOnIsOn
<1>1. IInv /\ BeliefCertain /\ BeliefCertain' /\ [Next]_vars =>
        [\A d \in LinkedDOs :
           published'[d] = "on" /\ published[d] # "on" /\ client' = "open"
             => coil'[d]]_vars
  BY ReportStep
<1> QED
  BY <1>1, WorkerInvariant, WorkerBeliefsCertain, PTL DEF Spec, ReportedOnIsOn
=============================================================================
