---------------------------- MODULE ModbusWorker ----------------------------
(***************************************************************************)
(* The acquisition worker (network/modbus/ModbusWorker.cpp): one thread    *)
(* that polls the configured sensors over a shared RS-485 port.            *)
(*                                                                         *)
(*  - Requests go through a FIFO of operations with one request in flight  *)
(*    (the "pump"); the continuation of a request is the record "await".   *)
(*  - The port is taken through ModbusPortGuard, opened, lost, reset after *)
(*    a hang and reopened by a delayed tryReconnect with a backoff.        *)
(*  - Alarms of the analog sensors drive the linked relay coils (DO): the  *)
(*    worker writes a coil only when its belief about it differs from the  *)
(*    wanted state.                                                        *)
(*                                                                         *)
(* The slave, the serial client and the tester (the other user of the      *)
(* port) are the environment.  A request that is answered by an error, or  *)
(* not at all, may nevertheless have been executed by the slave.           *)
(***************************************************************************)
EXTENDS Integers, Sequences, FiniteSets

CONSTANTS
  PollList,     \* m_sensors: the sequence of polled sensors
  Kind,         \* [sensor of PollList -> {"analog", "di", "do"}]
  Thresholds,   \* [sensor of PollList -> the limits it has, a subset of Limits]
  DiChannels,   \* [sensor of PollList -> number of its linked DI channels]
  Links,        \* m_digitalIos, DO part: set of [analog, do, limits]
  FailSafe,     \* m_doFailSafeOnReconnect
  LostReplies,  \* subset of BOOLEAN: may a write answered by an error have been executed?
  LateFinishes, \* subset of BOOLEAN: does an abandoned reply still emit finished()?
  BackoffInit,  \* kInitialBackoffMs
  BackoffMax,   \* kBackoffMax
  MaxQueue      \* bound: user writes waiting in the pump

Limits == {"min", "max"}
Polled == {PollList[i] : i \in 1..Len(PollList)}
Analogs == {s \in Polled : Kind[s] = "analog"}
StandaloneDOs == {s \in Polled : Kind[s] = "do"}
LinkedDOs == {l.do : l \in Links}
Coils == LinkedDOs \cup StandaloneDOs
Link == [analog : Analogs, do : LinkedDOs, limits : SUBSET Limits]
Write == [do : Coils, want : BOOLEAN]

ASSUME ConfigAssumption ==
  /\ PollList \in Seq(Polled) /\ PollList # <<>>
  /\ Kind \in [Polled -> {"analog", "di", "do"}]
  /\ Thresholds \in [Polled -> SUBSET Limits]
  /\ DiChannels \in [Polled -> Nat]
  /\ Links \subseteq Link
  /\ LinkedDOs \cap Polled = {}
  /\ FailSafe \in BOOLEAN
  /\ LostReplies \subseteq BOOLEAN
  /\ LateFinishes \subseteq BOOLEAN
  /\ BackoffInit \in Nat /\ BackoffMax \in Nat
  /\ 0 < BackoffInit /\ BackoffInit <= BackoffMax
  /\ MaxQueue \in Nat

VARIABLES
  phase,       \* "created" | "running" (m_running) | "stopped" | "crashed"
  client,      \* m_client: "null", "closed" (not connected) or "open"
  connected,   \* m_connected
  reported,    \* the last connectionChanged() the controller was sent
  backoff,     \* m_backoffMs
  pollTimer,   \* m_pollTimer is active
  heartbeat,   \* m_heartbeatTimer is active
  reconnects,  \* pending single-shot timers that will call tryReconnect
  owner,       \* ModbusPortGuard: "none", "monitor" (m_portGuard) or "tester"
  await,       \* m_awaitReply and m_awaitCont: the request in flight
  queue,       \* m_opQueue
  pump,        \* m_pumpActive
  outstanding, \* requests the serial client has not answered
  alarm,       \* m_alarmTypes, empty set = no alarm
  doStates,    \* m_doStates: what the worker believes of each coil
  coil,        \* the coils of the slaves
  published    \* the do_states of the last dataReady

linkVars == <<phase, client, connected, reported, backoff, pollTimer,
              heartbeat, reconnects, owner>>
pumpVars == <<await, queue, pump, outstanding>>
doVars == <<alarm, doStates, coil, published>>
vars == <<linkVars, pumpVars, doVars>>

Stages == {"analog", "doWrite", "di", "sdi", "sdo", "coil", "reset"}

Request(stage, i, n, writes) ==
  [stage |-> stage, idx |-> i, di |-> n, todo |-> writes]

NoRequest == Request("none", 0, 0, {})

Op(kind, writes) == [kind |-> kind, todo |-> writes]

(***************************************************************************)
(* Control: what the pump does next while the client is open (a request    *)
(* is then always accepted).  The value says what is in flight, what is    *)
(* queued, and whether the pump is active.                                 *)
(***************************************************************************)
Busy(request, q) == [await |-> request, queue |-> q, pump |-> TRUE]
Idle == [await |-> NoRequest, queue |-> <<>>, pump |-> FALSE]

ReadStage(s) ==
  IF Kind[s] = "analog" THEN "analog" ELSE IF Kind[s] = "di" THEN "sdi" ELSE "sdo"

SensorRequest(i) == Request(ReadStage(PollList[i]), i, 0, {})

FirstRequest(op) ==
  IF op.kind = "poll" THEN SensorRequest(1) ELSE Request("coil", 0, 0, op.todo)

pumpNextOp(q) ==
  IF q = <<>> THEN Idle ELSE Busy(FirstRequest(Head(q)), Tail(q))

\* Seeded fault of pollSensorAt: the last sensor does not hand the pump on.
pollSensorStuck(i, q) ==
  IF i > Len(PollList) THEN [await |-> NoRequest, queue |-> q, pump |-> TRUE]
  ELSE Busy(SensorRequest(i), q)

pollSensorAt(i, q) ==
  IF i > Len(PollList) THEN pumpNextOp(q) ELSE Busy(SensorRequest(i), q)

readDiChain(i, n, q) ==
  IF n > DiChannels[PollList[i]] THEN pollSensorAt(i + 1, q)
  ELSE Busy(Request("di", i, n, {}), q)

writeDoChain(i, todo, q) ==
  IF todo = {} THEN readDiChain(i, 1, q)
  ELSE Busy(Request("doWrite", i, 0, todo), q)

resetWrites(todo, q) ==
  IF todo = {} THEN pumpNextOp(q) ELSE Busy(Request("reset", 0, 0, todo), q)

\* Seeded fault of enqueueOp: the operation starts whatever is in flight.
enqueueAtOnce(op) == pumpNextOp(Append(queue, op))

enqueueOp(op) ==
  IF pump THEN Busy(await, Append(queue, op)) ELSE pumpNextOp(Append(queue, op))

\* Take control c; "answered" requests have left the serial client.
Goto(c, answered) ==
  /\ await' = c.await
  /\ queue' = c.queue
  /\ pump' = c.pump
  /\ outstanding' =
       (outstanding - answered)
         + (IF c.await = NoRequest \/ (answered = 0 /\ c.await = await) THEN 0 ELSE 1)

\* Without an open client every remaining step of every operation fails at
\* once, so the pump runs dry; disconnecting drops the pending requests.
RunDry ==
  /\ await' = NoRequest
  /\ queue' = <<>>
  /\ pump' = FALSE
  /\ outstanding' = 0

-----------------------------------------------------------------------------
(***************************************************************************)
(* Relay coils.                                                            *)
(***************************************************************************)
desired(al, d) ==
  \E l \in Links : l.do = d /\ l.limits \cap al[l.analog] # {}

Belief(v) == IF v THEN "on" ELSE "off"

\* Seeded fault of buildDoWrites: relays are switched on, never off again.
buildOnWrites(al) ==
  {w \in Write : /\ w.do \in LinkedDOs
                 /\ w.want /\ desired(al, w.do)
                 /\ doStates[w.do] # "on"}

buildDoWrites(al) ==
  {w \in Write : /\ w.do \in LinkedDOs
                 /\ w.want = desired(al, w.do)
                 /\ doStates[w.do] # Belief(w.want)}

\* Seeded fault of resetDoCoils: no coil is reset.
resetNothing == {}

resetDoCoils == {[do |-> d, want |-> FALSE] : d \in LinkedDOs}

\* Seeded fault of Publish: an unknown state is published as ON.
PublishUnknownOn(a, belief) ==
  published' = [d \in LinkedDOs |->
                  IF \E l \in Links : l.analog = a /\ l.do = d
                  THEN Belief(belief[d] # "off") ELSE published[d]]

\* An unknown state is published as OFF.
Publish(a, belief) ==
  published' = [d \in LinkedDOs |->
                  IF \E l \in Links : l.analog = a /\ l.do = d
                  THEN Belief(belief[d] = "on") ELSE published[d]]

\* The slave executes the write in flight, if there is one.
Executes(w) == coil' = [coil EXCEPT ![w.do] = w.want]

MayExecute(may) ==
  \/ UNCHANGED coil
  \/ may /\ \E w \in await.todo : Executes(w)

NoAlarm == [a \in Analogs |-> {}]
Unknown == [d \in Coils |-> "unknown"]

\* The beliefs a new connection starts with, before the fail-safe reset.
reconnectBeliefs == IF FailSafe THEN doStates ELSE Unknown
-----------------------------------------------------------------------------
(***************************************************************************)
(* The connection.                                                         *)
(***************************************************************************)
\* Seeded fault of acquirePort: the guard is not asked.
acquireAnyway == owner' = "monitor"

acquirePort == owner # "tester" /\ owner' = "monitor"

\* Seeded fault of reportLost: connectionChanged(false) is not sent.
lostSilently == connected' = FALSE /\ UNCHANGED reported

\* The worker and the controller agree that the connection is lost.
reportLost == connected' = FALSE /\ reported' = FALSE

\* Seeded fault of scheduleReconnect: the poll timer keeps running.
reconnectBesideTimer ==
  /\ UNCHANGED pollTimer
  /\ backoff' = BackoffInit
  /\ reconnects' = reconnects + 1

\* The poll timer stops and one delayed tryReconnect takes over.
scheduleReconnect ==
  /\ pollTimer' = FALSE
  /\ backoff' = BackoffInit
  /\ reconnects' = reconnects + 1

\* Seeded fault of nextBackoff: no ceiling.
doubledBackoff == backoff * 2

nextBackoff == IF backoff * 2 <= BackoffMax THEN backoff * 2 ELSE BackoffMax

Init ==
  /\ phase = "created" /\ client = "null" /\ connected = FALSE
  /\ reported = FALSE /\ backoff = BackoffInit /\ pollTimer = FALSE
  /\ heartbeat = FALSE /\ reconnects = 0 /\ owner = "none"
  /\ await = NoRequest /\ queue = <<>> /\ pump = FALSE /\ outstanding = 0
  /\ alarm = NoAlarm /\ doStates = Unknown
  /\ coil \in [Coils -> BOOLEAN]
  /\ published = [d \in LinkedDOs |-> "none"]

(***************************************************************************)
(* connectToPort.  Each outcome leaves backoff and reconnects to its       *)
(* caller unless it assigns them.                                          *)
(***************************************************************************)
connectBusy ==
  /\ owner = "tester"
  /\ client' = IF client = "null" THEN "closed" ELSE client
  /\ connected' = FALSE
  /\ UNCHANGED <<reported, pollTimer, owner, pumpVars, doVars>>

connectRefused ==
  /\ acquirePort
  /\ client' = IF client = "open" THEN "open" ELSE "closed"
  /\ reportLost
  /\ UNCHANGED <<pollTimer, pumpVars, doVars>>

connectOpened ==
  /\ acquirePort
  /\ client # "open"
  /\ client' = "open"
  /\ connected' = TRUE
  /\ reported' = TRUE
  /\ backoff' = BackoffInit
  /\ pollTimer' = TRUE
  /\ alarm' = NoAlarm
  /\ doStates' = reconnectBeliefs
  /\ Goto(IF FailSafe /\ resetDoCoils # {} THEN resetWrites(resetDoCoils, queue)
          ELSE enqueueOp(Op("poll", {})), 0)
  /\ UNCHANGED <<coil, published>>

start ==
  /\ phase = "created"
  /\ phase' = "running"
  /\ heartbeat' = TRUE
  /\ \/ connectOpened /\ UNCHANGED reconnects
     \/ /\ connectBusy \/ connectRefused
        /\ reconnects' = reconnects + 1
        /\ UNCHANGED backoff

reconnectOpens ==
  /\ reconnects > 0 /\ phase = "running"
  /\ connectOpened
  /\ reconnects' = reconnects - 1
  /\ UNCHANGED <<phase, heartbeat>>

reconnectFails ==
  /\ reconnects > 0 /\ phase = "running"
  /\ connectBusy \/ connectRefused
  /\ backoff' = nextBackoff
  /\ UNCHANGED <<phase, heartbeat, reconnects>>

reconnectIgnored ==
  /\ reconnects > 0 /\ phase = "stopped"
  /\ reconnects' = reconnects - 1
  /\ UNCHANGED <<phase, client, connected, reported, backoff, pollTimer,
                 heartbeat, owner, pumpVars, doVars>>

tryReconnect == reconnectOpens \/ reconnectFails \/ reconnectIgnored

(***************************************************************************)
(* The poll timer: notice a lost connection, or start a round of polls     *)
(* unless the previous one is still in the pump.                           *)
(***************************************************************************)
pollTickLost ==
  /\ phase = "running" /\ pollTimer
  /\ ~connected \/ client # "open"
  /\ reportLost
  /\ scheduleReconnect
  /\ UNCHANGED <<phase, client, heartbeat, owner, pumpVars, doVars>>

pollTickRound ==
  /\ phase = "running" /\ pollTimer
  /\ connected /\ client = "open"
  /\ ~pump /\ queue = <<>>
  /\ Goto(enqueueOp(Op("poll", {})), 0)
  /\ UNCHANGED <<linkVars, doVars>>

onPollTimer == pollTickLost \/ pollTickRound

\* A write asked for by the operator, for a DO that is polled on its own (the
\* request of a sensor that is not polled finds no entry and does nothing).
\* It fails at once when the client is not open.
writeSingleCoil(d, v) ==
  /\ phase = "running"
  /\ Len(queue) < MaxQueue
  /\ IF client = "open"
     THEN Goto(enqueueOp(Op("write", {[do |-> d, want |-> v]})), 0)
     ELSE UNCHANGED pumpVars
  /\ UNCHANGED <<linkVars, doVars>>
-----------------------------------------------------------------------------
(***************************************************************************)
(* onAwaitFinished: the reply arrived.                                     *)
(***************************************************************************)
Answered(stages) ==
  phase = "running" /\ client = "open" /\ await.stage \in stages

analogOk(limits) ==
  /\ Answered({"analog"})
  /\ limits \subseteq Thresholds[PollList[await.idx]]
  /\ LET a == PollList[await.idx]
         al == [alarm EXCEPT ![a] = limits]
         c == writeDoChain(await.idx, buildDoWrites(al), queue)
     IN /\ alarm' = al
        /\ Goto(c, 1)
        /\ IF c.await.stage \in {"doWrite", "di"} THEN UNCHANGED published
           ELSE Publish(a, doStates)
  /\ UNCHANGED <<linkVars, doStates, coil>>

doWriteAnswered(ok) ==
  /\ Answered({"doWrite"})
  /\ \E w \in await.todo :
       LET c == writeDoChain(await.idx, await.todo \ {w}, queue)
           belief == IF ok THEN [doStates EXCEPT ![w.do] = Belief(w.want)]
                     ELSE doStates
       IN /\ doStates' = belief
          /\ IF ok THEN Executes(w)
             ELSE \/ UNCHANGED coil
                  \/ TRUE \in LostReplies /\ Executes(w)
          /\ Goto(c, 1)
          /\ IF c.await.stage \in {"doWrite", "di"} THEN UNCHANGED published
             ELSE Publish(PollList[await.idx], belief)
  /\ UNCHANGED <<linkVars, alarm>>

\* Read or error, the DI channel yields a state and the chain goes on.
diAnswered ==
  /\ Answered({"di"})
  /\ LET c == readDiChain(await.idx, await.di + 1, queue)
     IN /\ Goto(c, 1)
        /\ IF c.await.stage = "di" THEN UNCHANGED published
           ELSE Publish(PollList[await.idx], doStates)
  /\ UNCHANGED <<linkVars, alarm, doStates, coil>>

\* The sensors that write nothing: a failed analog read, a standalone DI, a
\* standalone DO (whose belief follows the coil that was read).
readAnswered(ok) ==
  /\ Answered({"analog", "sdi", "sdo"})
  /\ await.stage = "analog" => ~ok
  /\ Goto(pollSensorAt(await.idx + 1, queue), 1)
  /\ doStates' = IF ok /\ await.stage = "sdo"
                 THEN [doStates EXCEPT ![PollList[await.idx]] =
                         Belief(coil[PollList[await.idx]])]
                 ELSE doStates
  /\ UNCHANGED <<linkVars, alarm, coil, published>>

coilAnswered(ok) ==
  /\ Answered({"coil"})
  /\ \E w \in await.todo :
       /\ doStates' = IF ok THEN [doStates EXCEPT ![w.do] = Belief(w.want)]
                      ELSE doStates
       /\ IF ok THEN Executes(w)
          ELSE UNCHANGED coil \/ (TRUE \in LostReplies /\ Executes(w))
  /\ Goto(pumpNextOp(queue), 1)
  /\ UNCHANGED <<linkVars, alarm, published>>

resetAnswered(ok) ==
  /\ Answered({"reset"})
  /\ \E w \in await.todo :
       /\ doStates' = [doStates EXCEPT ![w.do] = IF ok THEN "off" ELSE "unknown"]
       /\ IF ok THEN Executes(w)
          ELSE UNCHANGED coil \/ (TRUE \in LostReplies /\ Executes(w))
       /\ Goto(resetWrites(await.todo \ {w}, queue), 1)
  /\ UNCHANGED <<linkVars, alarm, published>>

onAwaitFinished ==
  \/ \E limits \in SUBSET Limits : analogOk(limits)
  \/ diAnswered
  \/ \E ok \in BOOLEAN :
       doWriteAnswered(ok) \/ readAnswered(ok) \/ coilAnswered(ok) \/ resetAnswered(ok)

(***************************************************************************)
(* The port goes away under an open client (cable pulled, device error):   *)
(* the client closes and aborts its reply, whose continuation sees an      *)
(* error.  m_connected is only corrected by the next poll tick.            *)
(***************************************************************************)
PublishOnDrain ==
  IF await.stage \in {"doWrite", "di"} THEN Publish(PollList[await.idx], doStates)
  ELSE UNCHANGED published

clientLost ==
  /\ phase = "running" /\ client = "open"
  /\ client' = "closed"
  /\ MayExecute(TRUE)
  /\ doStates' = IF await.stage = "reset"
                 THEN [d \in Coils |-> IF \E w \in await.todo : w.do = d
                                       THEN "unknown" ELSE doStates[d]]
                 ELSE doStates
  /\ PublishOnDrain
  /\ RunDry
  /\ UNCHANGED <<phase, connected, reported, backoff, pollTimer, heartbeat,
                 reconnects, owner, alarm>>

(***************************************************************************)
(* onAwaitTimeout: no reply at all.  Every continuation then calls         *)
(* resetConnectionAfterHang.  The reply is still connected to              *)
(* onAwaitFinished while m_awaitCont is already empty: if disconnecting    *)
(* the client makes the reply finish, an empty continuation is called and  *)
(* the process dies.                                                       *)
(***************************************************************************)
resetConnectionAfterHang ==
  /\ client' = "null"
  /\ heartbeat' = FALSE
  /\ owner' = "none"
  /\ reportLost
  /\ scheduleReconnect
  /\ RunDry

onAwaitTimeout(late) ==
  /\ phase = "running" /\ client = "open" /\ await # NoRequest
  /\ MayExecute(TRUE)
  /\ IF late
     THEN /\ phase' = "crashed"
          /\ UNCHANGED <<client, connected, reported, backoff, pollTimer,
                         heartbeat, reconnects, owner, pumpVars, published>>
     ELSE /\ UNCHANGED phase
          /\ resetConnectionAfterHang
          /\ PublishOnDrain
  /\ UNCHANGED <<alarm, doStates>>

stop ==
  /\ phase = "running"
  /\ phase' = "stopped"
  /\ MayExecute(TRUE)
  /\ RunDry
  /\ pollTimer' = FALSE
  /\ heartbeat' = FALSE
  /\ client' = IF client = "null" THEN "null" ELSE "closed"
  /\ owner' = IF owner = "monitor" THEN "none" ELSE owner
  /\ UNCHANGED <<connected, reported, backoff, reconnects, alarm, doStates,
                 published>>
-----------------------------------------------------------------------------
(***************************************************************************)
(* The tester, which may use the port, and its coils, while it is free.    *)
(***************************************************************************)
testerTakes ==
  /\ owner = "none"
  /\ owner' = "tester"
  /\ UNCHANGED <<phase, client, connected, reported, backoff, pollTimer,
                 heartbeat, reconnects, pumpVars, doVars>>

testerWrites(d, v) ==
  /\ owner = "tester"
  /\ coil' = [coil EXCEPT ![d] = v]
  /\ UNCHANGED <<linkVars, pumpVars, alarm, doStates, published>>

testerReleases ==
  /\ owner = "tester"
  /\ owner' = "none"
  /\ UNCHANGED <<phase, client, connected, reported, backoff, pollTimer,
                 heartbeat, reconnects, pumpVars, doVars>>

tester ==
  /\ phase # "crashed"
  /\ \/ testerTakes \/ testerReleases
     \/ \E d \in Coils, v \in BOOLEAN : testerWrites(d, v)

Next ==
  \/ start \/ stop
  \/ tryReconnect \/ onPollTimer
  \/ onAwaitFinished
  \/ \E late \in LateFinishes : onAwaitTimeout(late)
  \/ \E d \in StandaloneDOs, v \in BOOLEAN : writeSingleCoil(d, v)
  \/ clientLost \/ tester

Spec == Init /\ [][Next]_vars

(***************************************************************************)
(* Fairness: timers fire, a request is answered or times out (the reply    *)
(* timer is armed for every request), an attempt to open a port that works *)
(* succeeds, and the tester does not keep the port for ever.               *)
(***************************************************************************)
Fairness ==
  /\ WF_vars(start) /\ WF_vars(onPollTimer) /\ WF_vars(reconnectOpens)
  /\ WF_vars(onAwaitFinished) /\ WF_vars(testerReleases)

FairSpec == Spec /\ Fairness
-----------------------------------------------------------------------------
Requests ==
  [stage : Stages, idx : 0..Len(PollList), di : Nat, todo : SUBSET Write]
    \cup {NoRequest}

WriteOps == [kind : {"write"}, todo : SUBSET Write]

\* The variables hold values of their types.
TypeOK ==
  /\ phase \in {"created", "running", "stopped", "crashed"}
  /\ client \in {"null", "closed", "open"}
  /\ connected \in BOOLEAN /\ reported \in BOOLEAN
  /\ pollTimer \in BOOLEAN /\ heartbeat \in BOOLEAN /\ pump \in BOOLEAN
  /\ backoff \in BackoffInit..BackoffMax
  /\ reconnects \in Nat /\ outstanding \in Nat
  /\ owner \in {"none", "monitor", "tester"}
  /\ await \in Requests
  /\ queue \in Seq(WriteOps)
  /\ alarm \in [Analogs -> SUBSET Limits]
  /\ doStates \in [Coils -> {"unknown", "on", "off"}]
  /\ coil \in [Coils -> BOOLEAN]
  /\ published \in [LinkedDOs -> {"none", "on", "off"}]

(***************************************************************************)
(* The worker always has exactly one way to wake up: its poll timer, or    *)
(* one delayed tryReconnect.  None would leave it idle for ever; two       *)
(* tryReconnect, or one beside a live poll timer, would open the port      *)
(* under a working connection (tryReconnect, onPollTimer and               *)
(* resetConnectionAfterHang each arm or stop one of the two).              *)
(***************************************************************************)
OneWakeUp ==
  phase = "running" => reconnects = IF pollTimer THEN 0 ELSE 1

(***************************************************************************)
(* The serial bus carries one request at a time (the Q_ASSERT of           *)
(* sendAndAwait): whatever the order of poll ticks, operator writes,       *)
(* losses and resets, the pump is active exactly while a request is in     *)
(* flight on an open client, and nothing waits behind an idle pump.        *)
(***************************************************************************)
OneInFlight ==
  phase # "crashed" =>
    /\ outstanding = IF await = NoRequest THEN 0 ELSE 1
    /\ pump = (await # NoRequest)
    /\ pump => phase = "running" /\ client = "open"
    /\ ~pump => queue = <<>>

(***************************************************************************)
(* An open client is never mistaken for a lost one, and what the           *)
(* controller was told is what the worker believes.  Were connected FALSE  *)
(* with the client open, every tryReconnect would fail on the open client  *)
(* and polling would never resume.                                         *)
(***************************************************************************)
OpenIsConnected ==
  phase = "running" => /\ client = "open" => connected
                       /\ reported = connected

(***************************************************************************)
(* The port guard is the only thing that keeps two serial clients off the  *)
(* port: the worker's every path (open, loss, hang, stop) keeps the        *)
(* promise of PortOwner.                                                   *)
(***************************************************************************)
Opened ==
  (IF client = "open" THEN {"monitor"} ELSE {})
    \cup (IF owner = "tester" THEN {"tester"} ELSE {})

Port == INSTANCE PortOwner WITH Parties <- {"monitor", "tester"},
                                Nobody <- "none", opened <- Opened

PortGuarded == Port!Spec

(***************************************************************************)
(* "Skip only when we are certain the coil already holds the desired       *)
(* value" (buildDoWrites): on an open connection a known belief about a    *)
(* linked coil is the state of that coil, except for the coils a fail-safe *)
(* reset has not reached yet.                                              *)
(***************************************************************************)
BeliefCertain ==
  client = "open" /\ phase = "running" =>
    \A d \in LinkedDOs :
      \/ await.stage = "reset" /\ \E w \in await.todo : w.do = d
      \/ doStates[d] \in {"unknown", Belief(coil[d])}

(***************************************************************************)
(* A relay that a reading newly reports as ON is ON.  (OFF is also what an *)
(* unknown state is reported as.)                                          *)
(***************************************************************************)
ReportedOnIsOn ==
  [][\A d \in LinkedDOs :
       published'[d] = "on" /\ published[d] # "on" /\ client' = "open" => coil'[d]]_vars

(***************************************************************************)
(* Once the faults are over, polling resumes: from every state of a        *)
(* running worker a sensor is read again, infinitely often.                *)
(***************************************************************************)
Fault ==
  clientLost \/ reconnectFails \/ testerTakes
    \/ \E late \in LateFinishes : onAwaitTimeout(late)

PollsResume ==
  <>[][~Fault]_vars =>
    []<>(phase \in {"stopped", "crashed"} \/ await.stage \in {"analog", "sdi", "sdo"})

(***************************************************************************)
(* A relay linked to several analog sensors settles where their alarms     *)
(* want it together: once the alarms stop changing, reads and writes       *)
(* succeed and the faults are over, every linked coil reaches its wanted   *)
(* state and stays there.  (A failed read counts only where it differs     *)
(* from a successful one: with nothing to write, both are the same step.)  *)
(***************************************************************************)
analogFails ==
  /\ await.stage = "analog" /\ readAnswered(FALSE)
  /\ ~\E limits \in SUBSET Limits : analogOk(limits)

Disturbed ==
  \/ Fault
  \/ alarm' # alarm
  \/ analogFails
  \/ doWriteAnswered(FALSE) \/ resetAnswered(FALSE)

RelaysConverge ==
  <>[][~Disturbed]_vars =>
    <>[](\/ phase \in {"stopped", "crashed"}
         \/ \A d \in LinkedDOs : coil[d] = desired(alarm, d))

(***************************************************************************)
(* What a comment of the code says and the run WorkerLostReply refutes.    *)
(***************************************************************************)
\* buildDoWrites: "Skip only when we are certain the coil already holds the
\* desired value".
SkipsOnlyWhenCertain ==
  [][await.stage = "analog" /\ alarm' # alarm =>
       \A d \in LinkedDOs : doStates[d] = Belief(desired(alarm', d))
                              => coil[d] = desired(alarm', d)]_vars
=============================================================================
