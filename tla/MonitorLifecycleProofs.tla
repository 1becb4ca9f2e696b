------------------------ MODULE MonitorLifecycleProofs ------------------------
(***************************************************************************)
(* Proofs about MonitorLifecycle, for any sessions, bounds, faults and     *)
(* edits.  That the tester waits under its deadline depends on which       *)
(* results of its worker can be on their way: ConnectInv says that none    *)
(* is, unless the controller is connecting or connected.                   *)
(***************************************************************************)
EXTENDS MonitorLifecycle, FiniteSetTheorems, TLAPS

Results == {"connected", "disconnected"}
Calls == {"connect", "disconnect"}

NoResult(q) == \A i \in 1..Len(q) : q[i] \notin Results
Disconnects(q) == \E i \in 1..Len(q) : q[i] = "disconnected"
DisconnectsLast(q) ==
  \A i, j \in 1..Len(q) : q[i] = "disconnected" /\ i < j => q[j] \notin Results

NoConnect(q) == \A i \in 1..Len(q) : q[i] # "connect"
OneConnect(q) ==
  \A i, j \in 1..Len(q) : q[i] = "connect" /\ q[j] = "connect" => i = j

\* A "connect" is queued once, for a controller that waits for its result; a
\* "disconnected" is the last result, of a worker without the port.
ConnectInv ==
  /\ waiting => ~connecting /\ ~connected
  /\ ~connecting /\ ~connected =>
       NoResult(inbox) /\ NoConnect(calls) /\ owner # "tester"
  /\ ~NoConnect(calls) => connecting /\ NoResult(inbox) /\ owner # "tester"
  /\ OneConnect(calls)
  /\ DisconnectsLast(inbox)
  /\ Disconnects(inbox) => NoConnect(calls) /\ owner # "tester"

\* The parts of the type invariant: MonitorController, TesterController, queues.
MonitorType ==
  /\ polling \in BOOLEAN /\ stopping \in BOOLEAN
  /\ afterStop \in {"nothing", "restart", "retry"}
  /\ pending \in 0..2
  /\ current \in Sessions \cup {NoSession}
  /\ retry \in BOOLEAN /\ errors \in 0..MaxErrors
  /\ restarts \in 0..MaxTimers /\ leftover \in 0..MaxTimers /\ backstop \in BOOLEAN
  /\ thread \in [Workers -> {"off", "on", "asked", "quit"}]

TesterType ==
  /\ waiting \in BOOLEAN /\ deadline \in BOOLEAN /\ wasRunning \in BOOLEAN
  /\ connecting \in BOOLEAN /\ connected \in BOOLEAN /\ resumeDue \in BOOLEAN

QueueType ==
  /\ inbox \in Seq(Kinds)
  /\ calls \in Seq(Calls)
  /\ owner \in Sessions \cup {"none", "tester"}

MonitorInv == MonitorType /\ OneSession /\ StopBounded
TesterInv == TesterType /\ QueueType /\ ConnectInv
IInv == MonitorInv /\ sensors \in BOOLEAN /\ TesterInv /\ WaitsForStop

\* No worker hangs and no timer of an earlier stop is left; signals may be lost.
Prompt == Faults \cap {"hang", "quick"} = {}

\* n workers' signals are in the queue q.
Signalled(q) == {i \in 1..Len(q) : q[i] = "asyncStopped"}
Signals(q, n) ==
  \/ n = 0 /\ Signalled(q) = {}
  \/ n = 1 /\ \E i \in Signalled(q) : Signalled(q) = {i}
  \/ n = 2 /\ \E i, j \in Signalled(q) : i # j /\ Signalled(q) = {i, j}

\* No more than n of them are.
Few(q, n) == \E m \in 0..2 : m <= n /\ Signals(q, m)

\* The signals of a stop that were sent and not yet handled, or lost: what is
\* awaited, less the workers that still have to stop.
Asked(r) == IF thread[<<current, r>>] = "asked" THEN 1 ELSE 0
Underway == IF stopping THEN pending - Asked("modbus") - Asked("db") ELSE 0

\* Then every signal belongs to the stop under way, the threads of earlier
\* sessions have ended, and a session with the port has a thread.
PromptInv ==
  /\ Prompt /\ leftover = 0
  /\ \A w \in Workers : w[1] # current => thread[w] = "off"
  /\ \A s \in Sessions : owner = s => Runs(s)
  /\ Few(inbox, Underway)
-----------------------------------------------------------------------------
LEMMA RolesCount == Cardinality(Roles) = 2
<1>1. IsFiniteSet({}) /\ Cardinality({}) = 0
  BY FS_EmptySet
<1>2. IsFiniteSet({"db"}) /\ Cardinality({"db"}) = 1
  BY FS_Singleton
<1>3. Roles = {"db"} \cup {"modbus"}
  BY DEF Roles
<1> QED
  BY <1>2, <1>3, FS_AddElement

LEMMA AtMostType ==
  ASSUME NEW n \in Nat, NEW b \in Nat
  PROVE  AtMost(n, b) \in 0..b
BY DEF AtMost

(***************************************************************************)
(* What sending and handling events does to the results in a queue.        *)
(***************************************************************************)
LEMMA QuietQueue ==
  ASSUME NEW q \in Seq(Kinds), NoResult(q)
  PROVE  DisconnectsLast(q) /\ ~Disconnects(q)
BY DEF NoResult, DisconnectsLast, Disconnects, Results

LEMMA HandledEvent ==
  ASSUME NEW q \in Seq(Kinds), q # <<>>
  PROVE  /\ Tail(q) \in Seq(Kinds)
         /\ NoResult(q) => NoResult(Tail(q)) /\ Head(q) \notin Results
         /\ DisconnectsLast(q) => DisconnectsLast(Tail(q))
         /\ Disconnects(Tail(q)) => Disconnects(q)
         /\ Head(q) = "disconnected" => Disconnects(q)
         /\ Head(q) = "disconnected" /\ DisconnectsLast(q) => NoResult(Tail(q))
<1>1. /\ Tail(q) \in Seq(Kinds) /\ Len(q) \in Nat \ {0} /\ Len(Tail(q)) = Len(q) - 1
      /\ \A i \in 1..Len(Tail(q)) : Tail(q)[i] = q[i + 1] /\ i + 1 \in 1..Len(q)
      /\ Head(q) = q[1]
  OBVIOUS
<1> QED
  BY <1>1 DEF NoResult, DisconnectsLast, Disconnects

LEMMA SentQuietly ==
  ASSUME NEW q \in Seq(Kinds), NEW e \in Seq(Kinds), NoResult(e)
  PROVE  /\ q \o e \in Seq(Kinds)
         /\ NoResult(q) => NoResult(q \o e)
         /\ DisconnectsLast(q) => DisconnectsLast(q \o e)
         /\ Disconnects(q \o e) => Disconnects(q)
<1>1. /\ q \o e \in Seq(Kinds) /\ Len(q) \in Nat /\ Len(e) \in Nat
      /\ Len(q \o e) = Len(q) + Len(e)
      /\ \A i \in 1..Len(q \o e) : (q \o e)[i] = IF i <= Len(q) THEN q[i] ELSE e[i - Len(q)]
  OBVIOUS
<1>2. \A i \in 1..Len(q \o e) : i <= Len(q) \/ (q \o e)[i] \notin Results
  BY <1>1 DEF NoResult
<1> QED
  BY <1>1, <1>2 DEF NoResult, DisconnectsLast, Disconnects, Results

LEMMA SentResult ==
  ASSUME NEW q \in Seq(Kinds), NEW r \in Results, ~Disconnects(q)
  PROVE  /\ q \o <<r>> \in Seq(Kinds)
         /\ DisconnectsLast(q \o <<r>>)
         /\ Disconnects(q \o <<r>>) => r = "disconnected"
<1>1. r \in Kinds
  BY DEF Results, Kinds
<1>2. /\ q \o <<r>> \in Seq(Kinds) /\ Len(q) \in Nat
      /\ Len(q \o <<r>>) = Len(q) + 1
      /\ \A i \in 1..(Len(q) + 1) : (q \o <<r>>)[i] = IF i <= Len(q) THEN q[i] ELSE r
  BY <1>1
<1> QED
  BY <1>2 DEF DisconnectsLast, Disconnects, Results

\* The same for the calls of the tester's worker.
LEMMA HandledCall ==
  ASSUME NEW q \in Seq(Calls), q # <<>>, OneConnect(q)
  PROVE  /\ Tail(q) \in Seq(Calls)
         /\ OneConnect(Tail(q))
         /\ NoConnect(q) => NoConnect(Tail(q)) /\ Head(q) # "connect"
         /\ Head(q) = "connect" => NoConnect(Tail(q))
<1>1. /\ Tail(q) \in Seq(Calls) /\ Len(q) \in Nat \ {0} /\ Len(Tail(q)) = Len(q) - 1
      /\ \A i \in 1..Len(Tail(q)) : Tail(q)[i] = q[i + 1] /\ i + 1 \in 1..Len(q)
      /\ Head(q) = q[1]
  OBVIOUS
<1> QED
  BY <1>1 DEF NoConnect, OneConnect

LEMMA QueuedCall ==
  ASSUME NEW q \in Seq(Calls), NEW c \in Calls, OneConnect(q)
  PROVE  /\ Append(q, c) \in Seq(Calls)
         /\ c = "disconnect" => OneConnect(Append(q, c))
         /\ c = "disconnect" /\ NoConnect(q) => NoConnect(Append(q, c))
         /\ NoConnect(Append(q, c)) => NoConnect(q)
         /\ NoConnect(q) => OneConnect(Append(q, c))
<1>1. /\ Append(q, c) \in Seq(Calls) /\ Len(q) \in Nat
      /\ Len(Append(q, c)) = Len(q) + 1
      /\ \A i \in 1..(Len(q) + 1) : Append(q, c)[i] = IF i <= Len(q) THEN q[i] ELSE c
  OBVIOUS
<1> QED
  BY <1>1 DEF NoConnect, OneConnect
-----------------------------------------------------------------------------
(***************************************************************************)
(* The parts MonitorController's handlers share.                           *)
(***************************************************************************)
\* Nothing of what the session invariants speak of changes but the timers.
LEMMA MonitorSame ==
  ASSUME MonitorInv, UNCHANGED <<polling, stopping, afterStop, pending, current, retry>>,
         errors' \in 0..MaxErrors, restarts' \in 0..MaxTimers,
         UNCHANGED <<backstop, leftover, thread>>
  PROVE  MonitorInv'
<1>1. MonitorType'
  BY DEF MonitorInv, MonitorType
<1>2. OneSession'
  BY DEF MonitorInv, OneSession
<1>3. StopBounded'
  BY DEF MonitorInv, StopBounded
<1> QED
  BY <1>1, <1>2, <1>3 DEF MonitorInv

\* The same when a retry is started or cancelled.
LEMMA RetryChanges ==
  ASSUME MonitorInv, UNCHANGED <<polling, stopping, afterStop, pending, current>>,
         retry' \in BOOLEAN, polling => ~retry',
         errors' \in 0..MaxErrors, restarts' \in 0..MaxTimers,
         UNCHANGED <<backstop, leftover, thread>>
  PROVE  MonitorInv'
<1>1. MonitorType'
  BY DEF MonitorInv, MonitorType
<1>2. OneSession'
  BY DEF MonitorInv, OneSession
<1>3. StopBounded'
  BY DEF MonitorInv, StopBounded
<1> QED
  BY <1>1, <1>2, <1>3 DEF MonitorInv

LEMMA StartPollingInv ==
  ASSUME MonitorInv, NEW retrying \in BOOLEAN, polling => ~retrying,
         startPolling(retrying), restarts' \in 0..MaxTimers, UNCHANGED <<backstop, leftover>>
  PROVE  MonitorInv' /\ UNCHANGED stopping
<1>1. CASE polling \/ ~sensors
  <2>1. /\ UNCHANGED <<polling, stopping, afterStop, pending, current, errors, thread>>
        /\ retry' = FALSE \/ (polling /\ retry' = retrying)
    BY <1>1 DEF startPolling, stopVars
  <2>2. retry' \in BOOLEAN
    BY <2>1
  <2>3. polling => ~retry'
    BY <2>1
  <2> QED
    BY <2>1, <2>2, <2>3, RetryChanges DEF MonitorInv, MonitorType
<1>2. CASE ~polling /\ sensors
  <2>1. PICK s \in Sessions : startWorkerThreads(s)
    BY <1>2 DEF startPolling
  <2>2. /\ polling' = TRUE /\ retry' = FALSE /\ errors' = 0 /\ current' = s
        /\ thread' = [w \in Workers |-> IF w[1] = s THEN "on" ELSE thread[w]]
        /\ UNCHANGED <<stopping, afterStop, pending>>
    BY <1>2, <2>1 DEF startPolling, startWorkerThreads
  <2>3. current = NoSession /\ ~stopping /\ s # NoSession
    BY <1>2, LifecycleAssumption DEF MonitorInv, OneSession
  <2>4. MonitorType'
    <3>1. thread' \in [Workers -> {"off", "on", "asked", "quit"}]
      BY <2>2 DEF MonitorInv, MonitorType
    <3>2. polling' \in BOOLEAN /\ retry' \in BOOLEAN
      BY <2>2
    <3>3. errors' \in 0..MaxErrors /\ current' \in Sessions \cup {NoSession}
      BY <2>2, LifecycleAssumption
    <3> QED
      BY <2>2, <3>1, <3>2, <3>3 DEF MonitorInv, MonitorType
  <2>5. OneSession'
    <3>1. \A w \in Workers : thread[w] \in {"off", "quit"}
      BY <2>3, LifecycleAssumption DEF MonitorInv, OneSession, Workers
    <3>2. \A w \in Workers : thread'[w] = IF w[1] = s THEN "on" ELSE thread[w]
      BY <2>2
    <3> QED
      BY <2>2, <2>3, <3>1, <3>2 DEF OneSession
  <2> QED
    BY <2>2, <2>3, <2>4, <2>5 DEF MonitorInv, StopBounded
<1> QED
  BY <1>1, <1>2

LEMMA StopPollingInv ==
  ASSUME MonitorInv, NEW intent \in {"nothing", "restart", "retry"},
         stopPollingWithIntent(intent),
         errors' \in 0..MaxErrors, restarts' \in 0..MaxTimers
  PROVE  /\ MonitorInv' /\ UNCHANGED polling
         /\ polling => stopping'
         /\ stopping => stopping'
<1>1. CASE polling /\ ~stopping
  <2>1. /\ retry' = FALSE /\ afterStop' = intent /\ stopping' = TRUE /\ pending' = 2
        /\ thread' = [w \in Workers |-> IF w[1] = current THEN "asked" ELSE thread[w]]
        /\ backstop' = TRUE /\ UNCHANGED <<polling, current>>
        /\ leftover' = leftover \/ leftover' = AtMost(leftover + 1, MaxTimers)
    BY <1>1, RolesCount DEF stopPollingWithIntent, awaited, armBackstop
  <2>2. leftover' \in 0..MaxTimers
    <3>1. leftover \in 0..MaxTimers /\ MaxTimers \in Nat
      BY LifecycleAssumption DEF MonitorInv, MonitorType
    <3>2. AtMost(leftover + 1, MaxTimers) \in 0..MaxTimers
      BY <3>1 DEF AtMost
    <3> QED
      BY <2>1, <3>1, <3>2
  <2>3. MonitorType'
    <3>1. thread' \in [Workers -> {"off", "on", "asked", "quit"}]
      BY <2>1 DEF MonitorInv, MonitorType
    <3>2. /\ stopping' \in BOOLEAN /\ backstop' \in BOOLEAN /\ retry' \in BOOLEAN
      BY <2>1
    <3>3. pending' \in 0..2
      BY <2>1
    <3> QED
      BY <2>1, <2>2, <3>1, <3>2, <3>3 DEF MonitorInv, MonitorType
  <2>4. OneSession'
    <3>1. \A w \in Workers : thread'[w] = IF w[1] = current THEN "asked" ELSE thread[w]
      BY <2>1
    <3> QED
      BY <1>1, <2>1, <3>1 DEF MonitorInv, OneSession
  <2> QED
    BY <2>1, <2>3, <2>4 DEF MonitorInv, StopBounded
<1>2. CASE ~(polling /\ ~stopping)
  <2>1. /\ UNCHANGED <<polling, stopping, afterStop, pending, current, backstop, leftover, thread>>
        /\ retry' = FALSE
    BY <1>2 DEF stopPollingWithIntent, stopVars
  <2>2. polling => stopping
    BY <1>2
  <2> QED
    BY <2>1, <2>2, RetryChanges
<1> QED
  BY <1>1, <1>2

LEMMA ScheduleRetryInv ==
  ASSUME MonitorInv, ~stopping, scheduleRetry,
         errors' \in 0..MaxErrors, restarts' \in 0..MaxTimers
  PROVE  MonitorInv'
<1>1. CASE polling /\ stopPollingWithIntent("retry")
  BY <1>1, StopPollingInv
<1>2. CASE retry /\ UNCHANGED <<stopVars, retry, thread, backstop, leftover>>
  BY <1>2, MonitorSame DEF stopVars
<1>3. CASE ~polling /\ retry' = TRUE /\ UNCHANGED <<stopVars, thread, backstop, leftover>>
  BY <1>3, RetryChanges DEF stopVars
<1> QED
  BY <1>1, <1>2, <1>3 DEF scheduleRetry

LEMMA FinalizeInv ==
  ASSUME MonitorInv, NEW q, finalizeStop(q),
         backstop' \in BOOLEAN, leftover' \in 0..MaxTimers
  PROVE  MonitorInv' /\ ~stopping'
<1>1. /\ polling' = FALSE /\ stopping' = FALSE /\ pending' = 0
      /\ current' = NoSession /\ afterStop' = "nothing" /\ errors' = errors
      /\ thread' = [w \in Workers |-> IF w[1] = current /\ thread[w] # "off"
                                      THEN "quit" ELSE thread[w]]
      /\ retry' = (retry \/ afterStop = "retry")
  BY DEF finalizeStop, afterStopped
<1>2. restarts' \in 0..MaxTimers
  <2>1. restarts' = AtMost(restarts + (IF afterStop = "restart" THEN 1 ELSE 0), MaxTimers)
    BY DEF finalizeStop, afterStopped
  <2>2. restarts + (IF afterStop = "restart" THEN 1 ELSE 0) \in Nat
    BY DEF MonitorInv, MonitorType
  <2> QED
    BY <2>1, <2>2, AtMostType, LifecycleAssumption
<1>3. MonitorType'
  <2>1. thread' \in [Workers -> {"off", "on", "asked", "quit"}]
    BY <1>1 DEF MonitorInv, MonitorType
  <2>2. polling' \in BOOLEAN /\ stopping' \in BOOLEAN /\ retry' \in BOOLEAN
    BY <1>1
  <2>3. /\ pending' \in 0..2 /\ current' \in Sessions \cup {NoSession}
        /\ afterStop' \in {"nothing", "restart", "retry"}
    BY <1>1
  <2> QED
    BY <1>1, <1>2, <2>1, <2>2, <2>3 DEF MonitorInv, MonitorType
<1>4. OneSession'
  <2>1. \A w \in Workers :
          thread'[w] = IF w[1] = current /\ thread[w] # "off" THEN "quit" ELSE thread[w]
    BY <1>1
  <2>2. \A w \in Workers : w[1] # NoSession
    BY LifecycleAssumption DEF Workers
  <2>3. \A w \in Workers : thread'[w] \in {"off", "quit"}
    BY <2>1 DEF MonitorInv, OneSession
  <2> QED
    BY <1>1, <2>2, <2>3 DEF OneSession
<1> QED
  BY <1>1, <1>3, <1>4 DEF MonitorInv, StopBounded
LEMMA ThreadOffInv ==
  ASSUME MonitorInv, NEW w \in Workers, thread[w] \in {"asked", "quit"},
         thread' = [thread EXCEPT ![w] = "off"],
         UNCHANGED <<stopVars, retry, errors, timerVars>>
  PROVE  MonitorInv'
<1>1. thread \in [Workers -> {"off", "on", "asked", "quit"}]
  BY DEF MonitorInv, MonitorType
<1>2. \A v \in Workers : thread'[v] = IF v = w THEN "off" ELSE thread[v]
  BY <1>1
<1>3. MonitorType'
  <2>1. thread' \in [Workers -> {"off", "on", "asked", "quit"}]
    BY <1>1
  <2> QED
    BY <2>1 DEF MonitorInv, MonitorType, stopVars, timerVars
<1>4. OneSession'
  BY <1>2 DEF MonitorInv, OneSession, stopVars
<1>5. StopBounded'
  BY DEF MonitorInv, StopBounded, stopVars, timerVars
<1> QED
  BY <1>3, <1>4, <1>5 DEF MonitorInv

(***************************************************************************)
(* The parts TesterController's handlers share.                            *)
(***************************************************************************)
LEMMA TesterSame ==
  ASSUME TesterInv, UNCHANGED <<testerVars, inbox, calls, owner>>
  PROVE  TesterInv'
<1>1. TesterType' /\ QueueType'
  BY DEF TesterInv, TesterType, QueueType, testerVars
<1>2. ConnectInv'
  BY DEF TesterInv, ConnectInv, testerVars
<1> QED
  BY <1>1, <1>2 DEF TesterInv

\* The controller does nothing about its connection, and no result is sent.
LEMMA ConnectQuiet ==
  ASSUME ConnectInv, UNCHANGED <<waiting, connecting, connected, calls>>,
         NoResult(inbox) => NoResult(inbox'), DisconnectsLast(inbox'),
         Disconnects(inbox') => Disconnects(inbox),
         owner' = owner \/ owner' # "tester"
  PROVE  ConnectInv'
BY DEF ConnectInv

\* An event that is no result of the tester's worker is handled.
LEMMA EventHandled ==
  ASSUME TesterInv, inbox # <<>>, inbox' = Tail(inbox),
         UNCHANGED <<waiting, connecting, connected, calls, owner>>, TesterType'
  PROVE  TesterInv'
<1>1. QueueType'
  BY HandledEvent DEF TesterInv, QueueType
<1>2. ConnectInv'
  <2>1. inbox \in Seq(Kinds) /\ ConnectInv /\ DisconnectsLast(inbox)
    BY DEF TesterInv, QueueType, ConnectInv
  <2> QED
    BY <2>1, HandledEvent, ConnectQuiet
<1> QED
  BY <1>1, <1>2 DEF TesterInv

\* Other threads send events, and take or release the port.
LEMMA EventsSent ==
  ASSUME TesterInv, NEW e \in Seq(Kinds), NoResult(e), inbox' = inbox \o e,
         UNCHANGED <<testerVars, calls>>,
         owner' = owner \/ owner' \in Sessions \cup {"none"}
  PROVE  TesterInv'
<1>1. QueueType'
  BY SentQuietly DEF TesterInv, QueueType
<1>2. ConnectInv'
  <2>1. inbox \in Seq(Kinds) /\ ConnectInv /\ DisconnectsLast(inbox)
    BY DEF TesterInv, QueueType, ConnectInv
  <2>2. owner' = owner \/ owner' # "tester"
    BY LifecycleAssumption
  <2> QED
    BY <2>1, <2>2, SentQuietly, ConnectQuiet DEF testerVars
<1>3. TesterType'
  BY DEF TesterInv, TesterType, testerVars
<1> QED
  BY <1>1, <1>2, <1>3 DEF TesterInv

\* pollingFullyStopped, while the events q are left in the queue.
LEMMA AnnounceInv ==
  ASSUME TesterInv, NEW q \in Seq(Kinds), announceStopped(q),
         NoResult(inbox) => NoResult(q), DisconnectsLast(q),
         Disconnects(q) => Disconnects(inbox),
         UNCHANGED <<wasRunning, connected, owner>>
  PROVE  TesterInv' /\ waiting' = FALSE
<1> DEFINE e == IF resumeDue THEN <<"resume">> ELSE <<>>
<1>1. e \in Seq(Kinds) /\ NoResult(e)
  <2>1. <<"resume">> \in Seq(Kinds) /\ NoResult(<<"resume">>)
    BY DEF Kinds, NoResult, Results
  <2>2. <<>> \in Seq(Kinds) /\ NoResult(<<>>)
    BY DEF NoResult
  <2> QED
    BY <2>1, <2>2
<1>2. inbox' = q \o e /\ resumeDue' = FALSE
  BY DEF announceStopped
<1> HIDE DEF e
<1>3. /\ inbox' \in Seq(Kinds) /\ DisconnectsLast(inbox')
      /\ NoResult(inbox) => NoResult(inbox')
      /\ Disconnects(inbox') => Disconnects(inbox)
  BY <1>1, <1>2, SentQuietly
<1>4. CASE waiting
  <2>1. /\ waiting' = FALSE /\ deadline' = FALSE /\ connecting' = TRUE
        /\ calls' = Append(calls, "connect")
    BY <1>4 DEF announceStopped, connectSerial
  <2>2. /\ ~connecting /\ ~connected /\ NoResult(inbox) /\ NoConnect(calls)
        /\ owner # "tester" /\ calls \in Seq(Calls) /\ OneConnect(calls)
        /\ inbox \in Seq(Kinds)
    BY <1>4 DEF TesterInv, ConnectInv, QueueType
  <2>3. calls' \in Seq(Calls) /\ OneConnect(calls')
    BY <2>1, <2>2, QueuedCall DEF Calls
  <2>4. ~Disconnects(inbox)
    BY <2>2, QuietQueue
  <2>5. TesterType'
    BY <1>2, <2>1 DEF TesterInv, TesterType
  <2>6. QueueType'
    BY <1>3, <2>3 DEF TesterInv, QueueType
  <2>7. ConnectInv'
    BY <1>3, <2>1, <2>2, <2>3, <2>4 DEF ConnectInv
  <2> QED
    BY <2>1, <2>5, <2>6, <2>7 DEF TesterInv
<1>5. CASE ~waiting
  <2>1. UNCHANGED <<waiting, deadline, connecting, calls>>
    BY <1>5 DEF announceStopped
  <2>2. TesterType'
    BY <1>2, <2>1 DEF TesterInv, TesterType
  <2>3. QueueType'
    BY <1>3, <2>1 DEF TesterInv, QueueType
  <2>4. ConnectInv'
    BY <1>3, <2>1, ConnectQuiet DEF TesterInv
  <2>5. waiting' = FALSE
    BY <1>5, <2>1 DEF TesterInv, TesterType
  <2> QED
    BY <2>2, <2>3, <2>4, <2>5 DEF TesterInv
<1> QED
  BY <1>4, <1>5

LEMMA ResumeMonitorInv ==
  ASSUME MonitorInv, wasRunning \in BOOLEAN, resumeDue \in BOOLEAN,
         resumeMonitorIfNeeded, UNCHANGED timerVars
  PROVE  /\ MonitorInv' /\ UNCHANGED stopping
         /\ wasRunning' \in BOOLEAN /\ resumeDue' \in BOOLEAN
<1>0. /\ errors \in 0..MaxErrors /\ restarts \in 0..MaxTimers /\ retry \in BOOLEAN
      /\ polling => ~retry
  BY DEF MonitorInv, MonitorType, OneSession
<1>1. CASE UNCHANGED <<stopVars, retry, errors, thread>>
           /\ UNCHANGED <<wasRunning, resumeDue>>
  BY <1>0, <1>1, MonitorSame DEF stopVars, timerVars
<1>2. CASE UNCHANGED <<stopVars, retry, errors, thread>>
           /\ UNCHANGED wasRunning /\ resumeDue' = TRUE
  BY <1>0, <1>2, MonitorSame DEF stopVars, timerVars
<1>3. CASE wasRunning' = FALSE /\ startPolling(retry) /\ UNCHANGED resumeDue
  BY <1>0, <1>3, StartPollingInv DEF timerVars
<1> QED
  BY <1>1, <1>2, <1>3 DEF resumeMonitorIfNeeded
-----------------------------------------------------------------------------
(***************************************************************************)
(* One lemma for each action, or for a few alike.                          *)
(***************************************************************************)
LEMMA Parts ==
  ASSUME IInv
  PROVE  /\ errors \in 0..MaxErrors /\ restarts \in 0..MaxTimers
         /\ leftover \in 0..MaxTimers /\ backstop \in BOOLEAN /\ retry \in BOOLEAN
         /\ inbox \in Seq(Kinds) /\ calls \in Seq(Calls)
         /\ polling => ~retry
         /\ stopping => polling
         /\ waiting => stopping
BY DEF IInv, MonitorInv, MonitorType, OneSession, TesterInv, QueueType, WaitsForStop

LEMMA InitInv == Init => IInv
<1> SUFFICES ASSUME Init PROVE IInv
  OBVIOUS
<1>1. thread = [w \in Workers |-> "off"] /\ \A w \in Workers : thread[w] = "off"
  BY DEF Init
<1>2. MonitorType
  <2>1. thread \in [Workers -> {"off", "on", "asked", "quit"}]
    BY <1>1
  <2>2. /\ pending \in 0..2 /\ errors \in 0..MaxErrors /\ restarts \in 0..MaxTimers
        /\ leftover \in 0..MaxTimers
    BY LifecycleAssumption DEF Init
  <2>3. /\ polling \in BOOLEAN /\ stopping \in BOOLEAN /\ retry \in BOOLEAN
        /\ backstop \in BOOLEAN
    BY DEF Init
  <2> QED
    BY <2>1, <2>2, <2>3 DEF MonitorType, Init
<1>3. OneSession
  <2>1. \A w \in Workers : w[1] # NoSession
    BY LifecycleAssumption DEF Workers
  <2> QED
    BY <1>1, <2>1 DEF Init, OneSession
<1>4. StopBounded
  BY DEF Init, StopBounded
<1>5. sensors \in BOOLEAN
  BY DEF Init
<1>6. TesterType
  BY DEF Init, TesterType
<1>7. QueueType
  BY DEF Init, QueueType
<1>8. ConnectInv
  <2>1. /\ NoResult(<<>>) /\ NoConnect(<<>>) /\ OneConnect(<<>>)
        /\ DisconnectsLast(<<>>) /\ ~Disconnects(<<>>)
    BY DEF NoResult, NoConnect, OneConnect, DisconnectsLast, Disconnects
  <2> QED
    BY <2>1 DEF Init, ConnectInv
<1>9. WaitsForStop
  BY DEF Init, WaitsForStop
<1> QED
  BY <1>2, <1>3, <1>4, <1>5, <1>6, <1>7, <1>8, <1>9 DEF IInv, MonitorInv, TesterInv

LEMMA StartTimersInv ==
  ASSUME IInv, onRetryTimer \/ onRestartTimer
  PROVE  IInv'
<1>1. TesterInv'
  BY TesterSame DEF onRetryTimer, onRestartTimer, IInv
<1>2. MonitorInv' /\ UNCHANGED stopping
  <2>1. CASE onRetryTimer
    <3>1. startPolling(FALSE) /\ restarts' = restarts /\ UNCHANGED <<backstop, leftover>>
      BY <2>1 DEF onRetryTimer, timerVars
    <3> QED
      BY <3>1, Parts, StartPollingInv DEF IInv
  <2>2. CASE onRestartTimer
    <3>1. /\ startPolling(retry) /\ restarts > 0 /\ restarts' = restarts - 1
          /\ UNCHANGED <<backstop, leftover>>
      BY <2>2 DEF onRestartTimer
    <3>2. restarts' \in 0..MaxTimers
      BY <3>1, Parts, LifecycleAssumption
    <3> QED
      BY <3>1, <3>2, Parts, StartPollingInv DEF IInv
  <2> QED
    BY <2>1, <2>2
<1>3. UNCHANGED <<sensors, waiting, deadline>>
  BY DEF onRetryTimer, onRestartTimer, testerVars
<1> QED
  BY <1>1, <1>2, <1>3 DEF IInv, WaitsForStop

LEMMA BackstopInv == ASSUME IInv, onBackstop PROVE IInv'
<1>1. backstop' \in BOOLEAN /\ leftover' \in 0..MaxTimers
  <2>1. CASE backstop' = FALSE /\ UNCHANGED leftover
    BY <2>1, Parts
  <2>2. CASE leftover > 0 /\ leftover' = leftover - 1 /\ UNCHANGED backstop
    <3>1. leftover' \in 0..MaxTimers
      BY <2>2, Parts, LifecycleAssumption
    <3> QED
      BY <2>2, <3>1, Parts
  <2> QED
    BY <2>1, <2>2 DEF onBackstop
<1>2. stopping => pending > 0
  BY DEF IInv, MonitorInv, StopBounded
<1>3. CASE stopping
  <2>1. finalizeStop(inbox)
    BY <1>2, <1>3 DEF onBackstop
  <2>2. MonitorInv' /\ ~stopping'
    BY <1>1, <2>1, FinalizeInv DEF IInv
  <2>3. announceStopped(inbox) /\ UNCHANGED <<sensors, wasRunning, connected, owner>>
    BY <2>1 DEF finalizeStop
  <2>4. TesterInv' /\ waiting' = FALSE
    BY <2>3, Parts, AnnounceInv DEF IInv, TesterInv, ConnectInv
  <2> QED
    BY <2>2, <2>3, <2>4 DEF IInv, WaitsForStop
<1>4. CASE ~stopping
  <2>1. UNCHANGED <<stopVars, retry, errors, sensors, restarts, testerVars, thread,
                    inbox, calls, owner>>
    BY <1>4 DEF onBackstop
  <2>2. TesterInv'
    BY <2>1, TesterSame DEF IInv
  <2>3. MonitorInv'
    <3>1. MonitorType'
      BY <1>1, <2>1 DEF IInv, MonitorInv, MonitorType, stopVars
    <3>2. OneSession'
      BY <2>1 DEF IInv, MonitorInv, OneSession, stopVars
    <3>3. StopBounded'
      BY <1>4, <2>1 DEF StopBounded, stopVars
    <3> QED
      BY <3>1, <3>2, <3>3 DEF MonitorInv
  <2> QED
    BY <2>1, <2>2, <2>3 DEF IInv, WaitsForStop, testerVars, stopVars
<1> QED
  BY <1>3, <1>4

LEMMA WatchdogInv == ASSUME IInv, checkWatchdog PROVE IInv'
<1>1. MonitorInv'
  BY Parts, ScheduleRetryInv DEF checkWatchdog, IInv
<1>2. TesterInv'
  BY TesterSame DEF checkWatchdog, IInv
<1>3. ~waiting /\ UNCHANGED <<waiting, sensors>>
  BY Parts DEF checkWatchdog, testerVars
<1> QED
  BY <1>1, <1>2, <1>3 DEF IInv, WaitsForStop

LEMMA RefreshInv == ASSUME IInv, refreshSensors PROVE IInv'
<1>1. MonitorInv' /\ (stopping => stopping')
  <2>1. CASE stopPollingWithIntent("restart")
    BY <2>1, Parts, StopPollingInv DEF refreshSensors, IInv
  <2>2. CASE UNCHANGED <<stopVars, retry, thread, backstop, leftover>>
    BY <2>2, Parts, MonitorSame DEF refreshSensors, IInv, stopVars
  <2> QED
    BY <2>1, <2>2 DEF refreshSensors
<1>2. TesterInv'
  BY TesterSame DEF refreshSensors, IInv
<1>3. sensors' \in BOOLEAN
  BY DEF refreshSensors, IInv
<1>4. UNCHANGED <<waiting, deadline>>
  BY DEF refreshSensors, testerVars
<1> QED
  BY <1>1, <1>2, <1>3, <1>4 DEF IInv, WaitsForStop

LEMMA ConnectPauseInv == ASSUME IInv, connectWithMonitorPause PROVE IInv'
<1>1. MonitorInv' /\ UNCHANGED polling /\ (polling => stopping')
  <2>1. CASE stopPollingWithIntent("nothing")
    BY <2>1, Parts, StopPollingInv DEF connectWithMonitorPause, IInv
  <2>2. CASE polling /\ stopping /\ UNCHANGED <<stopVars, retry, thread, backstop, leftover>>
    BY <2>2, Parts, MonitorSame DEF connectWithMonitorPause, IInv, stopVars
  <2> QED
    BY <2>1, <2>2 DEF connectWithMonitorPause
<1>2. polling \in BOOLEAN /\ retry \in BOOLEAN
  BY DEF IInv, MonitorInv, MonitorType
<1>3. /\ ~connected /\ ~connecting /\ NoResult(inbox) /\ NoConnect(calls)
      /\ owner # "tester" /\ OneConnect(calls) /\ ~Disconnects(inbox)
  <2>1. ~connected /\ ~connecting /\ inbox \in Seq(Kinds)
    BY Parts DEF connectWithMonitorPause
  <2>2. NoResult(inbox) /\ NoConnect(calls) /\ owner # "tester" /\ OneConnect(calls)
    BY <2>1 DEF IInv, TesterInv, ConnectInv
  <2> QED
    BY <2>1, <2>2, QuietQueue
<1>4. /\ waiting' = polling /\ deadline' = polling /\ resumeDue' = FALSE
      /\ wasRunning' = (wasRunning \/ polling \/ retry)
      /\ UNCHANGED <<sensors, connected, inbox, owner>>
  BY DEF connectWithMonitorPause
<1>5. CASE polling
  <2>1. UNCHANGED <<connecting, calls>>
    BY <1>5 DEF connectWithMonitorPause
  <2>2. TesterType' /\ QueueType'
    BY <1>2, <1>4, <2>1 DEF IInv, TesterInv, TesterType, QueueType
  <2>3. ConnectInv'
    BY <1>3, <1>4, <2>1 DEF IInv, TesterInv, ConnectInv
  <2>4. WaitsForStop'
    BY <1>1, <1>4, <1>5 DEF WaitsForStop
  <2> QED
    BY <1>1, <1>4, <2>2, <2>3, <2>4 DEF IInv, TesterInv
<1>6. CASE ~polling
  <2>1. connecting' = TRUE /\ calls' = Append(calls, "connect")
    BY <1>6 DEF connectWithMonitorPause, connectSerial
  <2>2. calls' \in Seq(Calls) /\ OneConnect(calls')
    BY <1>3, <2>1, Parts, QueuedCall DEF Calls
  <2>3. TesterType'
    BY <1>2, <1>4, <2>1 DEF IInv, TesterInv, TesterType
  <2>4. QueueType'
    BY <1>4, <2>2 DEF IInv, TesterInv, QueueType
  <2>5. ~waiting'
    BY <1>4, <1>6
  <2>6. ConnectInv'
    BY <1>3, <1>4, <2>1, <2>2, <2>5 DEF IInv, TesterInv, ConnectInv
  <2> QED
    BY <1>1, <1>4, <2>3, <2>4, <2>5, <2>6 DEF IInv, TesterInv, WaitsForStop
<1> QED
  BY <1>5, <1>6

LEMMA DisconnectInv == ASSUME IInv, disconnectSerial PROVE IInv'
<1>1. UNCHANGED <<sensors, timerVars, connected, inbox, owner>>
  BY DEF disconnectSerial
<1>2. TesterType
  BY DEF IInv, TesterInv
<1>3. CASE waiting
  <2>1. /\ waiting' = FALSE /\ deadline' = FALSE /\ connecting' = FALSE
        /\ resumeMonitorIfNeeded /\ UNCHANGED calls
    BY <1>3 DEF disconnectSerial
  <2>2. MonitorInv' /\ wasRunning' \in BOOLEAN /\ resumeDue' \in BOOLEAN
    BY <1>1, <1>2, <2>1, ResumeMonitorInv DEF IInv, TesterType
  <2>3. TesterType' /\ QueueType'
    BY <1>1, <1>2, <2>1, <2>2 DEF IInv, TesterInv, TesterType, QueueType
  <2>4. ConnectInv'
    <3>1. ~connecting /\ ~connected
      BY <1>3 DEF IInv, TesterInv, ConnectInv
    <3> QED
      BY <1>1, <2>1, <3>1 DEF IInv, TesterInv, ConnectInv
  <2> QED
    BY <1>1, <2>1, <2>2, <2>3, <2>4 DEF IInv, TesterInv, WaitsForStop
<1>4. CASE ~waiting
  <2>1. /\ calls' = Append(calls, "disconnect")
        /\ UNCHANGED <<stopVars, retry, errors, thread, testerVars>>
    BY <1>4 DEF disconnectSerial
  <2>2. /\ calls' \in Seq(Calls) /\ OneConnect(calls')
        /\ NoConnect(calls) <=> NoConnect(calls')
    BY <2>1, Parts, QueuedCall DEF Calls, IInv, TesterInv, ConnectInv
  <2>3. TesterType' /\ QueueType'
    BY <1>1, <2>1, <2>2 DEF IInv, TesterInv, TesterType, QueueType, testerVars
  <2>4. ConnectInv'
    BY <1>1, <2>1, <2>2 DEF IInv, TesterInv, ConnectInv, testerVars
  <2>5. MonitorInv'
    BY <1>1, <2>1, Parts, MonitorSame DEF IInv, stopVars, timerVars
  <2> QED
    BY <1>1, <2>1, <2>3, <2>4, <2>5 DEF IInv, TesterInv, WaitsForStop, testerVars, stopVars
<1> QED
  BY <1>3, <1>4

LEMMA ConnectTimeoutInv == ASSUME IInv, onConnectTimeout PROVE IInv'
<1>1. UNCHANGED <<sensors, timerVars, connected, inbox, calls, owner>> /\ deadline' = FALSE
  BY DEF onConnectTimeout
<1>2. TesterType
  BY DEF IInv, TesterInv
<1>3. CASE waiting
  <2>1. /\ waiting' = FALSE /\ connecting' = FALSE /\ resumeMonitorIfNeeded
    BY <1>3 DEF onConnectTimeout
  <2>2. MonitorInv' /\ wasRunning' \in BOOLEAN /\ resumeDue' \in BOOLEAN
    BY <1>1, <1>2, <2>1, ResumeMonitorInv DEF IInv, TesterType
  <2>3. TesterType' /\ QueueType'
    BY <1>1, <1>2, <2>1, <2>2 DEF IInv, TesterInv, TesterType, QueueType
  <2>4. ConnectInv'
    <3>1. ~connecting /\ ~connected
      BY <1>3 DEF IInv, TesterInv, ConnectInv
    <3> QED
      BY <1>1, <2>1, <3>1 DEF IInv, TesterInv, ConnectInv
  <2> QED
    BY <1>1, <2>1, <2>2, <2>3, <2>4 DEF IInv, TesterInv, WaitsForStop
<1>4. CASE ~waiting
  <2>1. UNCHANGED <<stopVars, retry, errors, thread, waiting, connecting, wasRunning,
                    resumeDue>>
    BY <1>4 DEF onConnectTimeout
  <2>2. TesterType' /\ QueueType'
    BY <1>1, <1>2, <2>1 DEF IInv, TesterInv, TesterType, QueueType
  <2>3. ConnectInv'
    BY <1>1, <2>1 DEF IInv, TesterInv, ConnectInv
  <2>4. MonitorInv'
    BY <1>1, <2>1, Parts, MonitorSame DEF IInv, stopVars, timerVars
  <2> QED
    BY <1>1, <1>4, <2>1, <2>2, <2>3, <2>4 DEF IInv, TesterInv, WaitsForStop
<1> QED
  BY <1>3, <1>4

(***************************************************************************)
(* The events of the main thread's queue.                                  *)
(***************************************************************************)
\* A handler that leaves the tester alone.
LEMMA EventInv ==
  ASSUME IInv, inbox # <<>>, inbox' = Tail(inbox),
         UNCHANGED <<sensors, testerVars, calls, owner>>,
         MonitorInv', stopping => stopping'
  PROVE  IInv'
<1>1. TesterType'
  BY DEF IInv, TesterInv, TesterType, testerVars
<1>2. TesterInv'
  BY <1>1, EventHandled DEF IInv, testerVars
<1> QED
  BY <1>2 DEF IInv, WaitsForStop, testerVars

LEMMA ModbusEventsInv ==
  ASSUME IInv, onModbusError \/ onDataReady \/ onModbusStopped
  PROVE  IInv'
<1>1. /\ inbox # <<>> /\ inbox' = Tail(inbox)
      /\ UNCHANGED <<sensors, restarts, testerVars, calls, owner>>
  BY DEF onModbusError, onDataReady, onModbusStopped, Delivered, timerVars
<1>2. errors' \in 0..MaxErrors
  <2>1. AtMost(errors + 1, MaxErrors) \in 0..MaxErrors /\ 0 \in 0..MaxErrors
    BY Parts, LifecycleAssumption DEF AtMost
  <2> QED
    BY <2>1, Parts DEF onModbusError, onDataReady, onModbusStopped
<1>3. CASE ~stopping /\ scheduleRetry
  BY <1>1, <1>2, <1>3, Parts, ScheduleRetryInv, EventInv DEF IInv
<1>4. CASE UNCHANGED <<stopVars, retry, thread, backstop, leftover>>
  <2>1. MonitorInv'
    BY <1>1, <1>2, <1>4, Parts, MonitorSame DEF IInv, stopVars
  <2> QED
    BY <1>1, <1>4, <2>1, EventInv DEF stopVars
<1> QED
  BY <1>3, <1>4 DEF onModbusError, onDataReady, onModbusStopped, timerVars

LEMMA AsyncStoppedInv == ASSUME IInv, onWorkerAsyncStopped PROVE IInv'
<1>1. inbox # <<>> /\ UNCHANGED <<backstop, leftover>>
  BY DEF onWorkerAsyncStopped, Delivered
<1>2. CASE stopping /\ pending = 1
  <2>1. finalizeStop(Tail(inbox))
    BY <1>2 DEF onWorkerAsyncStopped
  <2>2. MonitorInv' /\ ~stopping'
    BY <1>1, <2>1, Parts, FinalizeInv DEF IInv
  <2>3. /\ announceStopped(Tail(inbox))
        /\ UNCHANGED <<sensors, wasRunning, connected, owner>>
    BY <2>1 DEF finalizeStop
  <2>4. DisconnectsLast(inbox)
    BY DEF IInv, TesterInv, ConnectInv
  <2>5. /\ Tail(inbox) \in Seq(Kinds) /\ DisconnectsLast(Tail(inbox))
        /\ NoResult(inbox) => NoResult(Tail(inbox))
        /\ Disconnects(Tail(inbox)) => Disconnects(inbox)
    BY <1>1, <2>4, Parts, HandledEvent
  <2>6. TesterInv' /\ waiting' = FALSE
    BY <2>3, <2>5, AnnounceInv DEF IInv
  <2> QED
    BY <2>2, <2>3, <2>6 DEF IInv, WaitsForStop
<1>3. CASE ~(stopping /\ pending = 1)
  <2>1. /\ pending' = stopsLeft /\ inbox' = Tail(inbox)
        /\ UNCHANGED <<polling, stopping, afterStop, current, retry, errors, sensors,
                       restarts, testerVars, thread, calls, owner>>
    BY <1>3 DEF onWorkerAsyncStopped
  <2>2. pending' \in 0..2 /\ (stopping => pending' > 0)
    <3>1. pending \in 0..2 /\ (stopping => pending > 0)
      BY DEF IInv, MonitorInv, MonitorType, StopBounded
    <3> QED
      BY <1>3, <2>1, <3>1 DEF stopsLeft
  <2>3. MonitorType'
    BY <1>1, <2>1, <2>2 DEF IInv, MonitorInv, MonitorType
  <2>4. OneSession'
    BY <2>1 DEF IInv, MonitorInv, OneSession
  <2>5. StopBounded'
    BY <1>1, <2>1, <2>2 DEF IInv, MonitorInv, StopBounded
  <2> QED
    BY <1>1, <2>1, <2>3, <2>4, <2>5, EventInv DEF MonitorInv
<1> QED
  BY <1>2, <1>3

LEMMA ResumeInv == ASSUME IInv, onResume PROVE IInv'
<1>1. /\ inbox # <<>> /\ inbox' = Tail(inbox) /\ resumeMonitorIfNeeded
      /\ UNCHANGED <<sensors, timerVars, waiting, deadline, connecting, connected,
                     calls, owner>>
  BY DEF onResume, Delivered
<1>2. /\ MonitorInv' /\ UNCHANGED stopping
      /\ wasRunning' \in BOOLEAN /\ resumeDue' \in BOOLEAN
  BY <1>1, ResumeMonitorInv DEF IInv, TesterInv, TesterType
<1>3. TesterType'
  BY <1>1, <1>2 DEF IInv, TesterInv, TesterType
<1>4. TesterInv'
  BY <1>1, <1>3, EventHandled DEF IInv
<1> QED
  BY <1>1, <1>2, <1>4 DEF IInv, WaitsForStop

LEMMA ResultInv ==
  ASSUME IInv, NEW ok \in BOOLEAN, onConnectionResult(ok)
  PROVE  IInv'
<1>1. /\ inbox # <<>> /\ inbox' = Tail(inbox)
      /\ connected' = ok /\ connecting' = FALSE /\ deadline' = FALSE
      /\ UNCHANGED <<sensors, timerVars, waiting, calls, owner>>
  BY DEF onConnectionResult, Delivered
<1>2. /\ Head(inbox) \in Results
      /\ ~ok => Head(inbox) = "disconnected"
  BY DEF onConnectionResult, Delivered, Results
<1>3. inbox \in Seq(Kinds) /\ DisconnectsLast(inbox) /\ OneConnect(calls)
  BY Parts DEF IInv, TesterInv, ConnectInv
<1>4. /\ Tail(inbox) \in Seq(Kinds) /\ DisconnectsLast(Tail(inbox)) /\ ~NoResult(inbox)
      /\ Disconnects(Tail(inbox)) => Disconnects(inbox)
      /\ ~ok => Disconnects(inbox) /\ NoResult(Tail(inbox))
  BY <1>1, <1>2, <1>3, HandledEvent
<1>5. ~waiting /\ NoConnect(calls)
  BY <1>4 DEF IInv, TesterInv, ConnectInv
<1>6. MonitorInv' /\ wasRunning' \in BOOLEAN /\ resumeDue' \in BOOLEAN
  <2>0. wasRunning \in BOOLEAN /\ resumeDue \in BOOLEAN
    BY DEF IInv, TesterInv, TesterType
  <2>1. CASE UNCHANGED <<stopVars, retry, errors, thread, wasRunning, resumeDue>>
    BY <1>1, <2>0, <2>1, Parts, MonitorSame DEF IInv, stopVars, timerVars
  <2>2. CASE resumeMonitorIfNeeded
    BY <1>1, <2>0, <2>2, ResumeMonitorInv DEF IInv
  <2> QED
    BY <2>1, <2>2 DEF onConnectionResult
<1>7. TesterType' /\ QueueType'
  BY <1>1, <1>4, <1>6 DEF IInv, TesterInv, TesterType, QueueType
<1>8. ConnectInv'
  <2>1. CASE ok
    BY <1>1, <1>3, <1>4, <1>5, <2>1 DEF IInv, TesterInv, ConnectInv
  <2>2. CASE ~ok
    BY <1>1, <1>3, <1>4, <1>5, <2>2 DEF IInv, TesterInv, ConnectInv
  <2> QED
    BY <2>1, <2>2
<1> QED
  BY <1>1, <1>5, <1>6, <1>7, <1>8 DEF IInv, TesterInv, WaitsForStop

(***************************************************************************)
(* The other threads.                                                      *)
(***************************************************************************)
\* A step that leaves the main thread's variables alone.
LEMMA ThreadStepInv ==
  ASSUME IInv, UNCHANGED <<sensors, testerVars, stopping>>, MonitorInv', TesterInv'
  PROVE  IInv'
BY DEF IInv, WaitsForStop, testerVars

LEMMA MonitorIdle ==
  ASSUME IInv, UNCHANGED <<monitorVars, thread>>
  PROVE  MonitorInv' /\ UNCHANGED <<sensors, stopping>>
BY Parts, MonitorSame DEF IInv, monitorVars, stopVars, timerVars

LEMMA DoConnectInv == ASSUME IInv, doConnect PROVE IInv'
<1>1. /\ calls # <<>> /\ Head(calls) = "connect" /\ calls' = Tail(calls)
      /\ UNCHANGED <<monitorVars, testerVars, thread>>
  BY DEF doConnect
<1>2. inbox \in Seq(Kinds) /\ calls \in Seq(Calls) /\ OneConnect(calls)
  BY Parts DEF IInv, TesterInv, ConnectInv
<1>3. /\ calls' \in Seq(Calls) /\ OneConnect(calls') /\ NoConnect(calls')
      /\ ~NoConnect(calls)
  BY <1>1, <1>2, HandledCall
<1>4. connecting /\ NoResult(inbox) /\ owner # "tester" /\ ~waiting
  BY <1>3 DEF IInv, TesterInv, ConnectInv
<1>5. PICK r \in Results :
        /\ inbox' = inbox \o <<r>>
        /\ r = "disconnected" => owner' # "tester"
        /\ owner' = owner \/ owner' = "tester"
  BY <1>4 DEF doConnect, Post, Results
<1>6. /\ inbox' \in Seq(Kinds) /\ DisconnectsLast(inbox')
      /\ Disconnects(inbox') => r = "disconnected"
  BY <1>2, <1>4, <1>5, QuietQueue, SentResult
<1>7. TesterType' /\ QueueType'
  BY <1>1, <1>3, <1>5, <1>6 DEF IInv, TesterInv, TesterType, QueueType, testerVars
<1>8. ConnectInv'
  BY <1>1, <1>3, <1>4, <1>5, <1>6 DEF ConnectInv, testerVars
<1> QED
  BY <1>1, <1>7, <1>8, MonitorIdle, ThreadStepInv DEF TesterInv

LEMMA DoDisconnectInv == ASSUME IInv, doDisconnect PROVE IInv'
<1>1. /\ calls # <<>> /\ Head(calls) = "disconnect" /\ calls' = Tail(calls)
      /\ UNCHANGED <<monitorVars, testerVars, thread>>
  BY DEF doDisconnect
<1>2. /\ inbox \in Seq(Kinds) /\ calls \in Seq(Calls) /\ OneConnect(calls)
      /\ ConnectInv /\ TesterType /\ QueueType
  BY Parts DEF IInv, TesterInv, ConnectInv
<1>3. /\ calls' \in Seq(Calls) /\ OneConnect(calls')
      /\ NoConnect(calls) => NoConnect(calls')
  BY <1>1, <1>2, HandledCall
<1>4. CASE owner = "tester"
  <2>1. owner' = "none" /\ inbox' = inbox \o <<"disconnected">>
    BY <1>4 DEF doDisconnect, Post
  <2>2. /\ connecting \/ connected
        /\ ~waiting /\ NoConnect(calls) /\ ~Disconnects(inbox)
    BY <1>2, <1>4 DEF ConnectInv
  <2>3. inbox' \in Seq(Kinds) /\ DisconnectsLast(inbox')
    BY <1>2, <2>1, <2>2, SentResult DEF Results
  <2>4. TesterType' /\ QueueType'
    BY <1>1, <1>2, <1>3, <2>1, <2>3 DEF TesterType, QueueType, testerVars
  <2>5. ConnectInv'
    BY <1>1, <1>2, <1>3, <2>1, <2>2, <2>3 DEF ConnectInv, testerVars
  <2> QED
    BY <1>1, <2>4, <2>5, MonitorIdle, ThreadStepInv DEF TesterInv
<1>5. CASE owner # "tester"
  <2>1. UNCHANGED <<owner, inbox>>
    BY <1>5 DEF doDisconnect
  <2>2. TesterType' /\ QueueType'
    BY <1>1, <1>2, <1>3, <2>1 DEF TesterType, QueueType, testerVars
  <2>3. ConnectInv'
    BY <1>1, <1>2, <1>3, <2>1 DEF ConnectInv, testerVars
  <2> QED
    BY <1>1, <2>2, <2>3, MonitorIdle, ThreadStepInv DEF TesterInv
<1> QED
  BY <1>4, <1>5

LEMMA PortInv ==
  ASSUME IInv, NEW s \in Sessions, takePort(s) \/ releasePort(s)
  PROVE  IInv'
<1>1. /\ UNCHANGED <<monitorVars, testerVars, thread, inbox, calls>>
      /\ owner' \in Sessions \cup {"none"}
  BY DEF takePort, releasePort
<1>2. TesterInv'
  <2>1. <<>> \in Seq(Kinds) /\ NoResult(<<>>)
    BY DEF NoResult
  <2>2. inbox' = inbox \o <<>>
    BY <1>1, Parts
  <2> QED
    BY <1>1, <2>1, <2>2, EventsSent DEF IInv
<1> QED
  BY <1>1, <1>2, MonitorIdle, ThreadStepInv

LEMMA ReportInv == ASSUME IInv, NEW s \in Sessions, report(s) PROVE IInv'
<1>1. PICK k \in {"error", "data"} : inbox' = inbox \o <<k>>
  BY DEF report, Post
<1>2. <<k>> \in Seq(Kinds) /\ NoResult(<<k>>)
  BY DEF Kinds, NoResult, Results
<1>3. UNCHANGED <<monitorVars, testerVars, thread, calls, owner>>
  BY DEF report
<1>4. TesterInv'
  BY <1>1, <1>2, <1>3, EventsSent DEF IInv
<1> QED
  BY <1>3, <1>4, MonitorIdle, ThreadStepInv

LEMMA WorkerEndsInv ==
  ASSUME IInv, NEW w \in Workers, stopWorker(w) \/ endThread(w)
  PROVE  IInv'
<1>1. /\ thread[w] \in {"asked", "quit"} /\ thread' = [thread EXCEPT ![w] = "off"]
      /\ UNCHANGED <<monitorVars, testerVars, calls>>
      /\ owner' = owner \/ owner' = "none"
  BY DEF stopWorker, endThread, Leaves
<1>2. MonitorInv' /\ UNCHANGED <<sensors, stopping>>
  BY <1>1, ThreadOffInv DEF IInv, monitorVars, stopVars
<1>3. PICK e \in Seq(Kinds) : NoResult(e) /\ inbox' = inbox \o e
  <2>1. CASE endThread(w)
    <3>1. <<>> \in Seq(Kinds) /\ NoResult(<<>>) /\ inbox' = inbox \o <<>>
      BY <2>1, Parts DEF endThread, NoResult
    <3> QED
      BY <3>1
  <2>2. ASSUME NEW signal \in stoppedSignal,
               Post(IF w[2] = "modbus" THEN <<"modbusStopped">> \o signal ELSE signal)
        PROVE  \E e \in Seq(Kinds) : NoResult(e) /\ inbox' = inbox \o e
    <3>1. signal \in Seq(Kinds) /\ NoResult(signal)
      <4>1. signal = <<>> \/ signal = <<"asyncStopped">>
        BY DEF stoppedSignal
      <4>2. CASE signal = <<>>
        BY <4>2 DEF NoResult
      <4>3. CASE signal = <<"asyncStopped">>
        BY <4>3 DEF NoResult, Kinds, Results
      <4> QED
        BY <4>1, <4>2, <4>3
    <3>2. <<"modbusStopped">> \in Seq(Kinds) /\ NoResult(<<"modbusStopped">>)
      BY DEF NoResult, Kinds, Results
    <3>3. <<"modbusStopped">> \o signal \in Seq(Kinds) /\ NoResult(<<"modbusStopped">> \o signal)
      BY <3>1, <3>2, SentQuietly
    <3> QED
      BY <2>2, <3>1, <3>3 DEF Post
  <2> QED
    BY <2>1, <2>2 DEF stopWorker
<1>4. TesterInv'
  BY <1>1, <1>3, EventsSent DEF IInv
<1> QED
  BY <1>1, <1>2, <1>4, ThreadStepInv
-----------------------------------------------------------------------------
THEOREM LifecycleStep == IInv /\ [Next]_vars => IInv'
<1> SUFFICES ASSUME IInv, [Next]_vars PROVE IInv'
  OBVIOUS
<1>1. CASE dispatch
  BY <1>1, ModbusEventsInv, AsyncStoppedInv, ResumeInv, ResultInv DEF dispatch
<1>2. CASE timers
  BY <1>2, StartTimersInv, BackstopInv, ConnectTimeoutInv DEF timers
<1>3. CASE checkWatchdog
  BY <1>3, WatchdogInv
<1>4. CASE user
  BY <1>4, RefreshInv, ConnectPauseInv, DisconnectInv DEF user
<1>5. CASE testerWorker
  BY <1>5, DoConnectInv, DoDisconnectInv DEF testerWorker
<1>6. CASE \E s \in Sessions : takePort(s) \/ releasePort(s) \/ report(s)
  BY <1>6, PortInv, ReportInv
<1>7. CASE \E w \in Workers : stopWorker(w) \/ endThread(w)
  BY <1>7, WorkerEndsInv
<1>8. CASE UNCHANGED vars
  <2>1. TesterInv'
    BY <1>8, TesterSame DEF vars, IInv
  <2> QED
    BY <1>8, <2>1, MonitorIdle, ThreadStepInv DEF vars, monitorVars, stopVars
<1> QED
  BY <1>1, <1>2, <1>3, <1>4, <1>5, <1>6, <1>7, <1>8 DEF Next

(***************************************************************************)
(* The inductive invariant of the lifecycle.                               *)
(***************************************************************************)
THEOREM LifecycleInvariant == Spec => []IInv
BY InitInv, LifecycleStep, PTL DEF Spec

(***************************************************************************)
(* Type correctness, for any sessions and bounds: the count of awaited     *)
(* signals in particular never leaves 0..2, whatever signals are late.     *)
(***************************************************************************)
THEOREM LifecycleTypeCorrect == Spec => []TypeOK
<1>1. IInv => TypeOK
  BY RolesCount DEF IInv, MonitorInv, MonitorType, TesterInv, TesterType, QueueType,
     Calls, TypeOK
<1> QED
  BY <1>1, LifecycleInvariant, PTL

(***************************************************************************)
(* However many sessions were abandoned, only the threads of the current   *)
(* one have not been told to quit (startPolling, finalizeStop).            *)
(***************************************************************************)
THEOREM LifecycleOneSession == Spec => []OneSession
BY LifecycleInvariant, PTL DEF IInv, MonitorInv

(***************************************************************************)
(* stopPollingWithIntent always leaves a backstop that will find the stop  *)
(* unfinished, so that finalizeStop runs although no worker answers.       *)
(***************************************************************************)
THEOREM LifecycleStopBounded == Spec => []StopBounded
BY LifecycleInvariant, PTL DEF IInv, MonitorInv

(***************************************************************************)
(* The tester's wait in connectWithMonitorPause is always for a stop that  *)
(* is under way, and bounded by m_connectTimeout.                          *)
(***************************************************************************)
THEOREM LifecycleWaitsForStop == Spec => []WaitsForStop
BY LifecycleInvariant, PTL DEF IInv
-----------------------------------------------------------------------------
(***************************************************************************)
(* Stops without hangs: what the signals in the queue say.  A worker whose  *)
(* signal was lost is counted as answered once its thread has ended.       *)
(***************************************************************************)
LEMMA NoSignal == \A q : Signals(q, 0) <=> Signalled(q) = {}
BY DEF Signals

LEMMA OneSignal == \A q : Signals(q, 1) <=> \E i : Signalled(q) = {i}
BY DEF Signals

LEMMA TwoSignals == \A q : Signals(q, 2) <=> \E i, j : i # j /\ Signalled(q) = {i, j}
<1> TAKE q
<1>1. ASSUME NEW i, NEW j, i # j, Signalled(q) = {i, j} PROVE Signals(q, 2)
  <2>1. i \in Signalled(q) /\ j \in Signalled(q)
    BY <1>1
  <2> QED
    BY <1>1, <2>1 DEF Signals
<1>2. Signals(q, 2) => \E i, j : i # j /\ Signalled(q) = {i, j}
  <2>1. 2 # 0 /\ 2 # 1
    OBVIOUS
  <2> QED
    BY <2>1, Zenon DEF Signals
<1> QED
  BY <1>1, <1>2

LEMMA SignalHandled ==
  ASSUME NEW q \in Seq(Kinds), NEW n \in 0..2, q # <<>>, Signals(q, n)
  PROVE  /\ Head(q) # "asyncStopped" => Signals(Tail(q), n)
         /\ Head(q) = "asyncStopped" => n > 0 /\ Signals(Tail(q), n - 1)
<1>1. /\ Len(q) \in Nat \ {0} /\ Len(Tail(q)) = Len(q) - 1 /\ Head(q) = q[1]
      /\ \A i \in 1..Len(Tail(q)) : Tail(q)[i] = q[i + 1] /\ i + 1 \in 1..Len(q)
      /\ \A i \in 1..Len(q) : i # 1 => i - 1 \in 1..Len(Tail(q))
  OBVIOUS
<1>2. Signalled(q) \subseteq Int /\ Signalled(Tail(q)) \subseteq Int
  BY DEF Signalled
<1>3. \A i \in Int : i \in Signalled(Tail(q)) <=> i + 1 \in Signalled(q) /\ i + 1 # 1
  BY <1>1 DEF Signalled
<1>4. 1 \in Signalled(q) <=> Head(q) = "asyncStopped"
  BY <1>1 DEF Signalled
<1>5. CASE Signalled(q) = {}
  <2>1. Signalled(Tail(q)) = {}
    BY <1>2, <1>3, <1>5
  <2> QED
    BY <1>4, <1>5, <2>1, NoSignal DEF Signals
<1>6. ASSUME NEW i, Signalled(q) = {i}, n = 1
      PROVE  /\ Head(q) # "asyncStopped" => Signals(Tail(q), n)
             /\ Head(q) = "asyncStopped" => n > 0 /\ Signals(Tail(q), n - 1)
  <2>1. i \in Int
    BY <1>2, <1>6
  <2>2. i = 1 => Signalled(Tail(q)) = {}
    BY <1>2, <1>3, <1>6, <2>1
  <2>3. i # 1 => Signalled(Tail(q)) = {i - 1}
    BY <1>2, <1>3, <1>6, <2>1
  <2>4. i = 1 => Signals(Tail(q), 0)
    BY <2>2, NoSignal
  <2>5. i # 1 => Signals(Tail(q), 1)
    BY <2>3, OneSignal
  <2> QED
    BY <1>4, <1>6, <2>4, <2>5
<1>7. ASSUME NEW i, NEW j, i # j, Signalled(q) = {i, j}, n = 2
      PROVE  /\ Head(q) # "asyncStopped" => Signals(Tail(q), n)
             /\ Head(q) = "asyncStopped" => n > 0 /\ Signals(Tail(q), n - 1)
  <2>1. i \in Int /\ j \in Int
    BY <1>2, <1>7
  <2>2. CASE i = 1
    <3>1. Signalled(Tail(q)) = {j - 1}
      BY <1>2, <1>3, <1>7, <2>1, <2>2
    <3>2. Signals(Tail(q), 1)
      BY <3>1, OneSignal
    <3> QED
      BY <1>4, <1>7, <2>2, <3>2
  <2>3. CASE j = 1
    <3>1. Signalled(Tail(q)) = {i - 1}
      BY <1>2, <1>3, <1>7, <2>1, <2>3
    <3>2. Signals(Tail(q), 1)
      BY <3>1, OneSignal
    <3> QED
      BY <1>4, <1>7, <2>3, <3>2
  <2>4. CASE i # 1 /\ j # 1
    <3>1. Signalled(Tail(q)) = {i - 1, j - 1} /\ i - 1 # j - 1
      BY <1>2, <1>3, <1>7, <2>1, <2>4
    <3>2. Signals(Tail(q), 2)
      BY <3>1, TwoSignals
    <3> QED
      BY <1>4, <1>7, <2>4, <3>2
  <2> QED
    BY <2>2, <2>3, <2>4
<1>8. n = 0 => Signalled(q) = {}
  BY DEF Signals
<1> QED
  BY <1>5, <1>6, <1>7, <1>8 DEF Signals

\* One more event at the end of the queue.
LEMMA SignalSent ==
  ASSUME NEW q \in Seq(Kinds), NEW e \in Kinds, NEW n \in 0..2, Signals(q, n)
  PROVE  /\ q \o <<e>> \in Seq(Kinds)
         /\ e # "asyncStopped" => Signals(q \o <<e>>, n)
         /\ e = "asyncStopped" /\ n < 2 => Signals(q \o <<e>>, n + 1)
<1> DEFINE t == q \o <<e>>
<1>1. /\ t \in Seq(Kinds) /\ Len(q) \in Nat /\ Len(t) = Len(q) + 1 /\ t[Len(q) + 1] = e
      /\ \A i \in 1..Len(q) : t[i] = q[i]
  OBVIOUS
<1> HIDE DEF t
<1>2. Signalled(t) = Signalled(q) \cup IF e = "asyncStopped" THEN {Len(q) + 1} ELSE {}
  <2>1. \A i \in 1..Len(t) : i \in 1..Len(q) \/ i = Len(q) + 1
    BY <1>1
  <2>2. Len(q) + 1 \in 1..Len(t) /\ 1..Len(q) \subseteq 1..Len(t)
    BY <1>1
  <2> QED
    BY <1>1, <2>1, <2>2 DEF Signalled
<1>3. Len(q) + 1 \notin Signalled(q)
  BY <1>1 DEF Signalled
<1>4. e # "asyncStopped" => Signals(t, n)
  BY <1>2 DEF Signals
<1>5. e = "asyncStopped" /\ n < 2 => Signals(t, n + 1)
  <2> SUFFICES ASSUME e = "asyncStopped", n < 2 PROVE Signals(t, n + 1)
    OBVIOUS
  <2>1. CASE n = 0
    BY <1>2, <2>1, OneSignal DEF Signals
  <2>2. CASE n = 1
    <3>1. PICK i : Signalled(q) = {i}
      BY <2>2, OneSignal
    <3>2. PICK k : k = Len(q) + 1
      OBVIOUS
    <3>3. Signalled(t) = {i, k} /\ i # k
      BY <1>2, <1>3, <3>1, <3>2
    <3>4. Signals(t, 2)
      BY <3>3, TwoSignals
    <3> QED
      BY <2>2, <3>4
  <2> QED
    BY <2>1, <2>2
<1> QED
  BY <1>1, <1>4, <1>5 DEF t

\* The same where some signals were lost.
LEMMA FewHandled ==
  ASSUME NEW q \in Seq(Kinds), NEW n \in 0..2, q # <<>>, Few(q, n)
  PROVE  /\ Head(q) # "asyncStopped" => Few(Tail(q), n)
         /\ Head(q) = "asyncStopped" => n > 0 /\ Few(Tail(q), n - 1)
<1>1. PICK m \in 0..2 : m <= n /\ Signals(q, m)
  BY DEF Few
<1>2. CASE Head(q) # "asyncStopped"
  <2>1. Signals(Tail(q), m)
    BY <1>1, <1>2, SignalHandled
  <2> QED
    BY <1>1, <1>2, <2>1 DEF Few
<1>3. CASE Head(q) = "asyncStopped"
  <2>1. m > 0 /\ Signals(Tail(q), m - 1)
    BY <1>1, <1>3, SignalHandled
  <2>2. m - 1 \in 0..2 /\ m - 1 <= n - 1 /\ n > 0
    BY <1>1, <2>1
  <2> QED
    BY <1>3, <2>1, <2>2 DEF Few
<1> QED
  BY <1>2, <1>3

LEMMA FewSent ==
  ASSUME NEW q \in Seq(Kinds), NEW e \in Kinds, NEW n \in 0..2, Few(q, n)
  PROVE  /\ q \o <<e>> \in Seq(Kinds)
         /\ e # "asyncStopped" => Few(q \o <<e>>, n)
         /\ e = "asyncStopped" /\ n < 2 => Few(q \o <<e>>, n + 1)
<1>1. PICK m \in 0..2 : m <= n /\ Signals(q, m)
  BY DEF Few
<1>2. q \o <<e>> \in Seq(Kinds)
  BY <1>1, SignalSent
<1>3. CASE e # "asyncStopped"
  <2>1. Signals(q \o <<e>>, m)
    BY <1>1, <1>3, SignalSent
  <2> QED
    BY <1>1, <1>2, <1>3, <2>1 DEF Few
<1>4. CASE e = "asyncStopped" /\ n < 2
  <2>1. m < 2 /\ m + 1 \in 0..2 /\ m + 1 <= n + 1
    BY <1>1, <1>4
  <2>2. Signals(q \o <<e>>, m + 1)
    BY <1>1, <1>4, <2>1, SignalSent
  <2> QED
    BY <1>2, <1>4, <2>1, <2>2 DEF Few
<1> QED
  BY <1>2, <1>3, <1>4

\* A signal that is not sent leaves room.
LEMMA FewLost == ASSUME NEW q, NEW n \in 0..1, Few(q, n) PROVE Few(q, n + 1)
BY DEF Few

LEMMA NoneLeft == \A q : Few(q, 0) <=> Signalled(q) = {}
<1> TAKE q
<1>1. ASSUME Few(q, 0) PROVE Signalled(q) = {}
  <2>1. PICK m \in 0..2 : m <= 0 /\ Signals(q, m)
    BY <1>1 DEF Few
  <2>2. m = 0
    BY <2>1
  <2> QED
    BY <2>1, <2>2, NoSignal
<1>2. ASSUME Signalled(q) = {} PROVE Few(q, 0)
  <2>1. Signals(q, 0)
    BY <1>2, NoSignal
  <2> QED
    BY <2>1 DEF Few
<1> QED
  BY <1>1, <1>2

LEMMA UnderwayRange ==
  ASSUME IInv, PromptInv
  PROVE  Underway \in 0..2
<1>1. pending \in 0..2
  BY DEF IInv, MonitorInv, MonitorType
<1>2. Asked("modbus") \in 0..1 /\ Asked("db") \in 0..1
  BY DEF Asked
<1>3. Underway \in Int /\ Underway <= 2
  BY <1>1, <1>2 DEF Underway
<1>4. \E m \in 0..2 : m <= Underway
  BY DEF PromptInv, Few
<1> QED
  BY <1>3, <1>4

\* The queue changes, but no worker's signal comes or goes.
Quietly ==
  \/ inbox' = inbox
  \/ \E k \in Kinds \ {"asyncStopped"} : inbox' = inbox \o <<k>>
  \/ inbox # <<>> /\ Head(inbox) # "asyncStopped" /\ inbox' = Tail(inbox)

LEMMA QuietSignals ==
  ASSUME IInv, Quietly, NEW n \in 0..2, Few(inbox, n)
  PROVE  Few(inbox', n)
<1>1. inbox \in Seq(Kinds)
  BY Parts
<1> QED
  BY <1>1, FewSent, FewHandled DEF Quietly

LEMMA PromptSame ==
  ASSUME IInv, PromptInv, Quietly, UNCHANGED <<stopping, pending, current, thread, leftover>>,
         \A s \in Sessions : owner' = s => Runs(s)
  PROVE  PromptInv'
<1>1. Underway' = Underway
  BY DEF Underway, Asked
<1>2. Few(inbox', Underway)
  BY UnderwayRange, QuietSignals DEF PromptInv
<1>3. Few(inbox, Underway)'
  BY <1>1, <1>2 DEF Few, Signals, Signalled
<1> QED
  BY <1>3 DEF PromptInv, Prompt, Runs

LEMMA StartPrompt ==
  ASSUME IInv, PromptInv, NEW retrying, startPolling(retrying), Quietly, UNCHANGED <<leftover, owner>>
  PROVE  PromptInv'
<1>1. CASE polling \/ ~sensors
  BY <1>1, PromptSame DEF startPolling, stopVars, PromptInv
<1>2. CASE ~polling /\ sensors
  <2>1. PICK s \in Sessions : startWorkerThreads(s)
    BY <1>2 DEF startPolling
  <2>2. /\ current' = s /\ UNCHANGED stopping
        /\ \A w \in Workers : thread'[w] = IF w[1] = s THEN "on" ELSE thread[w]
    BY <1>2, <2>1 DEF startPolling, startWorkerThreads
  <2>3. ~stopping /\ current = NoSession
    BY <1>2 DEF IInv, MonitorInv, OneSession
  <2>4. \A w \in Workers : thread[w] = "off"
    BY <2>3, LifecycleAssumption DEF PromptInv, Workers
  <2>5. \A v \in Sessions : owner # v
    BY <2>4 DEF PromptInv, Runs, Workers, Roles
  <2>6. Few(inbox', 0)
    BY <2>3, QuietSignals DEF PromptInv, Underway
  <2>7. Few(inbox, Underway)'
    BY <2>2, <2>3, <2>6 DEF Underway, Few, Signals, Signalled
  <2> QED
    BY <2>2, <2>4, <2>5, <2>7 DEF PromptInv, Prompt
<1> QED
  BY <1>1, <1>2

LEMMA StopPrompt ==
  ASSUME IInv, PromptInv, NEW intent, stopPollingWithIntent(intent), Quietly, UNCHANGED owner
  PROVE  PromptInv'
<1>1. CASE polling /\ ~stopping
  <2>1. /\ stopping' = TRUE /\ pending' = 2 /\ UNCHANGED <<current, leftover>>
        /\ thread' = [w \in Workers |-> IF w[1] = current THEN "asked" ELSE thread[w]]
    BY <1>1, RolesCount DEF stopPollingWithIntent, awaited, armBackstop, PromptInv, Prompt
  <2>2. current \in Sessions
    BY <1>1 DEF IInv, MonitorInv, MonitorType, OneSession
  <2>3. \A w \in Workers : thread'[w] = IF w[1] = current THEN "asked" ELSE "off"
    BY <2>1 DEF PromptInv
  <2>4. \A r \in Roles : <<current, r>> \in Workers
    BY <2>2 DEF Workers
  <2>5. \A r \in Roles : thread'[<<current, r>>] = "asked"
    BY <2>3, <2>4
  <2>6. Underway' = 0
    BY <2>1, <2>5 DEF Underway, Asked, Roles
  <2>7. Few(inbox', 0)
    BY <1>1, QuietSignals DEF PromptInv, Underway
  <2>8. Few(inbox, Underway)'
    BY <2>6, <2>7 DEF Few, Signals, Signalled
  <2>9. \A s \in Sessions : owner' = s => Runs(s)'
    <3>1. \A s \in Sessions : <<s, "modbus">> \in Workers
      BY DEF Workers, Roles
    <3>2. \A s \in Sessions : owner = s => s = current
      BY <3>1 DEF PromptInv, Runs
    <3> QED
      BY <2>5, <3>2 DEF Runs, Roles
  <2> QED
    BY <2>1, <2>3, <2>8, <2>9 DEF PromptInv, Prompt
<1>2. CASE ~(polling /\ ~stopping)
  BY <1>2, PromptSame DEF stopPollingWithIntent, stopVars, PromptInv
<1> QED
  BY <1>1, <1>2

LEMMA RetryPrompt ==
  ASSUME IInv, PromptInv, scheduleRetry, Quietly, UNCHANGED owner
  PROVE  PromptInv'
<1>1. CASE UNCHANGED <<stopVars, thread, leftover>>
  BY <1>1, PromptSame DEF stopVars, PromptInv
<1> QED
  BY <1>1, StopPrompt DEF scheduleRetry

LEMMA ResumePrompt ==
  ASSUME IInv, PromptInv, resumeMonitorIfNeeded, Quietly, UNCHANGED <<timerVars, owner>>
  PROVE  PromptInv'
<1>1. CASE UNCHANGED <<stopVars, thread>>
  BY <1>1, PromptSame DEF stopVars, timerVars, PromptInv
<1> QED
  BY <1>1, StartPrompt DEF resumeMonitorIfNeeded, timerVars

\* The last signal of a stop: no thread is left.
LEMMA LastSignal ==
  ASSUME IInv, PromptInv, onWorkerAsyncStopped
  PROVE  /\ stopping /\ Underway \in 1..2 /\ Few(Tail(inbox), Underway - 1)
         /\ pending = 1 => /\ Underway = 1
                           /\ \A w \in Workers : thread[w] = "off"
                           /\ \A s \in Sessions : owner # s
<1>1. inbox \in Seq(Kinds) /\ inbox # <<>> /\ Head(inbox) = "asyncStopped"
  BY Parts DEF onWorkerAsyncStopped, Delivered
<1>2. Underway \in 0..2 /\ Few(inbox, Underway)
  BY UnderwayRange DEF PromptInv
<1>3. Underway > 0 /\ Few(Tail(inbox), Underway - 1)
  BY <1>1, <1>2, FewHandled
<1>4. stopping
  BY <1>3 DEF Underway
<1>5. ASSUME pending = 1
      PROVE  /\ Underway = 1 /\ \A w \in Workers : thread[w] = "off"
             /\ \A s \in Sessions : owner # s
  <2>1. Asked("modbus") \in 0..1 /\ Asked("db") \in 0..1
    BY DEF Asked
  <2>2. Asked("modbus") = 0 /\ Asked("db") = 0 /\ Underway = 1
    BY <1>2, <1>3, <1>4, <1>5, <2>1 DEF Underway
  <2>3. ASSUME NEW w \in Workers PROVE thread[w] = "off"
    <3>1. CASE w[1] # current
      BY <3>1 DEF PromptInv
    <3>2. CASE w[1] = current
      <4>1. thread[w] \in {"asked", "off"}
        BY <1>4, <3>2 DEF IInv, MonitorInv, OneSession
      <4>2. w = <<current, "modbus">> \/ w = <<current, "db">>
        BY <3>2 DEF Workers, Roles
      <4> QED
        BY <2>2, <4>1, <4>2 DEF Asked
    <3> QED
      BY <3>1, <3>2
  <2>4. \A s \in Sessions : <<s, "modbus">> \in Workers
    BY DEF Workers, Roles
  <2> QED
    BY <2>2, <2>3, <2>4 DEF PromptInv, Runs
<1> QED
  BY <1>2, <1>3, <1>4, <1>5

\* A stop ends with its threads, and no signal of it is left.
LEMMA StopOver ==
  ASSUME IInv, PromptInv, NEW q \in Seq(Kinds), Few(q, 0), finalizeStop(q), UNCHANGED leftover,
         \A w \in Workers : thread[w] = "off", \A s \in Sessions : owner # s
  PROVE  PromptInv'
<1>1. /\ stopping' = FALSE /\ current' = NoSession
      /\ thread' = [w \in Workers |-> IF w[1] = current /\ thread[w] # "off" THEN "quit" ELSE thread[w]]
      /\ inbox' = q \o (IF resumeDue THEN <<"resume">> ELSE <<>>)
      /\ UNCHANGED owner
  BY DEF finalizeStop, announceStopped
<1>2. \A w \in Workers : thread'[w] = "off"
  BY <1>1
<1>3. Few(inbox', 0)
  <2>1. CASE resumeDue
    <3>1. inbox' = q \o <<"resume">> /\ "resume" \in Kinds
      BY <1>1, <2>1 DEF Kinds
    <3> QED
      BY <3>1, FewSent
  <2>2. CASE ~resumeDue
    <3>1. inbox' = q
      BY <1>1, <2>2
    <3> QED
      BY <3>1
  <2> QED
    BY <2>1, <2>2
<1>4. Few(inbox, Underway)'
  BY <1>1, <1>3 DEF Underway, Few, Signals, Signalled
<1> QED
  BY <1>1, <1>2, <1>4 DEF PromptInv, Prompt

\* The backstop of a stop whose workers have answered: signals were lost.
LEMMA LostSignal ==
  ASSUME IInv, PromptInv, stopping, answered
  PROVE  /\ \A w \in Workers : thread[w] = "off"
         /\ \A s \in Sessions : owner # s
         /\ Few(inbox, 0)
<1>1. ASSUME NEW w \in Workers PROVE thread[w] = "off"
  <2>1. CASE w[1] # current
    BY <2>1 DEF PromptInv
  <2>2. CASE w[1] = current
    <3>1. thread[w] \in {"asked", "off"}
      BY <2>2 DEF IInv, MonitorInv, OneSession
    <3> QED
      BY <3>1 DEF answered
  <2> QED
    BY <2>1, <2>2
<1>2. \A s \in Sessions : <<s, "modbus">> \in Workers
  BY DEF Workers, Roles
<1>3. Signalled(inbox) = {}
  BY DEF answered, Signalled
<1> QED
  BY <1>1, <1>2, <1>3, NoneLeft DEF PromptInv, Runs

LEMMA AsyncPrompt == ASSUME IInv, PromptInv, onWorkerAsyncStopped PROVE PromptInv'
<1>1. CASE pending = 1
  <2>1. finalizeStop(Tail(inbox)) /\ UNCHANGED leftover
    BY <1>1, LastSignal DEF onWorkerAsyncStopped
  <2>2. inbox \in Seq(Kinds) /\ inbox # <<>>
    BY Parts DEF onWorkerAsyncStopped, Delivered
  <2>3. PICK q : q = Tail(inbox)
    OBVIOUS
  <2>4. q \in Seq(Kinds) /\ Few(q, 0)
    BY <1>1, <2>2, <2>3, LastSignal
  <2> QED
    BY <1>1, <2>1, <2>3, <2>4, LastSignal, StopOver
<1>2. CASE pending # 1
  <2>1. /\ pending' = pending - 1 /\ inbox' = Tail(inbox)
        /\ UNCHANGED <<stopping, current, thread, owner, leftover>>
    <3>1. stopping /\ pending \in 0..2 /\ pending > 0
      BY LastSignal DEF IInv, MonitorInv, MonitorType, StopBounded
    <3> QED
      BY <1>2, <3>1 DEF onWorkerAsyncStopped, stopsLeft
  <2>2. Underway' = Underway - 1
    <3>1. pending \in Int /\ Asked("modbus") \in Int /\ Asked("db") \in Int
      BY DEF IInv, MonitorInv, MonitorType, Asked
    <3>2. Asked("modbus")' = Asked("modbus") /\ Asked("db")' = Asked("db")
      BY <2>1 DEF Asked
    <3>3. Underway' = pending' - Asked("modbus")' - Asked("db")'
      BY <2>1, LastSignal DEF Underway
    <3>4. Underway = pending - Asked("modbus") - Asked("db")
      BY LastSignal DEF Underway
    <3> QED
      BY <2>1, <3>1, <3>2, <3>3, <3>4
  <2>3. Few(inbox, Underway)'
    BY <2>1, <2>2, LastSignal DEF Few, Signals, Signalled
  <2> QED
    BY <2>1, <2>3 DEF PromptInv, Prompt, Runs
<1> QED
  BY <1>1, <1>2

\* Only workers of the stop under way have something to stop.
LEMMA WorkerPrompt ==
  ASSUME IInv, PromptInv, NEW w \in Workers, stopWorker(w) \/ endThread(w)
  PROVE  PromptInv'
<1>1. /\ thread[w] \in {"asked", "quit"} /\ thread' = [thread EXCEPT ![w] = "off"]
      /\ UNCHANGED <<stopping, pending, current, leftover>>
  BY DEF stopWorker, endThread, monitorVars, stopVars, timerVars
<1>2. w[1] = current /\ stopping /\ thread[w] = "asked"
  BY <1>1 DEF PromptInv, IInv, MonitorInv, OneSession
<1>3. stopWorker(w)
  BY <1>2 DEF endThread
<1>4. \A v \in Workers : thread'[v] = IF v = w THEN "off" ELSE thread[v]
  BY <1>1 DEF IInv, MonitorInv, MonitorType
<1>5. w = <<current, "modbus">> \/ w = <<current, "db">>
  BY <1>2 DEF Workers, Roles
<1>6. current \in Sessions /\ <<current, "modbus">> \in Workers /\ <<current, "db">> \in Workers
  BY <1>2, <1>5 DEF Workers, Roles
<1>7. pending \in 0..2 /\ Asked("modbus") \in 0..1 /\ Asked("db") \in 0..1
  BY DEF IInv, MonitorInv, MonitorType, Asked
<1>8. /\ Underway = pending - Asked("modbus") - Asked("db")
      /\ Underway' = pending' - Asked("modbus")' - Asked("db")'
  BY <1>1, <1>2 DEF Underway
<1>9. Asked("modbus") + Asked("db") = Asked("modbus")' + Asked("db")' + 1
  BY <1>1, <1>2, <1>4, <1>5, <1>6 DEF Asked
<1>10. Underway' = Underway + 1 /\ Underway < 2
  <2>1. Asked("modbus")' \in 0..1 /\ Asked("db")' \in 0..1
    BY DEF Asked
  <2> QED
    BY <1>1, <1>7, <1>8, <1>9, <2>1
<1>11. Underway \in 0..2 /\ Few(inbox, Underway) /\ inbox \in Seq(Kinds)
  BY UnderwayRange, Parts DEF PromptInv
<1>12. Few(inbox', Underway + 1)
  <2>1. PICK q \in {inbox, inbox \o <<"modbusStopped">>} : inbox' = q \/ inbox' = q \o <<"asyncStopped">>
    <3>1. PICK signal \in {<<>>, <<"asyncStopped">>} :
            inbox' = inbox \o (IF w[2] = "modbus" THEN <<"modbusStopped">> \o signal ELSE signal)
      BY <1>3 DEF stopWorker, stoppedSignal, Post
    <3>2. CASE w[2] = "modbus"
      <4>1. \/ inbox' = inbox \o <<"modbusStopped">>
            \/ inbox' = (inbox \o <<"modbusStopped">>) \o <<"asyncStopped">>
        BY <1>11, <3>1, <3>2
      <4> QED
        BY <4>1
    <3>3. CASE w[2] # "modbus"
      <4>1. inbox' = inbox \o signal /\ inbox \o <<>> = inbox
        BY <1>11, <3>1, <3>3
      <4> QED
        BY <4>1
    <3> QED
      BY <3>2, <3>3
  <2>2. q \in Seq(Kinds) /\ Few(q, Underway)
    BY <1>11, <2>1, FewSent DEF Kinds
  <2>3. CASE inbox' = q
    BY <1>10, <1>11, <2>2, <2>3, FewLost
  <2>4. CASE inbox' = q \o <<"asyncStopped">>
    BY <1>10, <1>11, <2>2, <2>4, FewSent DEF Kinds
  <2> QED
    BY <2>1, <2>3, <2>4
<1>13. Few(inbox, Underway)'
  BY <1>10, <1>12 DEF Few, Signals, Signalled
<1>14. \A s \in Sessions : owner' = s => Runs(s)'
  <2>1. \A s \in Sessions : <<s, "modbus">> \in Workers
    BY DEF Workers, Roles
  <2>2. \A s \in Sessions : owner = s => s = current
    BY <2>1 DEF PromptInv, Runs
  <2>3. CASE w[2] = "modbus"
    <3>1. owner' = IF owner = current THEN "none" ELSE owner
      BY <1>2, <1>3, <2>3 DEF stopWorker, Leaves
    <3>2. \A s \in Sessions : owner' # s
      BY <2>2, <3>1, LifecycleAssumption
    <3> QED
      BY <3>2
  <2>4. CASE w[2] # "modbus"
    <3>1. owner' = owner
      BY <1>3, <2>4 DEF stopWorker
    <3> QED
      BY <1>4, <2>1, <2>4, <3>1 DEF PromptInv, Runs
  <2> QED
    BY <2>3, <2>4
<1> QED
  BY <1>1, <1>2, <1>4, <1>13, <1>14 DEF PromptInv, Prompt

\* A step that leaves sessions and their threads alone.
LEMMA IdlePrompt ==
  ASSUME IInv, PromptInv, UNCHANGED <<monitorVars, thread>>, Quietly,
         owner' = owner \/ owner' \notin Sessions \/ \E s \in Sessions : owner' = s /\ Runs(s)
  PROVE  PromptInv'
<1>1. UNCHANGED <<stopping, pending, current, leftover>>
  BY DEF monitorVars, stopVars, timerVars
<1>2. \A s \in Sessions : owner' = s => Runs(s)
  BY DEF PromptInv
<1> QED
  BY <1>1, <1>2, PromptSame

LEMMA HandledQuietly ==
  ASSUME NEW k \in Kinds \ {"asyncStopped"}, Delivered(k), inbox' = Tail(inbox)
  PROVE  Quietly
BY DEF Delivered, Quietly

LEMMA DispatchPrompt == ASSUME IInv, PromptInv, dispatch PROVE PromptInv'
<1>1. CASE onModbusError \/ onModbusStopped \/ onDataReady
  <2>1. Quietly /\ UNCHANGED owner
    BY <1>1, HandledQuietly DEF onModbusError, onModbusStopped, onDataReady, Kinds
  <2>2. CASE UNCHANGED <<stopVars, thread, leftover>>
    BY <2>1, <2>2, PromptSame DEF stopVars, PromptInv
  <2>3. scheduleRetry \/ UNCHANGED <<stopVars, thread, leftover>>
    BY <1>1 DEF onModbusError, onModbusStopped, onDataReady, timerVars
  <2> QED
    BY <2>1, <2>2, <2>3, RetryPrompt
<1>2. CASE onResume
  <2>1. Quietly /\ UNCHANGED <<timerVars, owner>> /\ resumeMonitorIfNeeded
    BY <1>2, HandledQuietly DEF onResume, Kinds
  <2> QED
    BY <2>1, ResumePrompt
<1>3. ASSUME NEW ok \in BOOLEAN, onConnectionResult(ok) PROVE PromptInv'
  <2>1. Quietly /\ UNCHANGED <<timerVars, owner>>
    BY <1>3, HandledQuietly DEF onConnectionResult, Kinds
  <2>2. CASE UNCHANGED <<stopVars, thread>>
    BY <2>1, <2>2, PromptSame DEF stopVars, timerVars, PromptInv
  <2>3. resumeMonitorIfNeeded \/ UNCHANGED <<stopVars, thread>>
    BY <1>3 DEF onConnectionResult
  <2> QED
    BY <2>1, <2>2, <2>3, ResumePrompt
<1> QED
  BY <1>1, <1>2, <1>3, AsyncPrompt DEF dispatch

LEMMA TimersPrompt == ASSUME IInv, PromptInv, timers PROVE PromptInv'
<1>1. CASE onRetryTimer \/ onRestartTimer
  <2>1. Quietly /\ UNCHANGED <<leftover, owner>> /\ \E retrying : startPolling(retrying)
    BY <1>1 DEF onRetryTimer, onRestartTimer, timerVars, Quietly
  <2> QED
    BY <2>1, StartPrompt
<1>2. CASE onBackstop
  <2>1. UNCHANGED leftover
    BY <1>2 DEF onBackstop, PromptInv
  <2>2. CASE stopping /\ pending > 0
    <3>1. answered /\ finalizeStop(inbox)
      BY <1>2, <2>2 DEF onBackstop, PromptInv, Prompt
    <3> QED
      BY <2>1, <2>2, <3>1, LostSignal, StopOver, Parts
  <2>3. CASE ~(stopping /\ pending > 0)
    <3>1. UNCHANGED <<stopVars, thread, inbox, owner>>
      BY <1>2, <2>3 DEF onBackstop
    <3> QED
      BY <2>1, <3>1, PromptSame DEF stopVars, Quietly, PromptInv
  <2> QED
    BY <2>2, <2>3
<1>3. CASE onConnectTimeout
  <2>1. Quietly /\ UNCHANGED <<timerVars, owner>>
    BY <1>3 DEF onConnectTimeout, Quietly
  <2>2. CASE UNCHANGED <<stopVars, thread>>
    BY <2>1, <2>2, PromptSame DEF stopVars, timerVars, PromptInv
  <2>3. resumeMonitorIfNeeded \/ UNCHANGED <<stopVars, thread>>
    BY <1>3 DEF onConnectTimeout
  <2> QED
    BY <2>1, <2>2, <2>3, ResumePrompt
<1> QED
  BY <1>1, <1>2, <1>3 DEF timers

LEMMA UserPrompt == ASSUME IInv, PromptInv, checkWatchdog \/ user PROVE PromptInv'
<1>1. CASE checkWatchdog \/ refreshSensors \/ connectWithMonitorPause
  <2>1. Quietly /\ UNCHANGED owner
    BY <1>1 DEF checkWatchdog, refreshSensors, connectWithMonitorPause, Quietly
  <2>2. CASE UNCHANGED <<stopVars, thread, leftover>>
    BY <2>1, <2>2, PromptSame DEF stopVars, PromptInv
  <2>3. \/ scheduleRetry \/ UNCHANGED <<stopVars, thread, leftover>>
        \/ \E intent : stopPollingWithIntent(intent)
    BY <1>1 DEF checkWatchdog, refreshSensors, connectWithMonitorPause
  <2> QED
    BY <2>1, <2>2, <2>3, RetryPrompt, StopPrompt
<1>2. CASE disconnectSerial
  <2>1. Quietly /\ UNCHANGED <<timerVars, owner>>
    BY <1>2 DEF disconnectSerial, Quietly
  <2>2. CASE UNCHANGED <<stopVars, thread>>
    BY <2>1, <2>2, PromptSame DEF stopVars, timerVars, PromptInv
  <2>3. resumeMonitorIfNeeded \/ UNCHANGED <<stopVars, thread>>
    BY <1>2 DEF disconnectSerial
  <2> QED
    BY <2>1, <2>2, <2>3, ResumePrompt
<1> QED
  BY <1>1, <1>2 DEF user

LEMMA TesterPrompt == ASSUME IInv, PromptInv, testerWorker PROVE PromptInv'
<1>1. UNCHANGED <<monitorVars, thread>> /\ (owner' = owner \/ owner' \notin Sessions)
  BY LifecycleAssumption DEF testerWorker, doConnect, doDisconnect
<1>2. Quietly
  BY DEF testerWorker, doConnect, doDisconnect, Post, Quietly, Kinds
<1> QED
  BY <1>1, <1>2, IdlePrompt

LEMMA PortPrompt ==
  ASSUME IInv, PromptInv, NEW s \in Sessions, takePort(s) \/ releasePort(s) \/ report(s)
  PROVE  PromptInv'
<1>1. /\ UNCHANGED <<monitorVars, thread>>
      /\ owner' = owner \/ owner' \notin Sessions \/ (owner' = s /\ Runs(s))
  BY LifecycleAssumption DEF takePort, releasePort, report
<1>2. Quietly
  BY DEF takePort, releasePort, report, Post, Quietly, Kinds
<1> QED
  BY <1>1, <1>2, IdlePrompt

LEMMA StepPrompt == IInv /\ PromptInv /\ [Next]_vars => PromptInv'
<1> SUFFICES ASSUME IInv, PromptInv, [Next]_vars PROVE PromptInv'
  OBVIOUS
<1>1. CASE UNCHANGED vars
  BY <1>1, IdlePrompt DEF vars, Quietly
<1>2. CASE Next
  BY <1>2, DispatchPrompt, TimersPrompt, UserPrompt, TesterPrompt, PortPrompt, WorkerPrompt DEF Next
<1> QED
  BY <1>1, <1>2

LEMMA InitPrompt == Prompt /\ Init => PromptInv
<1> SUFFICES ASSUME Prompt, Init PROVE PromptInv
  OBVIOUS
<1>1. Underway = 0 /\ Signalled(inbox) = {}
  BY DEF Init, Underway, Signalled
<1>2. \A s \in Sessions : owner # s
  BY LifecycleAssumption DEF Init
<1> QED
  BY <1>1, <1>2, NoneLeft DEF Init, PromptInv

\* Only finalizeStop ends a stop.
LEMMA StopEnds ==
  ASSUME Next, stopping, ~stopping'
  PROVE  current' = NoSession
<1>1. \A r : startPolling(r) => UNCHANGED stopping
  BY DEF startPolling, stopVars
<1>2. \A intent : ~stopPollingWithIntent(intent)
  BY DEF stopPollingWithIntent, stopVars
<1>3. ~scheduleRetry
  BY <1>2 DEF scheduleRetry, stopVars
<1>4. ~resumeMonitorIfNeeded
  BY <1>1 DEF resumeMonitorIfNeeded, stopVars
<1>5. \E q : finalizeStop(q)
  <2>1. CASE dispatch
    BY <1>3, <1>4, <2>1 DEF dispatch, onModbusError, onDataReady, onModbusStopped, onWorkerAsyncStopped,
       onResume, onConnectionResult, stopVars
  <2>2. CASE timers
    BY <1>1, <1>4, <2>2 DEF timers, onRetryTimer, onRestartTimer, onBackstop, onConnectTimeout, stopVars
  <2>3. CASE checkWatchdog \/ user
    BY <1>2, <1>3, <1>4, <2>3 DEF checkWatchdog, user, refreshSensors, connectWithMonitorPause,
       disconnectSerial, stopVars
  <2>4. CASE testerWorker
    BY <2>4 DEF testerWorker, doConnect, doDisconnect, monitorVars, stopVars
  <2>5. CASE \E s \in Sessions : takePort(s) \/ releasePort(s) \/ report(s)
    BY <2>5 DEF takePort, releasePort, report, monitorVars, stopVars
  <2>6. CASE \E w \in Workers : stopWorker(w) \/ endThread(w)
    BY <2>6 DEF stopWorker, endThread, monitorVars, stopVars
  <2> QED
    BY <2>1, <2>2, <2>3, <2>4, <2>5, <2>6 DEF Next
<1> QED
  BY <1>5 DEF finalizeStop

(***************************************************************************)
(* When a stop ends, no session has the port: "the serial port is fully    *)
(* released" (finalizeStop).  A stop ends with the last signal, or with    *)
(* its backstop where a signal was lost; either way its workers have       *)
(* stopped, and a worker stops after it gave up the port.                  *)
(***************************************************************************)
THEOREM LifecycleReleasesPort == Prompt /\ Spec => StoppedReleasesPort
<1> DEFINE All == Prompt /\ IInv /\ PromptInv
<1>1. Prompt /\ Init => All
  BY InitInv, InitPrompt
<1>2. All /\ [Next]_vars => All'
  BY LifecycleStep, StepPrompt DEF Prompt
<1>3. All /\ [Next]_vars => [stopping /\ ~stopping' => owner' \notin Sessions]_vars
  <2> SUFFICES ASSUME All, All', Next, stopping, ~stopping' PROVE owner' \notin Sessions
    BY <1>2
  <2>1. current' = NoSession
    BY StopEnds
  <2>2. \A w \in Workers : thread'[w] = "off"
    BY <2>1, LifecycleAssumption DEF PromptInv, Workers
  <2>3. \A s \in Sessions : <<s, "modbus">> \in Workers
    BY DEF Workers, Roles
  <2> QED
    BY <2>2, <2>3 DEF PromptInv, Runs
<1> HIDE DEF All
<1> QED
  BY <1>1, <1>2, <1>3, PTL DEF Spec, StoppedReleasesPort
-----------------------------------------------------------------------------
(* The sessions of the store's worker. *)

LEMMA StoreType == ASSUME NEW s \in Sessions PROVE <<s, "db">> \in Workers
BY DEF Workers, Roles

LEMMA StoreStarts ==
  ASSUME IInv, NEW retrying, startPolling(retrying)
  PROVE  UNCHANGED <<current, thread>> \/ \E s \in Sessions : Store!Start(s)
<1>1. CASE polling \/ ~sensors
  BY <1>1 DEF startPolling, stopVars
<1>2. CASE ~polling /\ sensors
  <2>1. PICK s \in Sessions : startWorkerThreads(s)
    BY <1>2 DEF startPolling
  <2>2. /\ current = NoSession /\ current' = s /\ thread[<<s, "db">>] = "off"
        /\ \A v \in Sessions : thread'[<<v, "db">>] = IF v = s THEN "on" ELSE thread[<<v, "db">>]
    BY <1>2, <2>1, StoreType DEF startWorkerThreads, IInv, MonitorInv, OneSession, Roles
  <2>3. StoreState[s] = "off" /\ StoreState' = [StoreState EXCEPT ![s] = "on"]
    BY <2>2 DEF StoreState
  <2> QED
    BY <2>2, <2>3 DEF Store!Start
<1> QED
  BY <1>1, <1>2

LEMMA StoreAsked ==
  ASSUME IInv, NEW intent, stopPollingWithIntent(intent)
  PROVE  UNCHANGED <<current, thread>> \/ Store!Ask
<1>1. CASE polling /\ ~stopping
  <2>1. /\ current \in Sessions /\ UNCHANGED current /\ thread[<<current, "db">>] = "on"
        /\ \A v \in Sessions :
             thread'[<<v, "db">>] = IF v = current THEN "asked" ELSE thread[<<v, "db">>]
    BY <1>1, StoreType DEF stopPollingWithIntent, IInv, MonitorInv, MonitorType, OneSession
  <2>2. StoreState[current] = "on" /\ StoreState' = [StoreState EXCEPT ![current] = "asked"]
    BY <2>1 DEF StoreState
  <2> QED
    BY <2>1, <2>2 DEF Store!Ask
<1>2. CASE ~(polling /\ ~stopping)
  BY <1>2 DEF stopPollingWithIntent, stopVars
<1> QED
  BY <1>1, <1>2

LEMMA StoreForgotten ==
  ASSUME IInv, NEW q, stopping, finalizeStop(q), Prompt => thread[<<current, "db">>] = "off"
  PROVE  Store!Forget
<1>1. /\ current \in Sessions /\ current' = NoSession
      /\ thread[<<current, "db">>] \in {"asked", "off"}
  BY StoreType DEF finalizeStop, IInv, MonitorInv, MonitorType, OneSession
<1>2. \A v \in Sessions :
        thread'[<<v, "db">>] = IF v = current /\ thread[<<v, "db">>] # "off"
                               THEN "quit" ELSE thread[<<v, "db">>]
  BY StoreType DEF finalizeStop
<1>3. CASE thread[<<current, "db">>] = "off"
  <2>1. StoreState[current] = "off" /\ UNCHANGED StoreState
    BY <1>1, <1>2, <1>3 DEF StoreState
  <2> QED
    BY <1>1, <2>1 DEF Store!Forget
<1>4. CASE thread[<<current, "db">>] = "asked"
  <2>1. StoreState[current] = "asked" /\ StoreState' = [StoreState EXCEPT ![current] = "quit"]
    BY <1>1, <1>2, <1>4 DEF StoreState
  <2>2. Faults \cap {"hang", "quick"} # {}
    BY <1>4 DEF Prompt
  <2> QED
    BY <1>1, <2>1, <2>2 DEF Store!Forget
<1> QED
  BY <1>1, <1>3, <1>4

LEMMA StoreEnds ==
  ASSUME IInv, NEW w \in Workers, stopWorker(w) \/ endThread(w)
  PROVE  UNCHANGED <<current, StoreState>> \/ \E s \in Sessions : Store!End(s)
<1>1. PICK s \in Sessions, r \in Roles : w = <<s, r>>
  BY DEF Workers
<1>2. /\ UNCHANGED current /\ thread[w] \in {"asked", "quit"}
      /\ \A v \in Workers : thread'[v] = IF v = w THEN "off" ELSE thread[v]
  BY DEF stopWorker, endThread, monitorVars, stopVars, IInv, MonitorInv, MonitorType
<1>3. CASE r = "db"
  <2>1. \A v \in Sessions : thread'[<<v, "db">>] = IF v = s THEN "off" ELSE thread[<<v, "db">>]
    BY <1>1, <1>2, <1>3, StoreType
  <2>2. StoreState[s] \in {"asked", "quit"} /\ StoreState' = [StoreState EXCEPT ![s] = "off"]
    BY <1>1, <1>2, <1>3, <2>1 DEF StoreState
  <2> QED
    BY <1>2, <2>2 DEF Store!End
<1>4. CASE r # "db"
  BY <1>1, <1>2, <1>4, StoreType DEF StoreState
<1> QED
  BY <1>3, <1>4

LEMMA StoreStep ==
  ASSUME IInv, Prompt => PromptInv, [Next]_vars
  PROVE  [Store!Next]_(Store!sessionVars)
<1> DEFINE Same == UNCHANGED <<current, thread>>
           Starts == \E s \in Sessions : Store!Start(s)
<1>1. \A r : startPolling(r) => Same \/ Starts
  BY StoreStarts
<1>2. \A intent : stopPollingWithIntent(intent) => Same \/ Store!Ask
  BY StoreAsked
<1>3. scheduleRetry => Same \/ Store!Ask
  BY <1>2 DEF scheduleRetry, stopVars
<1>4. resumeMonitorIfNeeded => Same \/ Starts
  BY <1>1 DEF resumeMonitorIfNeeded, stopVars
<1>5. CASE onWorkerAsyncStopped
  <2>1. CASE stopping /\ pending = 1
    <3>1. Prompt => thread[<<current, "db">>] = "off"
      BY <1>5, <2>1, LastSignal, StoreType DEF IInv, MonitorInv, MonitorType, OneSession
    <3> QED
      BY <1>5, <2>1, <3>1, StoreForgotten DEF onWorkerAsyncStopped, Store!Next
  <2>2. CASE ~(stopping /\ pending = 1)
    BY <1>5, <2>2 DEF onWorkerAsyncStopped, StoreState, Store!sessionVars
  <2> QED
    BY <2>1, <2>2
<1>6. CASE onBackstop
  <2>1. CASE stopping /\ pending > 0
    <3>1. Prompt => thread[<<current, "db">>] = "off"
      <4>1. Prompt => answered
        BY <1>6, <2>1 DEF onBackstop, Prompt, PromptInv
      <4> QED
        BY <2>1, <4>1, LostSignal, StoreType DEF IInv, MonitorInv, MonitorType, OneSession
    <3> QED
      BY <1>6, <2>1, <3>1, StoreForgotten DEF onBackstop, Store!Next
  <2>2. CASE ~(stopping /\ pending > 0)
    BY <1>6, <2>2 DEF onBackstop, stopVars, StoreState, Store!sessionVars
  <2> QED
    BY <2>1, <2>2
<1>7. ASSUME NEW w \in Workers, stopWorker(w) \/ endThread(w) PROVE [Store!Next]_(Store!sessionVars)
  BY <1>7, StoreEnds DEF Store!Next, Store!sessionVars
<1>8. ASSUME Same \/ Starts \/ Store!Ask PROVE [Store!Next]_(Store!sessionVars)
  BY <1>8 DEF StoreState, Store!Next, Store!sessionVars
<1>9. CASE dispatch /\ ~onWorkerAsyncStopped
  <2>1. Same \/ Starts \/ Store!Ask
    BY <1>3, <1>4, <1>9 DEF dispatch, onModbusError, onDataReady, onModbusStopped, onResume, onConnectionResult,
       stopVars
  <2> QED
    BY <1>8, <2>1
<1>10. CASE timers /\ ~onBackstop
  <2>1. Same \/ Starts
    BY <1>1, <1>4, <1>10 DEF timers, onRetryTimer, onRestartTimer, onConnectTimeout, stopVars
  <2> QED
    BY <1>8, <2>1
<1>11. CASE checkWatchdog \/ user
  <2>1. Same \/ Starts \/ Store!Ask
    BY <1>2, <1>3, <1>4, <1>11 DEF checkWatchdog, user, refreshSensors, connectWithMonitorPause,
       disconnectSerial, stopVars
  <2> QED
    BY <1>8, <2>1
<1>12. CASE \/ UNCHANGED vars \/ testerWorker
            \/ \E s \in Sessions : takePort(s) \/ releasePort(s) \/ report(s)
  <2>1. Same
    BY <1>12 DEF vars, testerWorker, doConnect, doDisconnect, takePort, releasePort, report, monitorVars, stopVars
  <2> QED
    BY <1>8, <2>1
<1> HIDE DEF Same, Starts
<1> QED
  BY <1>5, <1>6, <1>7, <1>9, <1>10, <1>11, <1>12 DEF Next

(***************************************************************************)
(* The controller starts, stops and forgets the store's worker as          *)
(* WorkerSessions says (startWorkerThreads, stopPollingWithIntent,         *)
(* finalizeStop): DatabaseWorkerProofs shows that the main thread of       *)
(* DatabaseWorker does no more than that.  Where workers answer and every  *)
(* backstop ends with its stop, the store's worker has spilled what it     *)
(* holds before the next session reads the file.                           *)
(***************************************************************************)
THEOREM LifecycleSessions == Spec => StoreKept
<1> DEFINE Answers == Prompt => PromptInv
<1>1. Init => IInv /\ Answers /\ Store!Init
  <2>1. Init => Store!Init
    BY StoreType DEF Init, Store!Init, StoreState
  <2> QED
    BY <2>1, InitInv, InitPrompt
<1>2. IInv /\ Answers /\ [Next]_vars => Answers'
  BY StepPrompt DEF Prompt
<1>3. IInv /\ Answers /\ [Next]_vars => [Store!Next]_(Store!sessionVars)
  BY StoreStep
<1> HIDE DEF Answers
<1> QED
  BY <1>1, <1>2, <1>3, LifecycleStep, PTL DEF Spec, StoreKept, Store!Spec
=============================================================================
