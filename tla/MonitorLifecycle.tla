-------------------------- MODULE MonitorLifecycle --------------------------
(***************************************************************************)
(* Who polls, and who has the RS-485 port: the main thread's two           *)
(* controllers (core/MonitorController.cpp, core/TesterController.cpp),    *)
(* the worker threads of each monitoring session, and the tester's worker. *)
(*                                                                         *)
(*  - A session is a ModbusWorker and a DatabaseWorker on threads of their *)
(*    own.  Stopping it is asynchronous: both are asked to stop, and two   *)
(*    workerStopped signals, or a 5 s backstop, finalize the stop.  What   *)
(*    happens next was chosen when the stop began (AfterStop).             *)
(*  - Errors and the watchdog stop a session and retry after a delay.      *)
(*  - The tester takes the port from monitoring and hands it back.         *)
(*                                                                         *)
(* Signals between threads are queued: "inbox" is the event queue of the   *)
(* main thread, "calls" that of the tester's thread.  Delays are left      *)
(* out: a pending timer may fire at any time, except as Faults says.       *)
(***************************************************************************)
EXTENDS Integers, Sequences, FiniteSets

CONSTANTS
  Sessions,    \* the monitoring sessions that may exist at a time
  NoSession,   \* m_modbusWorker and m_dbWorker are null
  MaxErrors,   \* kMaxConsecutiveErrors
  Faults,      \* a subset of {"hang", "quick", "lost"}, see onBackstop and stopWorker
  Edits,       \* what the user edits, a subset of {"save", "retrying", "sensors"}
  Tester,      \* the tester is used
  MaxEvents,   \* bound: events waiting in the main thread's queue when one more is sent
  MaxCalls,    \* bound: calls waiting in the tester's queue
  MaxTimers    \* bound: leftover single-shot timers of a kind

ASSUME LifecycleAssumption ==
  /\ {NoSession, "none", "tester"} \cap Sessions = {}
  /\ MaxErrors \in Nat \ {0} /\ Tester \in BOOLEAN
  /\ MaxEvents \in Nat \ {0} /\ MaxCalls \in Nat /\ MaxTimers \in Nat \ {0}

Roles == {"modbus", "db"}
Workers == Sessions \X Roles

VARIABLES
  polling,    \* m_isPolling
  stopping,   \* m_isStopping
  afterStop,  \* m_afterStop
  pending,    \* m_pendingStops
  current,    \* the session m_modbusWorker and m_dbWorker point to
  retry,      \* m_retryTimer is active
  errors,     \* m_consecutiveErrors, counted up to MaxErrors
  sensors,    \* the database has active sensors
  restarts,   \* pending single-shot timers that will call startPolling
  backstop,   \* the backstop timer of the last stop is pending
  leftover,   \* pending backstop timers of earlier stops
  waiting,    \* TesterController::m_waitingConnect
  deadline,   \* m_connectTimeout is active
  wasRunning, \* m_monitorWasRunning
  connecting, \* m_connecting
  connected,  \* m_connected
  resumeDue,  \* resumeMonitorIfNeeded waits for pollingFullyStopped
  thread,     \* [worker -> what its thread does]
  inbox,      \* events queued for the main thread
  calls,      \* calls queued for the tester's worker
  owner       \* ModbusPortGuard: "none", a session or "tester"

stopVars == <<polling, stopping, afterStop, pending, current>>
timerVars == <<restarts, backstop, leftover>>
monitorVars == <<stopVars, retry, errors, sensors, timerVars>>
testerVars == <<waiting, deadline, wasRunning, connecting, connected, resumeDue>>
vars == <<monitorVars, testerVars, thread, inbox, calls, owner>>

Kinds == {"error", "data", "modbusStopped", "asyncStopped", "resume",
          "connected", "disconnected"}

AtMost(n, bound) == IF n < bound THEN n ELSE bound

Init ==
  /\ polling = FALSE /\ stopping = FALSE /\ afterStop = "nothing" /\ pending = 0
  /\ current = NoSession /\ retry = FALSE /\ errors = 0
  /\ sensors \in {TRUE, "sensors" \notin Edits}
  /\ restarts = 1 /\ backstop = FALSE /\ leftover = 0
  /\ waiting = FALSE /\ deadline = FALSE /\ wasRunning = FALSE
  /\ connecting = FALSE /\ connected = FALSE /\ resumeDue = FALSE
  /\ thread = [w \in Workers |-> "off"]
  /\ inbox = <<>> /\ calls = <<>>
  /\ owner = "none"
-----------------------------------------------------------------------------
(***************************************************************************)
(* MonitorController: starting and stopping.                               *)
(***************************************************************************)
startWorkerThreads(s) ==
  /\ \A r \in Roles : thread[<<s, r>>] = "off"
  /\ current' = s
  /\ thread' = [w \in Workers |-> IF w[1] = s THEN "on" ELSE thread[w]]

\* startPolling, when m_retryTimer is active if "retrying": it cancels the
\* retry, and starts a session unless one runs or no sensor is active.
startPolling(retrying) ==
  \/ /\ polling
     /\ retry' = retrying
     /\ UNCHANGED <<stopVars, errors, thread>>
  \/ /\ ~polling /\ ~sensors
     /\ retry' = FALSE
     /\ UNCHANGED <<stopVars, errors, thread>>
  \/ /\ ~polling /\ sensors
     /\ retry' = FALSE
     /\ \E s \in Sessions : startWorkerThreads(s)
     /\ polling' = TRUE /\ errors' = 0
     /\ UNCHANGED <<stopping, afterStop, pending>>

\* Seeded fault of armBackstop: no timer bounds the stop.
armNothing == UNCHANGED <<backstop, leftover>>

\* The backstop timers of earlier stops are not cancelled.
armBackstop ==
  /\ backstop' = TRUE
  /\ leftover' = IF backstop /\ "quick" \in Faults THEN AtMost(leftover + 1, MaxTimers)
                 ELSE leftover

\* Seeded fault of awaited: the DatabaseWorker is not counted.
awaitedModbus == 1

\* The workerStopped signals a stop waits for.
awaited == Cardinality(Roles)

stopPollingWithIntent(intent) ==
  /\ retry' = FALSE
  /\ IF polling /\ ~stopping
     THEN /\ afterStop' = intent
          /\ stopping' = TRUE
          /\ pending' = awaited
          /\ thread' = [w \in Workers |-> IF w[1] = current THEN "asked" ELSE thread[w]]
          /\ armBackstop
          /\ UNCHANGED <<polling, current>>
     ELSE UNCHANGED <<stopVars, thread, backstop, leftover>>

\* connectSerial, with the call it queues for the tester's worker.
connectSerial ==
  /\ connecting' = TRUE
  /\ calls' = Append(calls, "connect")

\* Seeded fault of announceStopped: the pending connect is left waiting.
announceResume(q) ==
  /\ UNCHANGED <<waiting, deadline, connecting, calls>>
  /\ resumeDue' = FALSE
  /\ inbox' = q \o (IF resumeDue THEN <<"resume">> ELSE <<>>)

\* pollingFullyStopped: a pending connect of the tester goes ahead
\* (tryPendingConnect), a pending resume is queued behind the events q.
announceStopped(q) ==
  /\ IF waiting
     THEN waiting' = FALSE /\ deadline' = FALSE /\ connectSerial
     ELSE UNCHANGED <<waiting, deadline, connecting, calls>>
  /\ resumeDue' = FALSE
  /\ inbox' = q \o (IF resumeDue THEN <<"resume">> ELSE <<>>)

\* Seeded fault of afterStopped: the intent to retry is dropped.
afterStoppedRestart ==
  /\ restarts' = AtMost(restarts + (IF afterStop = "restart" THEN 1 ELSE 0), MaxTimers)
  /\ UNCHANGED retry

\* The intent chosen when the stop began is carried out (finishRetry: the
\* retry timer starts).
afterStopped ==
  /\ restarts' = AtMost(restarts + (IF afterStop = "restart" THEN 1 ELSE 0), MaxTimers)
  /\ retry' = (retry \/ afterStop = "retry")

\* The workers are forgotten; a thread that has not ended is told to quit.
finalizeStop(q) ==
  /\ polling' = FALSE /\ stopping' = FALSE /\ pending' = 0
  /\ current' = NoSession /\ afterStop' = "nothing"
  /\ thread' = [w \in Workers |-> IF w[1] = current /\ thread[w] # "off"
                                  THEN "quit" ELSE thread[w]]
  /\ announceStopped(q)
  /\ afterStopped
  /\ UNCHANGED <<errors, sensors, wasRunning, connected, owner>>

\* Seeded fault of scheduleRetry: the running session is not stopped.
retryAtOnce == retry' = TRUE /\ UNCHANGED <<stopVars, thread, backstop, leftover>>

\* scheduleRetry: a running session is stopped first; a pending retry is enough.
scheduleRetry ==
  \/ retry /\ UNCHANGED <<stopVars, retry, thread, backstop, leftover>>
  \/ ~retry /\ polling /\ ~stopping /\ stopPollingWithIntent("retry")
  \/ /\ ~retry /\ ~(polling /\ ~stopping)
     /\ retry' = TRUE
     /\ UNCHANGED <<stopVars, thread, backstop, leftover>>
-----------------------------------------------------------------------------
(***************************************************************************)
(* MonitorController: timers and edits.                                    *)
(***************************************************************************)
onRetryTimer ==
  /\ retry
  /\ startPolling(FALSE)
  /\ UNCHANGED <<sensors, timerVars, testerVars, inbox, calls, owner>>

\* The 200 ms timer of a restart, and the start at boot.
onRestartTimer ==
  /\ restarts > 0
  /\ restarts' = restarts - 1
  /\ startPolling(retry)
  /\ UNCHANGED <<sensors, backstop, leftover, testerVars, inbox, calls, owner>>

\* Workers that do not hang have ended by then, and what they sent was handled.
answered ==
  /\ \A w \in Workers : thread[w] # "asked"
  /\ \A i \in 1..Len(inbox) : inbox[i] # "asyncStopped"

\* The backstop finds its own stop unfinished only if a worker hangs ("hang") or
\* a signal was lost, and is still pending at a later stop only if that one
\* begins within 5 s ("quick").
onBackstop ==
  /\ \/ /\ backstop /\ leftover = 0
        /\ stopping => "hang" \in Faults \/ answered
        /\ backstop' = FALSE /\ UNCHANGED leftover
     \/ /\ leftover > 0
        /\ leftover' = leftover - 1 /\ UNCHANGED backstop
  /\ IF stopping /\ pending > 0 THEN finalizeStop(inbox)
     ELSE UNCHANGED <<stopVars, retry, errors, sensors, restarts, testerVars,
                      thread, inbox, calls, owner>>

\* A worker missed its heartbeats.
checkWatchdog ==
  /\ polling /\ ~stopping
  /\ scheduleRetry
  /\ UNCHANGED <<errors, sensors, restarts, testerVars, inbox, calls, owner>>

\* refreshSensors: a saved configuration restarts a running session.
refreshSensors ==
  /\ \/ "save" \in Edits /\ ~retry /\ UNCHANGED sensors
     \/ "retrying" \in Edits /\ retry /\ UNCHANGED sensors
     \/ "sensors" \in Edits /\ sensors' \in BOOLEAN
  /\ IF polling \/ retry THEN stopPollingWithIntent("restart")
     ELSE UNCHANGED <<stopVars, retry, thread, backstop, leftover>>
  /\ UNCHANGED <<errors, restarts, testerVars, inbox, calls, owner>>
-----------------------------------------------------------------------------
(***************************************************************************)
(* TesterController.                                                       *)
(***************************************************************************)
resumeMonitorIfNeeded ==
  \/ /\ ~wasRunning
     /\ UNCHANGED <<stopVars, retry, errors, thread, wasRunning, resumeDue>>
  \/ /\ wasRunning /\ stopping
     /\ resumeDue' = TRUE
     /\ UNCHANGED <<stopVars, retry, errors, thread, wasRunning>>
  \/ /\ wasRunning /\ ~stopping
     /\ wasRunning' = FALSE
     /\ startPolling(retry)
     /\ UNCHANGED resumeDue

connectWithMonitorPause ==
  /\ Tester /\ ~connected /\ ~connecting
  /\ Len(calls) < MaxCalls /\ Len(inbox) <= MaxEvents
  /\ resumeDue' = FALSE
  /\ IF polling /\ stopping THEN UNCHANGED <<stopVars, retry, thread, backstop, leftover>>
     ELSE stopPollingWithIntent("nothing")
  /\ wasRunning' = (wasRunning \/ polling \/ retry)
  /\ waiting' = polling
  /\ deadline' = polling
  /\ IF polling THEN UNCHANGED <<connecting, calls>> ELSE connectSerial
  /\ UNCHANGED <<errors, sensors, restarts, connected, inbox, owner>>

\* The Disconnect button, or leaving the tester's tab.
disconnectSerial ==
  /\ Tester
  /\ \/ /\ waiting
        /\ waiting' = FALSE /\ deadline' = FALSE /\ connecting' = FALSE
        /\ resumeMonitorIfNeeded
        /\ UNCHANGED calls
     \/ /\ ~waiting /\ Len(calls) < MaxCalls
        /\ calls' = Append(calls, "disconnect")
        /\ UNCHANGED <<stopVars, retry, errors, thread, testerVars>>
  /\ UNCHANGED <<sensors, timerVars, connected, inbox, owner>>

onConnectTimeout ==
  /\ deadline
  /\ deadline' = FALSE
  /\ IF waiting THEN waiting' = FALSE /\ connecting' = FALSE /\ resumeMonitorIfNeeded
     ELSE UNCHANGED <<stopVars, retry, errors, thread, waiting, connecting,
                      wasRunning, resumeDue>>
  /\ UNCHANGED <<sensors, timerVars, connected, inbox, calls, owner>>
-----------------------------------------------------------------------------
(***************************************************************************)
(* The main thread's event queue.                                          *)
(***************************************************************************)
Delivered(kind) == inbox # <<>> /\ Head(inbox) = kind

onModbusError ==
  /\ Delivered("error")
  /\ IF stopping THEN UNCHANGED <<errors, stopVars, retry, thread, backstop, leftover>>
     ELSE /\ errors' = AtMost(errors + 1, MaxErrors)
          /\ IF errors' = MaxErrors THEN scheduleRetry
             ELSE UNCHANGED <<stopVars, retry, thread, backstop, leftover>>
  /\ inbox' = Tail(inbox)
  /\ UNCHANGED <<sensors, restarts, testerVars, calls, owner>>

onDataReady ==
  /\ Delivered("data")
  /\ errors' = IF polling /\ ~stopping THEN 0 ELSE errors
  /\ inbox' = Tail(inbox)
  /\ UNCHANGED <<stopVars, retry, sensors, timerVars, testerVars, thread, calls, owner>>

onModbusStopped ==
  /\ Delivered("modbusStopped")
  /\ IF polling /\ ~stopping THEN scheduleRetry
     ELSE UNCHANGED <<stopVars, retry, thread, backstop, leftover>>
  /\ inbox' = Tail(inbox)
  /\ UNCHANGED <<errors, sensors, restarts, testerVars, calls, owner>>

\* Seeded fault of stopsLeft: a late signal is counted too.
stopsLeftAlways == pending - 1

stopsLeft == IF stopping /\ pending > 0 THEN pending - 1 ELSE pending

onWorkerAsyncStopped ==
  /\ Delivered("asyncStopped")
  /\ IF stopping /\ pending = 1 THEN finalizeStop(Tail(inbox))
     ELSE /\ pending' = stopsLeft
          /\ inbox' = Tail(inbox)
          /\ UNCHANGED <<polling, stopping, afterStop, current, retry, errors, sensors,
                         restarts, testerVars, thread, calls, owner>>
  /\ UNCHANGED <<backstop, leftover>>

onResume ==
  /\ Delivered("resume")
  /\ resumeMonitorIfNeeded
  /\ inbox' = Tail(inbox)
  /\ UNCHANGED <<sensors, timerVars, waiting, deadline, connecting, connected, calls, owner>>

onConnectionResult(ok) ==
  /\ Delivered(IF ok THEN "connected" ELSE "disconnected")
  /\ connected' = ok /\ connecting' = FALSE /\ deadline' = FALSE
  /\ IF ok THEN UNCHANGED <<stopVars, retry, errors, thread, wasRunning, resumeDue>>
     ELSE resumeMonitorIfNeeded
  /\ inbox' = Tail(inbox)
  /\ UNCHANGED <<sensors, timerVars, waiting, calls, owner>>

dispatch ==
  \/ onModbusError \/ onDataReady \/ onModbusStopped \/ onWorkerAsyncStopped
  \/ onResume \/ \E ok \in BOOLEAN : onConnectionResult(ok)
-----------------------------------------------------------------------------
(***************************************************************************)
(* The tester's worker.                                                    *)
(***************************************************************************)
\* A place is kept for the events that are not reports.
Post(events) == Len(inbox) <= MaxEvents /\ inbox' = inbox \o events

doConnect ==
  /\ calls # <<>> /\ Head(calls) = "connect"
  /\ calls' = Tail(calls)
  /\ \/ /\ owner # "tester"                         \* busy, or the probe fails
        /\ Post(<<"disconnected">>)
        /\ UNCHANGED owner
     \/ /\ owner \in {"none", "tester"}
        /\ owner' = "tester"
        /\ Post(<<"connected">>)
     \/ /\ owner = "tester"                         \* connectDevice fails
        /\ owner' = "none"
        /\ Post(<<"disconnected">>)
  /\ UNCHANGED <<monitorVars, testerVars, thread>>

doDisconnect ==
  /\ calls # <<>> /\ Head(calls) = "disconnect"
  /\ calls' = Tail(calls)
  /\ IF owner = "tester"
     THEN owner' = "none" /\ Post(<<"disconnected">>)
     ELSE UNCHANGED <<owner, inbox>>
  /\ UNCHANGED <<monitorVars, testerVars, thread>>

(***************************************************************************)
(* The workers of a session.                                               *)
(***************************************************************************)
Runs(s) == thread[<<s, "modbus">>] # "off"

\* ModbusWorker takes the port, or releases it after a hang of its bus.
takePort(s) ==
  /\ Runs(s) /\ owner = "none"
  /\ owner' = s
  /\ UNCHANGED <<monitorVars, testerVars, thread, inbox, calls>>

releasePort(s) ==
  /\ Runs(s) /\ owner = s
  /\ owner' = "none"
  /\ UNCHANGED <<monitorVars, testerVars, thread, inbox, calls>>

\* A round of polls yields an error or, with the port, a reading.
report(s) ==
  /\ Runs(s) /\ Len(inbox) < MaxEvents
  /\ Post(<<"error">>) \/ (owner = s /\ Post(<<"data">>))
  /\ UNCHANGED <<monitorVars, testerVars, thread, calls, owner>>

Leaves(s) == owner' = IF owner = s THEN "none" ELSE owner

\* workerStopped, for the stop that asked: it is lost on a controller that has
\* queued stop() but has not connected the signal yet ("lost").
stoppedSignal == {<<"asyncStopped">>} \cup (IF "lost" \in Faults THEN {<<>>} ELSE {})

\* stop() of a worker that was asked to: it releases the port and says so.
stopWorker(w) ==
  /\ thread[w] \in {"asked", "quit"}
  /\ thread' = [thread EXCEPT ![w] = "off"]
  /\ IF w[2] = "modbus" THEN Leaves(w[1]) ELSE UNCHANGED owner
  /\ \E signal \in stoppedSignal :
       Post(IF w[2] = "modbus" THEN <<"modbusStopped">> \o signal ELSE signal)
  /\ UNCHANGED <<monitorVars, testerVars, calls>>

\* A thread that was told to quit may end without running the queued stop().
endThread(w) ==
  /\ thread[w] = "quit"
  /\ thread' = [thread EXCEPT ![w] = "off"]
  /\ IF w[2] = "modbus" THEN Leaves(w[1]) ELSE UNCHANGED owner
  /\ UNCHANGED <<monitorVars, testerVars, inbox, calls>>

timers == onRetryTimer \/ onRestartTimer \/ onBackstop \/ onConnectTimeout
user == refreshSensors \/ connectWithMonitorPause \/ disconnectSerial
testerWorker == doConnect \/ doDisconnect

Next ==
  \/ dispatch \/ timers \/ checkWatchdog \/ user \/ testerWorker
  \/ \E s \in Sessions : takePort(s) \/ releasePort(s) \/ report(s)
  \/ \E w \in Workers : stopWorker(w) \/ endThread(w)

Spec == Init /\ [][Next]_vars

(***************************************************************************)
(* Fairness: the main thread and the tester's thread handle their queues,  *)
(* timers fire, and a worker that does not hang stops when it is asked to  *)
(* or ends when its thread is told to quit.                                *)
(***************************************************************************)
FairSpec ==
  /\ Spec
  /\ WF_vars(dispatch) /\ WF_vars(testerWorker)
  /\ WF_vars(onRetryTimer) /\ WF_vars(onRestartTimer)
  /\ WF_vars(onBackstop) /\ WF_vars(onConnectTimeout)
  /\ "hang" \notin Faults => \A w \in Workers : WF_vars(stopWorker(w) \/ endThread(w))
-----------------------------------------------------------------------------
\* The variables hold values of their types.
TypeOK ==
  /\ polling \in BOOLEAN /\ stopping \in BOOLEAN
  /\ afterStop \in {"nothing", "restart", "retry"}
  /\ pending \in 0..Cardinality(Roles)
  /\ current \in Sessions \cup {NoSession}
  /\ retry \in BOOLEAN /\ errors \in 0..MaxErrors /\ sensors \in BOOLEAN
  /\ restarts \in 0..MaxTimers /\ leftover \in 0..MaxTimers /\ backstop \in BOOLEAN
  /\ waiting \in BOOLEAN /\ deadline \in BOOLEAN /\ wasRunning \in BOOLEAN
  /\ connecting \in BOOLEAN /\ connected \in BOOLEAN /\ resumeDue \in BOOLEAN
  /\ thread \in [Workers -> {"off", "on", "asked", "quit"}]
  /\ inbox \in Seq(Kinds)
  /\ calls \in Seq({"connect", "disconnect"})
  /\ owner \in Sessions \cup {"none", "tester"}

(***************************************************************************)
(* One session at a time: the threads that were not told to quit are those *)
(* of the session the controller points to, which it has exactly while it  *)
(* polls; they were asked to stop exactly while it is stopping; and no     *)
(* retry is pending beside a session.                                      *)
(***************************************************************************)
OneSession ==
  /\ polling = (current # NoSession)
  /\ stopping => polling
  /\ polling => ~retry
  /\ \A w \in Workers :
       IF w[1] # current THEN thread[w] \in {"off", "quit"}
       ELSE thread[w] \in IF stopping THEN {"asked", "off"} ELSE {"on"}

(***************************************************************************)
(* The tester waits only for a stop that is under way, and under a         *)
(* deadline: pollingFullyStopped, or onConnectTimeout, always comes.       *)
(***************************************************************************)
WaitsForStop == waiting => stopping /\ deadline

(***************************************************************************)
(* Whether or not the workers answer, a stop ends: until it does, a        *)
(* backstop is pending that will find it unfinished.                       *)
(***************************************************************************)
StopBounded == stopping => backstop /\ pending > 0

(***************************************************************************)
(* finalizeStop, on pollingFullyStopped: "the serial port is fully         *)
(* released (stop() has run, the thread is dead)".  So it is, as long as   *)
(* no worker hangs and no timer of an earlier stop is left, even if only   *)
(* the backstop ends the stop because a worker's signal was lost.          *)
(***************************************************************************)
StoppedReleasesPort == [][stopping /\ ~stopping' => owner' \notin Sessions]_vars

(***************************************************************************)
(* The store's worker is started, asked to stop and forgotten as           *)
(* WorkerSessions says, which is what DatabaseWorker takes for granted: it *)
(* is forgotten before it has stopped only where a worker may hang or a    *)
(* timer of an earlier stop is left.                                       *)
(***************************************************************************)
StoreState == [s \in Sessions |-> thread[<<s, "db">>]]

Store == INSTANCE WorkerSessions
           WITH MayHang <- Faults \cap {"hang", "quick"} # {}, MayDie <- FALSE, state <- StoreState

StoreKept == Store!Spec

(***************************************************************************)
(* Monitoring always comes back: errors, restarts and visits of the tester *)
(* are followed by a running session, or the tester is in use again.       *)
(***************************************************************************)
TesterInUse == waiting \/ connecting \/ connected

MonitoringReturns == []<>((polling /\ ~stopping) \/ TesterInUse)
=============================================================================
