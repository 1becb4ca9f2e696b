----------------------------- MODULE TesterScan -----------------------------
(***************************************************************************)
(* The tester's operations on an open port: TesterWorker's reads, writes   *)
(* and scans (network/workers/TesterWorker.cpp) and the flags that         *)
(* TesterController shows to the user interface.                           *)
(*                                                                         *)
(* The worker handles its calls one at a time and waits for one reply at a *)
(* time (sendAndAwait); a scan is a chain of such waits.  A wait that      *)
(* times out leaves its reply behind, still connected to onAwaitFinished.  *)
(* A request is named by the slave, or address, it asks.                   *)
(***************************************************************************)
EXTENDS Integers, Sequences, FiniteSets

CONSTANTS
  ScanEnd,   \* the last slave, or address, of a scan, which starts at 1
  UserActs,  \* what the user does, a subset of AllActs
  MaxCalls   \* bound: calls waiting for the worker

AllActs == {"connect", "disconnect", "leave", "write", "scan", "stop"}

ASSUME ScanAssumption ==
  /\ ScanEnd \in Nat \ {0} /\ MaxCalls \in Nat \ {0}
  /\ UserActs \subseteq AllActs

WriteTarget == 0
Targets == 0..ScanEnd

VARIABLES
  connected,  \* TesterController::m_connected
  connecting, \* TesterController::m_connecting
  scanButton, \* TesterController::m_scanning
  stopping,   \* TesterController::m_stopping
  calls,      \* calls queued for the worker
  inbox,      \* signals queued for the controller
  client,     \* the worker's m_client exists (m_connected)
  scanning,   \* the worker's m_scanning
  scanCur,    \* m_scanIdCur, m_scanAddrCur: the next target of the scan
  await,      \* m_awaitReply and m_awaitCont: the awaited target, a singleton or {}
  replies,    \* the targets whose replies will call onAwaitFinished
  mixed,      \* history: a target was reported with the answer of another
  late,       \* history: a wait has timed out
  crashed     \* an empty continuation was called

uiVars == <<connected, connecting, scanButton, stopping>>
workerVars == <<client, scanning, scanCur, await, replies, mixed, late, crashed>>
vars == <<uiVars, calls, inbox, workerVars>>

Init ==
  /\ connected = FALSE /\ connecting = FALSE
  /\ scanButton = FALSE /\ stopping = FALSE
  /\ calls = <<>> /\ inbox = <<>>
  /\ client = FALSE /\ scanning = FALSE /\ scanCur = 1
  /\ await = {} /\ replies = {} /\ mixed = FALSE /\ late = FALSE /\ crashed = FALSE
-----------------------------------------------------------------------------
(***************************************************************************)
(* TesterController: the user's actions and the worker's signals.          *)
(***************************************************************************)
Calls(cs) == Len(calls) + Len(cs) <= MaxCalls /\ calls' = calls \o cs
May(act) == act \in UserActs /\ ~crashed

\* The button connects when it does not disconnect, and rests in between.
connectSerial ==
  /\ May("connect") /\ ~connected /\ ~connecting
  /\ connecting' = TRUE
  /\ Calls(<<"connect">>)
  /\ UNCHANGED <<connected, scanButton, stopping, inbox, workerVars>>

disconnectSerial ==
  /\ May("disconnect") /\ connected /\ ~connecting
  /\ Calls(<<"disconnect">>)
  /\ UNCHANGED <<uiVars, inbox, workerVars>>

write_single ==
  /\ May("write") /\ connected /\ ~stopping
  /\ Calls(<<"write">>)
  /\ UNCHANGED <<uiVars, inbox, workerVars>>

\* The scan button shows "Stop scan" while a scan runs.
scanSlaves ==
  /\ May("scan") /\ ~scanButton /\ ~stopping /\ connected
  /\ scanButton' = TRUE
  /\ Calls(<<"scan">>)
  /\ UNCHANGED <<connected, connecting, stopping, inbox, workerVars>>

stopScan ==
  /\ May("stop") /\ scanButton /\ ~stopping
  /\ stopping' = TRUE
  /\ Calls(<<"stop">>)
  /\ UNCHANGED <<connected, connecting, scanButton, inbox, workerVars>>

\* Leaving the tester's tab stops a scan and disconnects.
leaveTester ==
  /\ May("leave")
  /\ stopping' = (stopping \/ scanButton)
  /\ Calls(IF scanButton THEN <<"stop", "disconnect">> ELSE <<"disconnect">>)
  /\ UNCHANGED <<connected, connecting, scanButton, inbox, workerVars>>

onConnectionResult(ok) ==
  /\ inbox # <<>> /\ Head(inbox) = (IF ok THEN "connected" ELSE "disconnected")
  /\ connected' = ok /\ connecting' = FALSE
  /\ inbox' = Tail(inbox)
  /\ UNCHANGED <<scanButton, stopping, calls, workerVars>>

onScanFinished ==
  /\ inbox # <<>> /\ Head(inbox) = "scanFinished"
  /\ scanButton' = FALSE /\ stopping' = FALSE
  /\ inbox' = Tail(inbox)
  /\ UNCHANGED <<connected, connecting, calls, workerVars>>
-----------------------------------------------------------------------------
(***************************************************************************)
(* TesterWorker: the scan chain.                                           *)
(***************************************************************************)
\* Seeded fault of finished: the end of a scan is not reported.
finishedSilently(on) == <<>>

\* finishScan reports the end of a scan that is still on.
finished(on) == IF on THEN <<"scanFinished">> ELSE <<>>

\* Seeded fault of lastTarget: one target too many.
lastTargetPast == ScanEnd + 1

lastTarget == ScanEnd

\* scanIdStep, scanAddrStep: ask the next target the client takes a request
\* for, or finish.  The replies "left" are still connected.
scanStep(on, cur, left) ==
  \/ /\ on /\ client
     /\ \E next \in cur..lastTarget :
          /\ await' = {next} /\ replies' = left \cup {next}
          /\ scanCur' = next + 1
     /\ scanning' = TRUE
     /\ UNCHANGED inbox
  \/ /\ await' = {} /\ replies' = left
     /\ scanning' = FALSE
     /\ inbox' = inbox \o finished(on)
     /\ UNCHANGED scanCur

Called(c) ==
  /\ calls # <<>> /\ Head(calls) = c /\ ~crashed
  /\ calls' = Tail(calls)

\* Seeded fault of checkBusy: only a running scan is looked at.
checkScanning == scanning

checkBusy == await # {} \/ scanning

doScan ==
  /\ Called("scan")
  /\ IF client /\ ~checkBusy THEN scanStep(TRUE, 1, replies)
     ELSE /\ inbox' = inbox \o finished(client)
          /\ UNCHANGED <<scanning, scanCur, await, replies>>
  /\ UNCHANGED <<uiVars, client, mixed, late, crashed>>

doStopScan ==
  /\ Called("stop")
  /\ scanning' = FALSE
  /\ UNCHANGED <<uiVars, inbox, client, scanCur, await, replies, mixed, late,
                 crashed>>

doWrite ==
  /\ Called("write")
  /\ \/ /\ client /\ ~checkBusy
        /\ await' = {WriteTarget} /\ replies' = replies \cup {WriteTarget}
     \/ UNCHANGED <<await, replies>>   \* refused, by the worker or the client
  /\ UNCHANGED <<uiVars, inbox, client, scanning, scanCur, mixed, late, crashed>>

\* Seeded fault of abortAwait: the reply stays connected.
abortWait == await' = {} /\ UNCHANGED replies

abortAwait == await' = {} /\ replies' = replies \ await

doDisconnect ==
  /\ Called("disconnect")
  /\ abortAwait
  /\ scanning' = FALSE
  /\ inbox' = inbox \o finished(scanning) \o (IF client THEN <<"disconnected">> ELSE <<>>)
  /\ client' = FALSE
  /\ UNCHANGED <<uiVars, scanCur, mixed, late, crashed>>

\* An existing client is replaced, and its scan ends.
doConnect ==
  /\ Called("connect")
  /\ \/ /\ ~client                            \* the port is busy
        /\ inbox' = Append(inbox, "disconnected")
        /\ UNCHANGED <<client, scanning, await, replies>>
     \/ /\ IF client THEN abortAwait /\ scanning' = FALSE
           ELSE UNCHANGED <<scanning, await, replies>>
        /\ \E opened \in BOOLEAN :
             /\ client' = opened
             /\ inbox' = inbox \o finished(client /\ scanning)
                           \o <<IF opened THEN "connected" ELSE "disconnected">>
  /\ UNCHANGED <<uiVars, scanCur, mixed, late, crashed>>

\* The continuation of the awaited request.
continueWith(left) ==
  IF WriteTarget \in await
  THEN await' = {} /\ replies' = left /\ UNCHANGED <<inbox, scanning, scanCur>>
  ELSE scanStep(scanning, scanCur, left)

\* A reply has finished, with an answer or an error.  It is taken for that of
\* the awaited request; when none is awaited, an empty continuation is called.
onAwaitFinished ==
  /\ ~crashed
  /\ \E by \in replies :
       IF await = {} THEN crashed' = TRUE
                          /\ UNCHANGED <<inbox, scanning, scanCur, await, replies, mixed>>
       ELSE /\ continueWith(replies \ {by})
            /\ mixed' = (mixed \/ by \notin await)
            /\ UNCHANGED crashed
  /\ UNCHANGED <<uiVars, calls, client, late>>

\* The client gives up on a request earlier than the worker, so a wait only
\* times out when the worker's event loop is late.
onAwaitTimeout ==
  /\ await # {} /\ ~crashed
  /\ continueWith(replies)
  /\ late' = TRUE
  /\ UNCHANGED <<uiVars, calls, client, mixed, crashed>>

user ==
  \/ connectSerial \/ disconnectSerial \/ leaveTester
  \/ write_single \/ scanSlaves \/ stopScan
controller == onScanFinished \/ \E ok \in BOOLEAN : onConnectionResult(ok)
worker == doConnect \/ doDisconnect \/ doWrite \/ doScan \/ doStopScan

Next == user \/ controller \/ worker \/ onAwaitFinished \/ onAwaitTimeout

Spec == Init /\ [][Next]_vars

\* Both threads handle their queues, and every reply finishes.
FairSpec ==
  /\ Spec
  /\ WF_vars(controller) /\ WF_vars(worker) /\ WF_vars(onAwaitFinished)
-----------------------------------------------------------------------------
\* The variables hold values of their types.
TypeOK ==
  /\ connected \in BOOLEAN /\ connecting \in BOOLEAN
  /\ scanButton \in BOOLEAN /\ stopping \in BOOLEAN
  /\ calls \in Seq({"connect", "disconnect", "write", "scan", "stop"})
  /\ inbox \in Seq({"connected", "disconnected", "scanFinished"})
  /\ client \in BOOLEAN /\ scanning \in BOOLEAN
  /\ late \in BOOLEAN /\ crashed \in BOOLEAN
  /\ scanCur \in 1..(ScanEnd + 1)
  /\ await \subseteq Targets /\ replies \subseteq Targets
  /\ mixed \in BOOLEAN

(***************************************************************************)
(* "1 in-flight at a time": whatever calls arrive while a reply is         *)
(* awaited, and however connections come and go under a scan, the worker   *)
(* listens to the reply it awaits and to no other (the Q_ASSERT of         *)
(* sendAndAwait), as long as no wait has timed out.                        *)
(***************************************************************************)
OneReply == ~late => replies = await /\ Cardinality(await) <= 1

(***************************************************************************)
(* A slave, or an address, is reported with the answer it gave itself, not *)
(* with that of an earlier request that was aborted, as long as no wait    *)
(* has timed out.                                                          *)
(***************************************************************************)
Attributed == ~late => ~mixed

(***************************************************************************)
(* A scan that a connected worker is asked for, and nobody stops, ends,    *)
(* and the user interface learns that it did: also when requests are       *)
(* refused, when it races a write, when waits time out, and when it is cut *)
(* short by Disconnect.                                                    *)
(***************************************************************************)
ScanAsked == client /\ calls # <<>> /\ Head(calls) = "scan"

ScanEnds == ScanAsked \/ scanning ~> (~scanButton \/ stopping \/ crashed)
=============================================================================
