--------------------------- MODULE TesterScanProofs ---------------------------
(***************************************************************************)
(* Proofs about TesterScan, for scans of any length, any subset of the     *)
(* user's actions and any bound on the calls that wait.                    *)
(***************************************************************************)
EXTENDS TesterScan, FiniteSetTheorems, TLAPS

\* Until a wait times out the worker listens to the reply it awaits and to no
\* other; so every answer is that of the request, and every continuation exists.
ReplyInv ==
  ~late =>
    /\ replies = await
    /\ await = {} \/ \E t \in Targets : await = {t}
    /\ ~mixed /\ ~crashed

IInv == TypeOK /\ ReplyInv
-----------------------------------------------------------------------------
CallNames == {"connect", "disconnect", "write", "scan", "stop"}
SignalNames == {"connected", "disconnected", "scanFinished"}

LEMMA InitInv == Init => IInv
<1> SUFFICES ASSUME Init PROVE IInv
  OBVIOUS
<1>1. 1 \in 1..(ScanEnd + 1)
  BY ScanAssumption DEF ScanAssumption
<1>2. calls \in Seq(CallNames) /\ inbox \in Seq(SignalNames)
  BY DEF Init
<1>3. TypeOK
  BY <1>1, <1>2 DEF Init, TypeOK, CallNames, SignalNames
<1> QED
  BY <1>3 DEF Init, IInv, ReplyInv

-----------------------------------------------------------------------------
(* What is queued. *)

LEMMA CallsTyped ==
  ASSUME TypeOK, NEW cs \in Seq(CallNames), Calls(cs)
  PROVE  calls' \in Seq(CallNames)
BY DEF Calls, TypeOK, CallNames

LEMMA CalledTyped ==
  ASSUME TypeOK, NEW c, Called(c)
  PROVE  calls' \in Seq(CallNames)
<1>1. calls \in Seq(CallNames)
  BY DEF TypeOK, CallNames
<1> QED
  BY <1>1 DEF Called

LEMMA HandledTyped ==
  ASSUME TypeOK, inbox # <<>>, inbox' = Tail(inbox)
  PROVE  inbox' \in Seq(SignalNames)
<1>1. inbox \in Seq(SignalNames)
  BY DEF TypeOK, SignalNames
<1> QED
  BY <1>1

LEMMA SentTyped ==
  ASSUME TypeOK, NEW signals \in Seq(SignalNames)
  PROVE  inbox \o signals \in Seq(SignalNames)
<1>1. inbox \in Seq(SignalNames)
  BY DEF TypeOK, SignalNames
<1> QED
  BY <1>1

LEMMA FinishedTyped == \A on : finished(on) \in Seq(SignalNames)
<1>1. <<"scanFinished">> \in Seq(SignalNames) /\ <<>> \in Seq(SignalNames)
  BY DEF SignalNames
<1> QED
  BY <1>1 DEF finished

\* The user's actions only add calls; the controller's slots only take signals.
LEMMA UserInv ==
  ASSUME IInv, user
  PROVE  IInv'
<1> USE DEF IInv
<1>1. UNCHANGED <<workerVars, inbox>>
  BY DEF user, connectSerial, disconnectSerial, leaveTester, write_single, scanSlaves, stopScan
<1>2. /\ connected' \in BOOLEAN /\ connecting' \in BOOLEAN
      /\ scanButton' \in BOOLEAN /\ stopping' \in BOOLEAN
  BY DEF user, connectSerial, disconnectSerial, leaveTester, write_single, scanSlaves, stopScan,
         uiVars, TypeOK
<1>3. PICK cs \in Seq(CallNames) : Calls(cs)
  <2>1. CASE leaveTester
    <3>1. <<"stop", "disconnect">> \in Seq(CallNames) /\ <<"disconnect">> \in Seq(CallNames)
      BY DEF CallNames
    <3> QED
      BY <2>1, <3>1 DEF leaveTester
  <2>2. CASE ~leaveTester
    <3>1. \E c \in CallNames : Calls(<<c>>)
      BY <2>2 DEF user, connectSerial, disconnectSerial, write_single, scanSlaves, stopScan, CallNames
    <3>2. \A c \in CallNames : <<c>> \in Seq(CallNames)
      OBVIOUS
    <3> QED
      BY <3>1, <3>2
  <2> QED
    BY <2>1, <2>2
<1>4. calls' \in Seq(CallNames)
  BY <1>3, CallsTyped
<1> QED
  BY <1>1, <1>2, <1>4 DEF workerVars, CallNames, TypeOK, ReplyInv

LEMMA ControllerInv ==
  ASSUME IInv, controller
  PROVE  IInv'
<1> USE DEF IInv
<1>1. UNCHANGED <<workerVars, calls>> /\ inbox # <<>> /\ inbox' = Tail(inbox)
  BY DEF controller, onScanFinished, onConnectionResult
<1>2. /\ connected' \in BOOLEAN /\ connecting' \in BOOLEAN
      /\ scanButton' \in BOOLEAN /\ stopping' \in BOOLEAN
  BY DEF controller, onScanFinished, onConnectionResult, TypeOK
<1>3. inbox' \in Seq(SignalNames)
  BY <1>1, HandledTyped
<1> QED
  BY <1>1, <1>2, <1>3 DEF workerVars, SignalNames, TypeOK, ReplyInv

-----------------------------------------------------------------------------
(* The worker. *)

\* What a step of the scan chain leaves, when the replies "left" are connected.
LEMMA ScanStepKeeps ==
  ASSUME TypeOK, NEW on \in BOOLEAN, NEW cur \in 1..(ScanEnd + 1), NEW left \in SUBSET Targets,
         scanStep(on, cur, left)
  PROVE  /\ await' \subseteq Targets /\ replies' \subseteq Targets
         /\ scanCur' \in 1..(ScanEnd + 1) /\ scanning' \in BOOLEAN
         /\ inbox' \in Seq(SignalNames)
         /\ left = {} => replies' = await' /\ (await' = {} \/ \E t \in Targets : await' = {t})
<1>1. CASE await' = {} /\ replies' = left /\ scanning' = FALSE
           /\ inbox' = inbox \o finished(on) /\ UNCHANGED scanCur
  BY <1>1, SentTyped, FinishedTyped DEF TypeOK
<1>2. CASE \E next \in cur..lastTarget :
             /\ await' = {next} /\ replies' = left \cup {next}
             /\ scanCur' = next + 1 /\ scanning' = TRUE /\ UNCHANGED inbox
  <2>1. PICK next \in cur..ScanEnd :
          /\ await' = {next} /\ replies' = left \cup {next}
          /\ scanCur' = next + 1 /\ scanning' = TRUE /\ UNCHANGED inbox
    BY <1>2 DEF lastTarget
  <2>2. next \in Targets /\ next + 1 \in 1..(ScanEnd + 1)
    BY ScanAssumption DEF Targets, ScanAssumption
  <2> QED
    BY <2>1, <2>2 DEF TypeOK, SignalNames
<1> QED
  BY <1>1, <1>2 DEF scanStep

LEMMA ScanInv ==
  ASSUME IInv, doScan
  PROVE  IInv'
<1> USE DEF IInv
<1>1. UNCHANGED <<uiVars, client, mixed, late, crashed>> /\ calls' \in Seq(CallNames)
  BY CalledTyped DEF doScan
<1>2. 1 \in 1..(ScanEnd + 1)
  BY ScanAssumption DEF ScanAssumption
<1>3. CASE client /\ ~checkBusy /\ scanStep(TRUE, 1, replies)
  <2>1. await = {} /\ replies \in SUBSET Targets
    BY <1>3 DEF checkBusy, TypeOK
  <2> QED
    BY <1>1, <1>2, <1>3, <2>1, ScanStepKeeps DEF uiVars, CallNames, SignalNames, TypeOK, ReplyInv
<1>4. CASE inbox' = inbox \o finished(client) /\ UNCHANGED <<scanning, scanCur, await, replies>>
  <2>1. inbox' \in Seq(SignalNames)
    BY <1>4, SentTyped, FinishedTyped
  <2> QED
    BY <1>1, <1>4, <2>1 DEF uiVars, CallNames, SignalNames, TypeOK, ReplyInv
<1> QED
  BY <1>3, <1>4 DEF doScan

LEMMA StopScanInv ==
  ASSUME IInv, doStopScan
  PROVE  IInv'
BY CalledTyped DEF doStopScan, uiVars, CallNames, IInv, TypeOK, ReplyInv

LEMMA WriteInv ==
  ASSUME IInv, doWrite
  PROVE  IInv'
<1> USE DEF IInv
<1>1. UNCHANGED <<uiVars, inbox, client, scanning, scanCur, mixed, late, crashed>>
      /\ calls' \in Seq(CallNames)
  BY CalledTyped DEF doWrite
<1>2. CASE UNCHANGED <<await, replies>>
  BY <1>1, <1>2 DEF uiVars, CallNames, TypeOK, ReplyInv
<1>3. CASE ~checkBusy /\ await' = {WriteTarget} /\ replies' = replies \cup {WriteTarget}
  <2>1. WriteTarget \in Targets /\ await = {}
    BY <1>3, ScanAssumption DEF WriteTarget, Targets, ScanAssumption, checkBusy
  <2> QED
    BY <1>1, <1>3, <2>1 DEF uiVars, CallNames, TypeOK, ReplyInv
<1> QED
  BY <1>2, <1>3 DEF doWrite

\* An aborted wait leaves no reply of its own behind.
LEMMA AbortKeeps ==
  ASSUME TypeOK, abortAwait
  PROVE  /\ await' = {} /\ replies' \subseteq Targets
         /\ replies = await => replies' = {}
BY DEF abortAwait, TypeOK

LEMMA DisconnectInv ==
  ASSUME IInv, doDisconnect
  PROVE  IInv'
<1> USE DEF IInv
<1>1. UNCHANGED <<uiVars, scanCur, mixed, late, crashed>> /\ calls' \in Seq(CallNames)
  BY CalledTyped DEF doDisconnect
<1>2. PICK signals \in Seq(SignalNames) : inbox' = (inbox \o finished(scanning)) \o signals
  <2>1. <<"disconnected">> \in Seq(SignalNames) /\ <<>> \in Seq(SignalNames)
    BY DEF SignalNames
  <2> QED
    BY <2>1 DEF doDisconnect
<1>3. inbox' \in Seq(SignalNames)
  <2>1. inbox \o finished(scanning) \in Seq(SignalNames)
    BY SentTyped, FinishedTyped
  <2> QED
    BY <1>2, <2>1
<1>4. abortAwait /\ scanning' = FALSE /\ client' = FALSE
  BY DEF doDisconnect
<1> QED
  BY <1>1, <1>3, <1>4, AbortKeeps DEF uiVars, CallNames, SignalNames, TypeOK, ReplyInv

LEMMA ConnectInv ==
  ASSUME IInv, doConnect
  PROVE  IInv'
<1> USE DEF IInv
<1>1. UNCHANGED <<uiVars, scanCur, mixed, late, crashed>> /\ calls' \in Seq(CallNames)
  BY CalledTyped DEF doConnect
<1>2. /\ \/ abortAwait /\ scanning' = FALSE
         \/ UNCHANGED <<scanning, await, replies>>
      /\ client' \in BOOLEAN
  BY DEF doConnect, TypeOK
<1>3. inbox' \in Seq(SignalNames)
  <2>1. CASE inbox' = Append(inbox, "disconnected")
    BY <2>1 DEF TypeOK, SignalNames
  <2>2. CASE \E opened \in BOOLEAN :
               inbox' = (inbox \o finished(client /\ scanning))
                          \o <<IF opened THEN "connected" ELSE "disconnected">>
    <3>1. PICK opened \in BOOLEAN :
            inbox' = (inbox \o finished(client /\ scanning))
                       \o <<IF opened THEN "connected" ELSE "disconnected">>
      BY <2>2
    <3>2. inbox \o finished(client /\ scanning) \in Seq(SignalNames)
      BY SentTyped, FinishedTyped
    <3> QED
      BY <3>1, <3>2 DEF SignalNames
  <2> QED
    BY <2>1, <2>2 DEF doConnect
<1>4. CASE abortAwait /\ scanning' = FALSE
  BY <1>1, <1>2, <1>3, <1>4, AbortKeeps DEF uiVars, CallNames, SignalNames, TypeOK, ReplyInv
<1>5. CASE UNCHANGED <<scanning, await, replies>>
  BY <1>1, <1>2, <1>3, <1>5 DEF uiVars, CallNames, SignalNames, TypeOK, ReplyInv
<1> QED
  BY <1>2, <1>4, <1>5

LEMMA ContinueKeeps ==
  ASSUME TypeOK, NEW left \in SUBSET Targets, continueWith(left)
  PROVE  /\ await' \subseteq Targets /\ replies' \subseteq Targets
         /\ scanCur' \in 1..(ScanEnd + 1) /\ scanning' \in BOOLEAN
         /\ inbox' \in Seq(SignalNames)
         /\ left = {} => replies' = await' /\ (await' = {} \/ \E t \in Targets : await' = {t})
<1>1. CASE WriteTarget \in await
  BY <1>1 DEF continueWith, TypeOK, SignalNames
<1>2. CASE WriteTarget \notin await
  BY <1>2, ScanStepKeeps DEF continueWith, TypeOK
<1> QED
  BY <1>1, <1>2

\* Before a wait has timed out, the reply that finishes is the awaited one.
LEMMA ReplyFinishes ==
  ASSUME IInv, onAwaitFinished
  PROVE  IInv'
<1> USE DEF IInv
<1>1. UNCHANGED <<uiVars, calls, client, late>>
  BY DEF onAwaitFinished
<1>2. PICK by \in replies :
        IF await = {} THEN crashed' = TRUE
                           /\ UNCHANGED <<inbox, scanning, scanCur, await, replies, mixed>>
        ELSE /\ continueWith(replies \ {by})
             /\ mixed' = (mixed \/ by \notin await)
             /\ UNCHANGED crashed
  BY DEF onAwaitFinished
<1>3. CASE await = {}
  BY <1>1, <1>2, <1>3 DEF uiVars, TypeOK, ReplyInv
<1>4. CASE await # {}
  <2>1. replies \ {by} \in SUBSET Targets /\ by \in replies
    BY DEF TypeOK
  <2>2. continueWith(replies \ {by}) /\ mixed' = (mixed \/ by \notin await) /\ UNCHANGED crashed
    BY <1>2, <1>4
  <2>3. mixed' \in BOOLEAN
    BY <2>2 DEF TypeOK
  <2>4. ~late => replies \ {by} = {} /\ ~mixed'
    BY <1>4, <2>1, <2>2 DEF ReplyInv
  <2> QED
    BY <1>1, <2>1, <2>2, <2>3, <2>4, ContinueKeeps DEF uiVars, SignalNames, TypeOK, ReplyInv
<1> QED
  BY <1>3, <1>4

LEMMA TimeoutInv ==
  ASSUME IInv, onAwaitTimeout
  PROVE  IInv'
<1>1. /\ continueWith(replies) /\ late' = TRUE /\ UNCHANGED <<uiVars, calls, client, mixed, crashed>>
      /\ replies \in SUBSET Targets /\ TypeOK
  BY DEF onAwaitTimeout, IInv, TypeOK
<1> QED
  BY <1>1, ContinueKeeps DEF uiVars, SignalNames, IInv, TypeOK, ReplyInv

LEMMA StepInv == IInv /\ [Next]_vars => IInv'
<1> SUFFICES ASSUME IInv, [Next]_vars PROVE IInv'
  OBVIOUS
<1>1. CASE worker
  BY <1>1, ConnectInv, DisconnectInv, WriteInv, ScanInv, StopScanInv DEF worker
<1>2. CASE UNCHANGED vars
  BY <1>2 DEF vars, uiVars, workerVars, IInv, TypeOK, ReplyInv
<1> QED
  BY <1>1, <1>2, UserInv, ControllerInv, ReplyFinishes, TimeoutInv DEF Next

-----------------------------------------------------------------------------
(* The theorems. *)

\* Calls, signals, flags, the cursor of the scan and the replies, whatever the
\* user does and whatever is late: the invariant that the others follow from.
THEOREM TesterInvariant == Spec => []IInv
BY InitInv, StepInv, PTL DEF Spec

\* Type correctness; the cursor stays within the scan (scanIdStep).
THEOREM TesterTypeCorrect == Spec => []TypeOK
BY TesterInvariant, PTL DEF IInv

\* One request in flight (the Q_ASSERT of TesterWorker::sendAndAwait), for
\* scans of any length.
THEOREM TesterOneReply == Spec => []OneReply
<1>1. IInv => OneReply
  <2> SUFFICES ASSUME IInv, ~late PROVE replies = await /\ Cardinality(await) <= 1
    BY DEF OneReply
  <2>1. CASE await = {}
    BY <2>1, FS_EmptySet DEF IInv, ReplyInv
  <2>2. CASE \E t \in Targets : await = {t}
    BY <2>2, FS_Singleton DEF IInv, ReplyInv
  <2> QED
    BY <2>1, <2>2 DEF IInv, ReplyInv
<1> QED
  BY <1>1, TesterInvariant, PTL

\* What is reported of a slave is its own answer (TesterWorker::onAwaitFinished).
THEOREM TesterAttributes == Spec => []Attributed
<1>1. IInv => Attributed
  BY DEF IInv, ReplyInv, Attributed
<1> QED
  BY <1>1, TesterInvariant, PTL

\* No reply finds an empty continuation before a wait has timed out: only a
\* late event loop can end the process that way.
THEOREM TesterCrashesOnlyLate == Spec => [](crashed => late)
<1>1. IInv => (crashed => late)
  BY DEF IInv, ReplyInv
<1> QED
  BY <1>1, TesterInvariant, PTL
=============================================================================
