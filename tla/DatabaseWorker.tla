--------------------------- MODULE DatabaseWorker ---------------------------
(***************************************************************************)
(* The store of readings (network/workers/DatabaseWorker.cpp with          *)
(* SensorDataDao::insertBatch): readings are queued by the main thread,    *)
(* written in batches by the worker's thread, and what cannot be written   *)
(* at shutdown is spilled to a file that the next worker loads.            *)
(*                                                                         *)
(* A flush takes the queue under the mutex and works on it without, so     *)
(* readings arrive between its steps, and the process may die between any  *)
(* two of them.  MonitorController makes one worker per session; a worker  *)
(* that does not stop in time is abandoned, and lives on beside the next.  *)
(*                                                                         *)
(* A reading is a number: the position at which it was accepted.           *)
(***************************************************************************)
EXTENDS Integers, Sequences, SequencesExt, FiniteSets

CONSTANTS
  Workers,     \* the worker objects that may exist at a time
  NoWorker,    \* m_dbWorker is null
  MaxQueue,    \* kMaxQueueSize
  Corrupt,     \* the readings the database refuses
  Faults,      \* what may go wrong, a subset of AllFaults
  MaxRecords,  \* bound: readings accepted
  MaxCopies,   \* bound: times a reading is written
  MaxMishaps   \* bound: times the process dies or the spill file is not removed

AllFaults == {"hang",        \* a worker does not stop within the backstop
              "race",        \* a reading is queued during loadSpilledQueue
              "locked",      \* another connection holds the write lock too long
              "unreadable",  \* the spill file cannot be opened or parsed
              "unremoved",   \* the spill file cannot be removed
              "unsaved"}     \* the spill file cannot be written

ASSUME StoreAssumption ==
  /\ NoWorker \notin Workers
  /\ MaxQueue \in Nat \ {0} /\ MaxRecords \in Nat
  /\ MaxCopies \in Nat /\ MaxMishaps \in Nat
  /\ Faults \subseteq AllFaults

Records == 1..MaxRecords

VARIABLES
  current,   \* MonitorController::m_dbWorker
  asked,     \* the workers whose stop() is queued and has not begun
  quit,      \* the abandoned workers: their thread was told to quit
  pc,        \* what each worker's thread is doing
  running,   \* m_running
  queue,     \* m_queue
  batch,     \* the local batch of flush()
  spilled,   \* m_spilledCount
  file,      \* the spill file, empty = none
  copies,    \* how often each reading is in table sensor_data
  accepted,  \* history: readings accepted so far
  gone,      \* history: readings given up
  mishaps    \* history: how often the process died or the file was not removed

workerVars == <<asked, quit, pc, running, queue, batch, spilled>>
storeVars == <<file, copies>>
history == <<accepted, gone, mishaps>>
vars == <<current, workerVars, storeVars, history>>

Held(w) == ToSet(queue[w]) \cup ToSet(batch[w])
Memory == UNION {Held(w) : w \in Workers}
Written == {r \in Records : copies[r] > 0}
GiveUp(rs) == gone' = gone \cup rs
At(w, label) == pc[w] = label
Step(w, from, to) == At(w, from) /\ pc' = [pc EXCEPT ![w] = to]

Init ==
  /\ current = NoWorker /\ asked = {} /\ quit = {}
  /\ pc = [w \in Workers |-> "off"]
  /\ running = [w \in Workers |-> FALSE]
  /\ queue = [w \in Workers |-> <<>>]
  /\ batch = [w \in Workers |-> <<>>]
  /\ spilled = [w \in Workers |-> 0]
  /\ file = <<>>
  /\ copies = [r \in Records |-> 0]
  /\ accepted = 0
  /\ gone = {}
  /\ mishaps = 0
-----------------------------------------------------------------------------
(***************************************************************************)
(* The main thread (MonitorController).                                    *)
(***************************************************************************)
\* A new session: start() runs on a fresh thread, up to loadSpilledQueue.
startWorkerThreads(w) ==
  /\ current = NoWorker
  /\ Step(w, "off", "loading")
  /\ current' = w
  /\ running' = [running EXCEPT ![w] = TRUE]
  /\ UNCHANGED <<asked, quit, queue, batch, spilled, storeVars, history>>

\* enqueue under the mutex: at the limit the oldest reading makes room.
enqueue ==
  /\ current # NoWorker /\ current \notin asked
  /\ running[current]
  /\ accepted < MaxRecords
  /\ LET q == queue[current]
         full == Len(q) >= MaxQueue
     IN /\ queue' = [queue EXCEPT ![current] =
                       Append(IF full THEN Tail(q) ELSE q, accepted + 1)]
        /\ GiveUp(IF full THEN {Head(q)} ELSE {})
  /\ accepted' = accepted + 1
  /\ UNCHANGED <<current, mishaps, asked, quit, pc, running, batch, spilled, storeVars>>

stopPollingWithIntent ==
  /\ current # NoWorker /\ current \notin asked /\ running[current]
  /\ asked' = asked \cup {current}
  /\ UNCHANGED <<current, quit, pc, running, queue, batch, spilled, storeVars,
                 history>>

\* workerStopped arrived.
finalizeStop ==
  /\ current # NoWorker /\ At(current, "off")
  /\ current' = NoWorker
  /\ UNCHANGED <<workerVars, storeVars, history>>

\* The 5 s backstop: forget the worker and tell its thread to quit.
forceFinalize ==
  /\ "hang" \in Faults
  /\ current # NoWorker /\ ~At(current, "off")
  /\ current \in asked \/ ~running[current]
  /\ current' = NoWorker
  /\ quit' = quit \cup {current}
  /\ UNCHANGED <<asked, pc, running, queue, batch, spilled, storeVars, history>>
-----------------------------------------------------------------------------
(***************************************************************************)
(* The worker's thread.                                                    *)
(***************************************************************************)
\* Seeded fault of loadSpilledQueue: the file is removed when it is read.
loadAndRemove(w) ==
  /\ Step(w, "loading", "idle")
  /\ queue' = [queue EXCEPT ![w] = file \o @]
  /\ spilled' = [spilled EXCEPT ![w] = Len(file)]
  /\ file' = <<>>
  /\ UNCHANGED <<current, asked, quit, running, batch, copies, history>>

\* The spilled readings go to the front; the file stays until they are
\* written.  The queue is touched without the mutex although m_running is
\* already set: a reading that arrives meanwhile may be overwritten.  A file
\* that cannot be read is ignored, and stays until the next one replaces it.
loadSpilledQueue(w) ==
  /\ Step(w, "loading", "idle")
  /\ \/ /\ queue' = [queue EXCEPT ![w] = file \o @]
        /\ spilled' = [spilled EXCEPT ![w] = Len(file)]
        /\ UNCHANGED gone
     \/ /\ "race" \in Faults /\ queue[w] # <<>>
        /\ queue' = [queue EXCEPT ![w] = file]
        /\ spilled' = [spilled EXCEPT ![w] = Len(file)]
        /\ GiveUp(ToSet(queue[w]) \ ToSet(file))
     \/ /\ "unreadable" \in Faults
        /\ GiveUp(ToSet(file) \ Written)
        /\ UNCHANGED <<queue, spilled>>
  /\ UNCHANGED <<current, asked, quit, running, batch, storeVars, accepted, mishaps>>

\* Seeded fault of flushTake: only the oldest reading is taken.
flushTakeOne(w, next) ==
  /\ queue[w] # <<>>
  /\ Step(w, "idle", next)
  /\ batch' = [batch EXCEPT ![w] = <<Head(queue[w])>>]
  /\ queue' = [queue EXCEPT ![w] = Tail(@)]

\* flush: take the queue under the mutex.
flushTake(w, next) ==
  /\ queue[w] # <<>>
  /\ Step(w, "idle", next)
  /\ batch' = [batch EXCEPT ![w] = queue[w]]
  /\ queue' = [queue EXCEPT ![w] = <<>>]

\* Seeded fault of onFlushTimer: a single reading is not worth a flush.
onFlushTimerBulk(w) ==
  /\ running[w] /\ Len(queue[w]) > 1
  /\ flushTake(w, "flushing")
  /\ UNCHANGED <<current, asked, quit, running, spilled, storeVars, history>>

onFlushTimer(w) ==
  /\ running[w]
  /\ flushTake(w, "flushing")
  /\ UNCHANGED <<current, asked, quit, running, spilled, storeVars, history>>

\* stop: m_running is cleared and a last flush drains the queue.
stop(w) ==
  /\ w \in asked /\ At(w, "idle")
  /\ asked' = asked \ {w}
  /\ running' = [running EXCEPT ![w] = FALSE]
  /\ \/ flushTake(w, "flushing")
     \/ queue[w] = <<>> /\ Step(w, "idle", "saving") /\ UNCHANGED <<queue, batch>>
  /\ UNCHANGED <<current, quit, spilled, storeVars, history>>

\* Where a flush returns to: the event loop, or the rest of stop().
afterFlush(w) == IF running[w] THEN "idle" ELSE "saving"

\* Seeded fault of requeue: the batch goes behind what arrived meanwhile.
requeueBehind(w) == queue' = [queue EXCEPT ![w] = @ \o batch[w]]

\* Seeded fault of requeue: what arrived meanwhile is overwritten.
requeueOver(w) == queue' = [queue EXCEPT ![w] = batch[w]]

requeue(w) == queue' = [queue EXCEPT ![w] = batch[w] \o @]

\* The connection cannot be opened, or the commit fails: back to the front.
flushFails(w) ==
  /\ Step(w, "flushing", afterFlush(w))
  /\ requeue(w)
  /\ batch' = [batch EXCEPT ![w] = <<>>]
  /\ UNCHANGED <<current, asked, quit, running, spilled, storeVars, history>>

\* insertBatch: a row that cannot be inserted is skipped and the rest is
\* committed.  While another connection writes, any row may fail.
insertBatch(w) ==
  /\ Step(w, "flushing", "written")
  /\ \E failed \in SUBSET ToSet(batch[w]) :
       /\ Corrupt \cap ToSet(batch[w]) \subseteq failed
       /\ failed \subseteq Corrupt \/ "locked" \in Faults
       /\ LET good == ToSet(batch[w]) \ failed
          IN /\ \A r \in good : copies[r] < MaxCopies
             /\ copies' = [r \in Records |->
                             IF r \in good THEN copies[r] + 1 ELSE copies[r]]
       /\ GiveUp(failed)
  /\ UNCHANGED <<current, asked, quit, running, queue, batch, spilled, file, accepted, mishaps>>

\* Seeded fault of consumed: a batch accounts for every spilled reading but one.
consumedShort(w) == spilled[w] - 1

\* Seeded fault of consumed: the batch is counted without regard to the spill.
consumedBatch(w) == Len(batch[w])

consumed(w) == IF spilled[w] <= Len(batch[w]) THEN spilled[w] ELSE Len(batch[w])

\* Whether the removal succeeded is not looked at: the next session reads a
\* file that was left once more.
removeSpill ==
  \/ file' = <<>> /\ UNCHANGED mishaps
  \/ /\ "unremoved" \in Faults /\ mishaps < MaxMishaps
     /\ mishaps' = mishaps + 1
     /\ UNCHANGED file

\* After the commit: the spill file goes once all it held is written.
flushAcks(w) ==
  /\ Step(w, "written", afterFlush(w))
  /\ spilled' = [spilled EXCEPT ![w] = IF @ > 0 THEN @ - consumed(w) ELSE @]
  /\ IF spilled[w] > 0 /\ spilled[w] = consumed(w) THEN removeSpill ELSE UNCHANGED <<file, mishaps>>
  /\ batch' = [batch EXCEPT ![w] = <<>>]
  /\ UNCHANGED <<current, asked, quit, running, queue, copies, accepted, gone>>

\* The worker object is deleted with its thread.
retire(w) ==
  /\ queue' = [queue EXCEPT ![w] = <<>>]
  /\ spilled' = [spilled EXCEPT ![w] = 0]
  /\ quit' = quit \ {w}

\* The end of stop: what is left is spilled, replacing the file, or lost if
\* the file cannot be written.
saveSpilledQueue(w) ==
  /\ Step(w, "saving", "off")
  /\ \/ /\ queue[w] # <<>>
        /\ file' = queue[w]
        /\ UNCHANGED gone
     \/ /\ queue[w] = <<>> \/ "unsaved" \in Faults
        /\ GiveUp(ToSet(queue[w]) \ ToSet(file))
        /\ UNCHANGED file
  /\ retire(w)
  /\ UNCHANGED <<current, asked, running, batch, copies, accepted, mishaps>>

\* An abandoned thread leaves its event loop before stop() is dispatched.
quitThread(w) ==
  /\ w \in quit /\ running[w] /\ Step(w, "idle", "off")
  /\ running' = [running EXCEPT ![w] = FALSE]
  /\ asked' = asked \ {w}
  /\ GiveUp(ToSet(queue[w]) \ ToSet(file))
  /\ retire(w)
  /\ UNCHANGED <<current, batch, storeVars, accepted, mishaps>>

\* The process dies: only the file and the database survive.
crash ==
  /\ mishaps < MaxMishaps
  /\ mishaps' = mishaps + 1
  /\ current' = NoWorker /\ asked' = {} /\ quit' = {}
  /\ pc' = [w \in Workers |-> "off"]
  /\ running' = [w \in Workers |-> FALSE]
  /\ queue' = [w \in Workers |-> <<>>]
  /\ batch' = [w \in Workers |-> <<>>]
  /\ spilled' = [w \in Workers |-> 0]
  /\ GiveUp(Memory \ (ToSet(file) \cup Written))
  /\ UNCHANGED <<storeVars, accepted>>

flushStep(w) == onFlushTimer(w) \/ insertBatch(w) \/ flushAcks(w)
stopStep(w) == stop(w) \/ saveSpilledQueue(w)

Next ==
  \/ enqueue \/ stopPollingWithIntent \/ finalizeStop \/ forceFinalize \/ crash
  \/ \E w \in Workers :
       \/ startWorkerThreads(w) \/ loadSpilledQueue(w)
       \/ flushStep(w) \/ flushFails(w) \/ stopStep(w) \/ quitThread(w)

Spec == Init /\ [][Next]_vars

\* The flush timer fires, the thread goes on, and a queued stop() is run.
FairSpec ==
  Spec /\ \A w \in Workers : /\ WF_vars(loadSpilledQueue(w))
                             /\ WF_vars(flushStep(w)) /\ WF_vars(stopStep(w))
-----------------------------------------------------------------------------
Labels == {"off", "loading", "idle", "flushing", "written", "saving"}

\* The variables hold values of their types.
TypeOK ==
  /\ current \in Workers \cup {NoWorker}
  /\ asked \subseteq Workers /\ quit \subseteq Workers
  /\ pc \in [Workers -> Labels]
  /\ running \in [Workers -> BOOLEAN]
  /\ queue \in [Workers -> Seq(Records)]
  /\ batch \in [Workers -> Seq(Records)]
  /\ spilled \in [Workers -> Nat]
  /\ file \in Seq(Records)
  /\ copies \in [Records -> 0..MaxCopies]
  /\ accepted \in 0..MaxRecords
  /\ gone \subseteq Records
  /\ mishaps \in 0..MaxMishaps

(***************************************************************************)
(* No reading disappears: each one that was accepted is in memory, in the  *)
(* spill file or in the database, or was given up by one of the steps that *)
(* say so: an overflow, a refused row, a spill file that cannot be read or *)
(* written, the race of loadSpilledQueue, an abandoned worker, a crash.    *)
(***************************************************************************)
Accounted == 1..accepted \subseteq Memory \cup ToSet(file) \cup Written \cup gone

(***************************************************************************)
(* A reading that reached the spill file survives every crash: the file is *)
(* only removed or replaced when each of its readings is in the database,  *)
(* in the new file, or was given up.                                       *)
(***************************************************************************)
SpillKept ==
  [][file' # file => ToSet(file) \subseteq (ToSet(file) \cup Written \cup gone)']_vars

(***************************************************************************)
(* Readings stay in the order they were accepted: requeued batches and     *)
(* restored spills go before what arrived later.                           *)
(***************************************************************************)
Chronological ==
  \A w \in Workers :
    LET s == batch[w] \o queue[w]
    IN \A i, j \in DOMAIN s : i < j => s[i] < s[j]

(***************************************************************************)
(* A batch that was written holds every spilled reading that is not        *)
(* acknowledged yet, however readings overflowed or were requeued since    *)
(* they were loaded: the first flush that succeeds acknowledges the file.  *)
(***************************************************************************)
FlushAcknowledges ==
  \A w \in Workers : At(w, "written") => spilled[w] <= Len(batch[w])

(***************************************************************************)
(* A reading is stored once, and at most once more each time the process   *)
(* dies (between the commit and the removal of the spill file) or the      *)
(* removal fails.                                                          *)
(***************************************************************************)
StoredOnce == \A r \in Records : copies[r] <= 1 + mishaps

(***************************************************************************)
(* A running or stopping worker gets rid of what it holds: once flushes no *)
(* longer fail, every accepted reading leaves the memory.                  *)
(***************************************************************************)
MemoryDrains ==
  <>[][~\E w \in Workers : flushFails(w)]_vars =>
    \A r \in Records : r <= accepted ~> r \notin Memory

(***************************************************************************)
(* The sessions of the main thread as this module has them are those that  *)
(* MonitorController makes: both modules implement WorkerSessions, and the *)
(* steps of one that a session allows the other allows too.                *)
(***************************************************************************)
SessionState ==
  [w \in Workers |-> IF At(w, "off") THEN "off"
                     ELSE IF w \in quit THEN "quit"
                     ELSE IF w \in asked \/ ~running[w] THEN "asked" ELSE "on"]

Session == INSTANCE WorkerSessions
             WITH Sessions <- Workers, NoSession <- NoWorker, MayHang <- "hang" \in Faults,
                  MayDie <- TRUE, state <- SessionState

SessionKept == Session!Spec

(***************************************************************************)
(* What a comment of the code says and the run StoreOverflow refutes.      *)
(***************************************************************************)
\* saveSpilledQueue: "the current queue already holds the m_spilledCount
\* records of the old spill file", which it replaces without merging.
SpillNotReplaced ==
  [][\A w \in Workers : saveSpilledQueue(w) /\ file' # file =>
       ToSet(file) \subseteq ToSet(file') \cup Written]_vars
=============================================================================
