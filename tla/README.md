# Formal model of the 4M data logger

TLA+ specifications, TLC configurations and TLAPS proofs for the data logger
(a Qt kiosk application that polls Modbus RTU sensors, drives alarm relays,
stores readings and reports them).  The specifications are translated from the
C++ sources under `src/src`; paths below are relative to that directory.

## 1. Inventory

| Component | State it keeps | Operations | Interacts through | Modelled in |
|---|---|---|---|---|
| Acquisition worker `network/modbus/ModbusWorker` | connection, backoff, timers, request pump, alarm and relay beliefs | start, stop, poll tick, reconnect, replies, timeouts, operator writes | queued calls in, signals out; port guard; serial client | `ModbusWorker` |
| Port guard `utils/modbus/ModbusPortGuard` | one process-wide lock | tryLock, release | called by both Modbus workers | `PortOwner` |
| Store of readings `network/workers/DatabaseWorker`, `SensorDataDao::insertBatch` | queue, spill counter, spill file, table | enqueue, flush, stop, load and save the spill | enqueue from the main thread; one file shared by successive workers | `DatabaseWorker` |
| Monitoring controller `core/MonitorController` | polling/stopping flags, intent after a stop, retry timer, error counter | start, stop, finalize, backstop, retry, watchdog, refresh | queued signals of the workers and timers | `MonitorLifecycle` |
| Modbus tester `core/TesterController`, `network/workers/TesterWorker` | waiting/connecting/scanning flags; client, scan cursor, awaited reply | connect with pause, disconnect, read, write, scan, stop | takes the port from the controller; queued calls to its worker | `MonitorLifecycle`, `TesterScan` |
| Accounts `core/AuthService`, `UserAccountDao`, `core/KioskAccessController` | table of accounts, session, busy flag, idle timer, shown tab, pending request | sign in, lock, unlock, edits, password tasks, requests for a tab | tasks on the thread pool, queued results; the audit log | `Accounts` |
| Configuration `core/SettingsController`, `AppConfigDao`, `core/SensorListModel`, `SensorDao`, `network/rest`, the transaction of `CalibrationController` | the `app_config` row and its revision, the sensor tables, their copies in memory, what services run with | edit, save, cancel, POST, sensor edits, links, calibration, readings | three writers on one database; queued reloads; wiring in `app/main.cpp` | `Configuration` |
| FTP reports `core/ReportController`, `FtpWorker`, `FtpClient`, `ReportLogDao`, `RetentionWorker` | schedule, generation flag, `report_log`, report files, the FTP worker's round | tick, write, log, upload, reconfigure, purge | four threads share a table and a directory; the server | `Reports` |
| Modbus TCP server, codecs and formulas, view models, migrations | see `PROJECT.json` | | | not modelled (section 7) |
| Calibration fits, cryptography, view models, user interface, vendored code | | | | not modelled (section 7) |

What is hard in these parts:

* *Interleaving.* Four threads (main, acquisition, store, tester) exchange queued
  calls and signals.  A stop is two signals, a 5 s timer and an intent chosen
  when the stop began; new requests arrive in between.
* *Failure.* The cable is pulled, a slave does not answer, a write is executed
  but its reply is lost, a worker hangs, the process is killed, the database is
  locked, the spill file cannot be written.
* *Stale copies.* Three copies of "connected", a cached state for every coil, a
  counter for the readings of a file.
* *Progress.* Polling, monitoring, storing and scanning must go on by themselves.

What makes each part correct is the property list of section 4.  Every hazard is
listed in `PROJECT.json` at its line with the properties that watch it.

## 2. Modules

```
PortOwner          what the guard promises (abstract)
  ^ refined by
ModbusWorker       one acquisition worker, its bus and the other user of the port
  ModbusWorkerProofs   theorems
WorkerSessions     what the controller promises to the workers of its sessions (abstract)
  ^ refined by both
DatabaseWorker     the store, several workers on one spill file, crashes
  DatabaseWorkerProofs     theorems
MonitorLifecycle   both controllers, the sessions and the tester's worker, composed
  MonitorLifecycleProofs   theorems
TesterScan         the tester's operations and what its buttons show
  TesterScanProofs     theorems
Accounts           accounts, sessions, lockout, password tasks, tabs
  AccountsProofs       theorems
Configuration      the configuration, the sensors and their copies
  ConfigurationProofs  theorems
Reports            schedule, log, upload and removal of reports
  ReportsProofs        theorems
MC*                instances for TLC
```

**`ModbusWorker`.**  The continuation of the request in flight is the record
`await` (which step of which sensor, which writes are left); `queue` and `pump`
are `m_opQueue` and `m_pumpActive`.  The functions that choose the next step
(`pumpNextOp`, `pollSensorAt`, `writeDoChain`, `readDiChain`, `resetWrites`)
keep their names and return a *control* (what is awaited, what is queued), and
one action per event (`onPollTimer`, `tryReconnect`, `onAwaitFinished` by kind of
request, `onAwaitTimeout`, `stop`, `writeSingleCoil`) takes it.  `connectToPort`
has one action per outcome.  A read yields any set of limits the sensor has,
which stands for the value, the thresholds and the hysteresis.  Writes of one
chain are a set, because the code iterates a hash.  A request fails at once on a
client that is not open, so the whole pump runs dry in one step (`RunDry`).

**`DatabaseWorker`.**  `pc` is where a worker's thread stands inside `start`,
`flush` or `stop`; the queue is taken under the mutex and the rest runs without
it, so `enqueue` comes between any two steps.  A reading is the position at which
it was accepted.  `gone` is a history variable: the readings given up.
`Faults` chooses what may go wrong in a run; whether the spill file could be
removed is not looked at by the code, so with `"unremoved"` a later session may
read it once more.  `mishaps` counts the crashes and the failed removals.

**`WorkerSessions`.**  `DatabaseWorker` has a main thread of its own that starts,
stops and forgets workers; `MonitorLifecycle` has the controller that really does.
`WorkerSessions` is what the two have in common: a worker is started when the last
one is forgotten, asked to stop once, and forgotten when it has stopped, or before
that if it may hang.  Both modules implement it (section 6), so what is shown of
the store is shown for the sessions the controller makes.

**`MonitorLifecycle`.**  `inbox` is the main thread's event queue, `thread` says
what each worker thread of each session does.  Delays are abstracted away: a
pending timer may fire at any time, except that the 5 s backstop finds its stop
unfinished only when `"hang"` is a fault or a signal was lost, and outlives its own
stop only when `"quick"` is a fault.  The code queues `stop()` before it connects
the signal that ends the stop (`MonitorController.cpp:330-343`); `stopPollingWithIntent`
does both at once, and with `"lost"` a worker's signal may go missing, as that of
one that is faster than the connection does.

**`TesterScan`.**  `replies` are the requests whose `finished()` is still
connected to `onAwaitFinished`, `await` the one that is awaited.  The user acts
through the buttons, with the guards the QML views give them.

**`Accounts`.**  A request that hashes a password is a task of the pool with
three steps, `taskReads`, `taskWrites` and `finishTask` on the main thread; locks,
sign-outs, edits and the clock come between them.  A password is right or wrong,
an account is its name (unique, never changed, and an id is never reused either).
A row's `wait` is the lockout it still has to wait; `lockoutExpires` is the
passing of `locked_until`.  `commits` is `runWithAudit`: the change and its entry,
kept in `audit` for one step.  A transaction that fails leaves everything as it
was; the login state is written outside a transaction and may fail unnoticed.
The History and Trending tabs behave like `Monitor`.

**`Configuration`.**  The row has three groups of settings: those a POST may
change (`station`), the uploads, and the rest (`servers`), besides the REST token
and the revision.  `memory` is `m_cfg`, `running` what the services were started
with.  Sensors have a type, a column that GET returns and a coefficient; `links`
and `sessions` refer to them, `readings` are those with rows in `sensor_data`.
Each write is one transaction; one that fails without changing a copy is a
stutter, `saveFails` is the one that does change a copy.  `AppConfigDao::load` is
not a pure read: it returns the row with an empty station code or time zone filled
in (`filled`) and writes that back without a revision, a write that may fail
(`load`).  `station` stands for both columns; the settings screen can empty the
first, which `validate` accepts (`Empty`).  So whatever loads the row, a GET and the
start of polling included, may change it.  The caller's permission
is `Accounts`' business.

**`Reports`.**  Time is the minutes at which the schedule timer ticks; a tick may
be late, and the clock may be set back (`setBack`, remembered in `steady`).  A
report is the window it covers, both ends included as in `aggregateWindow`; its file
is named after the window's end.  `saved` and `cfg` are the settings in the row and
in `m_cfg`, which the schedule reads directly; `wanted` is what `applyServerConfig`
last made of them, for it is not called whenever they change.  A report is logged
with or without a server to send it to.  `log` is `report_log`, `server` the windows
the server holds.  A transfer may fail before or after the server has the file; a
write to the table may be lost.  A round of uploads and a purge take the ids of the
rows that qualify, and work through them from the oldest, as the queries order them.

## 3. Abstraction and bounds

| Bound | Where | Why it is enough |
|---|---|---|
| two or three sensors, one or two relays | `MCModbusWorker` | every kind of sensor; a relay with two causes; a sensor with two limits and two relays |
| `MaxQueue` (ModbusWorker) 0..2 | operator writes waiting | two writes behind a running operation |
| `BackoffInit` 1, `BackoffMax` 1..4 | scaled from 1000 and 30000 ms | the ceiling is reached after one or two doublings |
| `MaxQueue` 2 (DatabaseWorker) | scaled from `kMaxQueueSize` | overflow with two readings |
| `MaxRecords` 4, `MaxCopies` 3, `MaxMishaps` 2 | readings accepted, copies of one, crashes and failed removals | a spill, a reload, an overflow and a later flush; a duplicate by a crash and one by a file that was left |
| two `Sessions` | an abandoned one beside its successor | the code never waits for more than one |
| `MaxErrors` 1..2, `MaxEvents` 1..2, `MaxCalls` 1..2, `MaxTimers` 1 | queues and counters of the lifecycle | a report in the queue when a stop begins; a stale timer beside a live one |
| two `Users`, two threads in `Pool`, `MaxAttempts` 1, `FailureBound` 2 | scaled from 5 attempts | one administrator edits another; the first wrong password locks, the second doubles the lockout |
| `MaxSensors` 2, `MaxRevision` 4, `MaxReloads` 1 | scaled from `INT_MAX` revisions | a link needs two sensors; the largest revision is reached, and a POST follows a POST |
| `Settings`: on, off, on without a server; interval 2 | `MCReports` | every way uploads can differ; TLC keeps the interval, the safety theorems hold for settings that change it |
| `Keep` 2, `MaxRetry` 1, `Horizon` 3 | minutes; scaled from 30 days and 5 retries | two windows, a report old enough to be removed, the last retry |
| `MaxReports` 2, `MaxChanges` 1, `MaxFaults` 1 | reports, applied configurations, restarts and clocks set back | one report is sent or removed while the next is written; a restart between two |
| `ScanEnd` 2, `MaxCalls` 2 | last target of a scan, calls waiting | a target that is not the last, and the last |

Reports of a worker are posted only while the queue is shorter than `MaxEvents`;
other events have one place more, so a flood of reports cannot starve them.

## 4. Runs

Passing runs, and what they show:

| Run | Properties | Distinct states |
|---|---|---|
| `WorkerFailSafe` | `TypeOK`, `OneWakeUp`, `OneInFlight`, `OpenIsConnected`, `BeliefCertain`, `PortGuarded`, `ReportedOnIsOn` | 22 thousand |
| `WorkerConverge` | `RelaysConverge`, `PollsResume` | 14 thousand |
| `Store` | `TypeOK`, `Accounted`, `Chronological`, `FlushAcknowledges`, `StoredOnce`, `SpillKept`, `MemoryDrains` | 89 thousand |
| `LifecycleHang` | `TypeOK`, `OneSession`, `WaitsForStop`, `StopBounded` | 708 thousand |
| `LifecycleReturns` | `StoppedReleasesPort`, `MonitoringReturns` | 128 thousand |
| `Tester` | `TypeOK`, `OneReply`, `Attributed`, `ScanEnds` | 12 thousand |
| `Accounts` | `TypeOK`, `AdminRemains`, `SessionFresh`, `TabsFollowSession`, `ChangesAudited`, `Answered` | 346 thousand |
| `Config` | `TypeOK`, `MemoryFollows`, `NoOrphans`, `RevisionTells` | 2.0 million |
| `Reports` | `TypeOK`, `OnlyEndsShared`, `LogIsTrue`, `ReportsSettle` | 584 thousand |

In plain words:

* *Worker.*  A running worker has exactly one way to wake up (`OneWakeUp`) and
  one request in flight (`OneInFlight`); worker, client and controller agree on
  the connection (`OpenIsConnected`); the port is used only by its owner
  (`PortGuarded`); a relay state believed to be known is the coil's
  (`BeliefCertain`), one newly reported as ON is ON (`ReportedOnIsOn`).  When
  the faults end, polling resumes (`PollsResume`) and the relays settle where
  the alarms want them (`RelaysConverge`).
* *Store.*  No accepted reading disappears unseen (`Accounted`); order is kept
  (`Chronological`); the spill file goes only when its readings are safe
  (`SpillKept`), and the first good flush acknowledges it (`FlushAcknowledges`);
  only a crash, or a spill file that could not be removed, duplicates a reading
  (`StoredOnce`); memory drains once flushes
  succeed (`MemoryDrains`).
* *Lifecycle.*  One session at a time (`OneSession`); every stop is bounded by a
  backstop (`StopBounded`); it ends with the port free (`StoppedReleasesPort`); the tester waits only for a stop
  that is under way (`WaitsForStop`); monitoring comes back (`MonitoringReturns`).
* *Tester.*  One outstanding reply (`OneReply`), attributed to its own request
  (`Attributed`); a scan ends for the buttons too (`ScanEnds`).
* *Accounts.*  An active administrator always remains (`AdminRemains`); a session
  never has more rights than the table gives its account, whatever edits, tasks
  and sign-outs happened since it was opened (`SessionFresh`); an open session is
  under the idle timer and tabs follow it (`TabsFollowSession`); every change of
  rights is committed with an entry that names somebody entitled to it at that
  moment (`ChangesAudited`); an accepted request is answered (`Answered`).
* *Configuration.*  Copies in memory agree with the tables unless edits or a
  reload are outstanding, up to a station code that was saved empty and has been
  filled in on one side only (`MemoryFollows`); whatever GET returns changes only
  with a higher revision (`RevisionTells`); nothing refers to a removed sensor,
  readings still queued at the removal included (`NoOrphans`); only validated
  values are stored (`TypeOK`).
* *Reports.*  A reading is in two reports, sent or still to be sent, rows removed
  by retention included, only if it was taken in the second in which one ends and
  the other starts (`OnlyEndsShared`, local time being UTC and never set back); the
  log is true of the server and the directory (`LogIsTrue`); once uploads stay
  on, every logged report is sent or uses up its retries (`ReportsSettle`).

`WorkerFailSafe` and `Tester` do not check deadlock, because there the process
may die of a late reply (phase `"crashed"`, `crashed`): an abandoned reply that
still finishes calls an empty `std::function`.

Some properties hold only in part of the state space, and the cfg or the
property says which:

* `BeliefCertain` and `RelaysConverge` need an error answer to mean that the
  write was not executed (`LostReplies = {FALSE}`; an aborted or timed-out
  request may still have been executed).  `WorkerLostReply` shows why.
* `ReportedOnIsOn` says nothing of OFF: an unknown coil is published as OFF.
* `Store` has one worker on the spill file at a time.  A worker abandoned by the
  backstop shares the file with its successor, and they then remove or replace
  what the other holds; that worker's readings count as given up.
* `StoredOnce` allows one more copy for each crash between a commit and the
  removal of the file, and for each removal that fails.
* Readings given up (`gone`) are those of an overflow, of a refused row (also
  one refused because the database is locked), of a spill file that cannot be
  read or written, of the race in `loadSpilledQueue`, of an abandoned worker,
  and those that were only in memory at a crash.  `Accounted` does not say that these
  are kept; what it rules out is a reading lost for any other reason.
* `StoppedReleasesPort` and `MonitoringReturns` need workers that
  answer and backstops that do not outlive their stop (no `"hang"`, no
  `"quick"`); otherwise late signals and timers are counted for the wrong stop.
  `MonitoringReturns` also excludes configurations saved during a retry (section
  5) and stations that start without sensors.
* `OneReply` and `Attributed` hold until a wait times out (`late`): the reply
  stays connected and is taken for the answer of the next request.
* `ScanEnds` allows a scan to end in "Stopping" (section 5).
* `MemoryFollows` does not say which of row and copy holds the filled-in station
  code, and `TypeOK` speaks of the writers that are modelled (section 7).
* `OnlyEndsShared` needs a device in UTC (`Offset = 0`); `ReportsOverlap` shows why.
  It also needs a clock that is not set back (a window then starts before the last one
  ended; after a restart the persisted end counts only if it lies before now,
  `ReportController.cpp:231`), a restart that takes long enough for the schedule timer to reach the
  next minute, and a newest row of the log that outlives its interval
  (`Keep >= interval`: 30 days against an hour).
* `LogIsTrue` needs names that do not repeat, hence a clock that is not set back, too.  The suffix `HHmmss`, which the
  settings screen offers, repeats every day: a new report may then replace one
  that still waits, and retention may remove it.
* A change of a link is neither in the revision nor in what GET returns;
  `RevisionTells` is about the fields GET returns.

## 5. Disagreements between the code and what is said of it

Each is a run that TLC ends with a counterexample; `PROJECT.json` quotes the line.

| Run | Property | What the code does |
|---|---|---|
| `WorkerLostReply` | `SkipsOnlyWhenCertain` | a write answered by an error but executed leaves a wrong "certain" coil state, and the correcting write is skipped |
| `StoreOverflow` | `SpillNotReplaced` | an overflow drops restored readings and the file that holds them is replaced |
| `ReportsOverlap` | `OnlyEndsShared` | the end of the last window is stored in UTC and read as local time, so after a restart the next window overlaps it |

Met while modelling, and not the subject of a run (paths with lines):

* `ModbusWorker.cpp:556`: after a hang the heartbeat timer is never started again;
  the watchdog then stops a healthy worker.
* `MonitorController.cpp:393`: the 200 ms timer of a restart is not cancelled by a
  stop, and starts polling while the tester is connected.
* `MonitorController.cpp:440`: a configuration saved during a retry cancels the
  retry and schedules nothing, against the comment at line 433.
* `TesterWorker.cpp:422`: after Stop scan the button says "Stopping…" for ever.
* `SettingsController.cpp:364`: a new REST token announces `configSaved`, so the
  services restart with edits that were neither validated nor saved
  (`regenerateRestToken` in `Configuration`; `main.cpp:277` says "when saved").
* `ReportController.cpp:225`: a late tick or a report that cannot be written leaves
  readings that no report covers, since the next window starts an interval
  before now.
* `AppConfigDao.cpp:96`: an empty station code is filled in whenever the row is
  read, without a new revision, and not once as the comment at lines 93-95 says ("One-time
  migration"): `SettingsController::validate` accepts an empty one, which the settings
  screen can save although a POST may not (`RestConfigUpdater.cpp:58-60`).  `m_cfg` keeps
  the empty value until it is loaded again.
* `SensorDataDao.cpp:142`: `BETWEEN` includes both ends, and the ends are whole
  seconds, so a reading of the second in which one report ends and the next starts is
  averaged into both.
* `main.cpp:294`: uploads that are switched off in the settings screen stop at once;
  if the screen is then left without saving (`SettingsView.qml:47`), `loadConfig`
  turns `serverActive` on again and nobody starts the worker (`edit`, `loadConfig`
  in `Reports`).  `ReportsSettle` is about uploads that were applied.
* `MonitorController.cpp:330`: `stop()` is queued before the signal that ends the
  stop is connected; a worker that is faster costs the 5 s of the backstop.
* `DatabaseWorker.cpp:184`: the result of `QFile::remove` is ignored, so a file that
  cannot be removed is stored again by every later session.
* `Database.cpp:472`: a database of a newer version is refused only after
  `createTables` and `migrate` have altered it.
* `RetentionWorker.cpp:22`: `start(kFirstPurgeDelayMs)` replaces the daily interval,
  so the purge runs every minute; the comment says once, then daily.

## 6. Fairness and proofs

*Fairness.*  Qt delivers queued events and fires armed timers, so handlers and
timer actions are weakly fair.  `ModbusWorker`: a request is answered or times
out (the reply timer is armed for each), `reconnectOpens` is fair because a
`tryReconnect` is always pending after a loss and a port that works can be opened,
and the tester gives the port back.  Its liveness properties are stated for behaviours in which
the faults end (`<>[][~Fault]_vars => ...`).  `DatabaseWorker`: the flush timer
fires and a queued `stop` runs.  `MonitorLifecycle`: both event queues and every
timer; workers only when they do not hang.  `Accounts`: the pool and the main
thread's events (`TaskStep`).  `Reports`: the FTP worker's thread (every step of a
transfer has a timeout), and strongly the upload whose new status reaches the
table, since the database does not refuse writes for ever.  No fairness is
assumed of users, faults, the clock, the watchdog or the workers' reports.

*Proofs* (`ModbusWorkerProofs`, for every sensor list, link set, queue bound,
backoff and fault constant allowed by `ConfigAssumption`).  The theorems follow
from one inductive invariant `IInv == TypeOK /\ LinkInv /\ PumpInv`: `LinkInv`
relates client, guard, flags and timers, `PumpInv` the pump to the request in
flight.  Neither is inductive alone: a reply is only handled on an open client,
and the client is only open between a successful connect and the step that loses
it.  `WorkerInit` and `WorkerStep` (one case per action) give `WorkerInvariant`;
type correctness, `OneWakeUp`, `OneInFlight` and `OpenIsConnected` are
consequences.  `WorkerGuardsPort` proves the refinement:
every step of the worker maps to a step of `PortOwner` or to a stutter.
`WorkerBeliefsCertain` proves `BeliefCertain` under the assumption
`TRUE \notin LostReplies`; `WorkerLostReply` shows that the assumption is needed.

`WorkerReportsOn` proves `ReportedOnIsOn` from it: a published ON comes from a
certain belief, or from the write that has just been confirmed.

`MonitorLifecycleProofs` proves, for any set of sessions, error limit, faults,
edits and queue bounds allowed by `LifecycleAssumption`, that the lifecycle is
type correct and keeps `OneSession`, `StopBounded` and `WaitsForStop`, workers
that hang and stale timers included.  The first two need only each other
(`MonitorInv`).  `WaitsForStop` is not inductive: a late `connectionResult` would
stop the deadline of a new wait.  `ConnectInv` rules that out: unless the
controller is connecting or connected, no result is queued, no `connect` is
queued, and the tester has not got the port; and a "disconnected" is always the
last result.  The lemmas on queues (`HandledEvent`, `SentQuietly`, `SentResult`,
`HandledCall`, `QueuedCall`) say what handling and sending do to those facts, so
that the step of each action is propositional.

`LifecycleReleasesPort` proves `StoppedReleasesPort` for `Prompt` faults (neither
`"hang"` nor `"quick"`; otherwise a late signal is counted for the wrong stop).
What has to be known is where the signals of a stop are: `PromptInv` says that the
`asyncStopped` events in the queue are the awaited ones (`pending`) less those of
the workers that are still asked to stop, that threads of other sessions have
ended, and that a session with the port has a thread.  So the last signal finds
no thread left.  Signals may be lost: there are then at most as many as are awaited
(`Few`), and the backstop ends the stop only when all workers have ended (`answered`).

`LifecycleSessions` and `StoreSessions` prove that `MonitorLifecycle` and
`DatabaseWorker` implement `WorkerSessions` (`StoreKept`, `SessionKept`).  The first
maps the thread of the session's store; that it is never forgotten before it has
stopped, where faults are `Prompt`, is again `PromptInv`.  The second needs only
`SessionInv`, and holds for any number of workers, abandoned ones included.  Its
`"hang"` stands for both faults of the lifecycle.  The end of the process is a
step of the store's sessions only.

`AccountsProofs` proves, for any names, any number of threads and any
`MaxAttempts`, the properties `AdminRemains`, `SessionFresh`, `TabsFollowSession`
and `ChangesAudited`.  None is inductive: a session and a task are decided on a
copy of the account made earlier.  `IInv` has three parts.  `TableInv`: rows are
rows, and a table that is not empty has an active administrator.  `SessionInv`:
`SessionFresh` and the session's type.  `PoolInv`: at most one thread has a task,
the busy flag is set meanwhile, and `TaskInv` says for each kind of task what
stays true until its result is taken: while a sign-in hashes nobody is signed in,
so nobody edits the account; during an unlock the session can only stay locked or
end; the table stays empty until the first account is there; a password
belongs to the session's account or to nobody's; the administrator who asked for
an account or a reset stays an administrator in good standing.  The last one is
also why an entry written after the hash is still rightful.  Edits need an open session, so during tasks of
the first two kinds there are none (`EditInv`).  `TabsInv` is then kept by every
announcement of a session (`BecomeTabs`).  `AccountsTypeCorrect` is separate, as it
needs finitely many names: the number of users is counted along with the rows
(`CountInv`), and every lockout is one of those `lockSecondsFor` gives
(`LockoutBounded`).

`ConfigurationProofs` proves `TypeOK`, `MemoryFollows`, `NoOrphans` and
`RevisionTells` for any settings, number of sensors, largest revision and number
of queued reloads.  `RowInv` relates the row to the copies (nothing invalid is
stored; without edits and reloads the settings agree once filled in; a copy is never
newer than the row; lemmas `Filled` and `Loaded` say what a load may change) and `TableInv` is about sensors and what refers to them.  The two are
kept apart because the writers of the tables only raise the revision of the row.
`RevisionTells` follows from `RevisionCases`: every step either raises the row's
revision by one or leaves the sensors and what a load returns of the row alone,
because a save counts from the row and not from its copy.

`TesterScanProofs` proves `TypeOK`, `OneReply` and `Attributed` for scans of any
length, any set of user actions and any bound.  All rest on `ReplyInv`: until a
wait times out, the worker listens to the reply it awaits and to no other.  Hence
every continuation exists, too: the process can only die of a reply after a wait
has timed out (`TesterCrashesOnlyLate`).

`DatabaseWorkerProofs` proves every safety property of the run `Store` for any
size of the queue, any number of readings and mishaps and any faults, as long as
one worker at a time touches the spill file (`Alone`: nothing hangs, or there is
one worker object).  With several workers and hangs the statements are false,
as section 4 says.  `IInv` has a part for each worker (`WorkerInv`) and
one for the file.  `SpillInv` is the core of it: what a loaded worker has ahead of
it, the batch of a flush or else the queue, covers the spill file but for readings
that are written or given up, and is no shorter than `spilled`; so a file whose
count reaches zero is safe to remove, although the count is of positions and
says nothing of which readings they are.  `OrderInv` puts file, batch and queue in
the order of time.  `CopyInv` is what makes `StoredOnce` inductive: what waits to be
written was written at most once for each mishap, and a spill file that is not
accounted for (`spilled = 0`) shares no reading with the memory.

`ReportsProofs` proves `TypeOK` and `LogIsTrue` for any settings, retention and
offset of the clock.  `BInv` (types, and lists of rows that still wait, or that were
sent: `ListsInv`; a row of one list is never changed by the other worker) holds
whatever the clock does.  The rest, `Sound`, holds until it is set back, which is
known from `steady`: windows never end at the same time, so each report has a file of
its own (`NamesInv`, `JobInv`, `FilesInv`).  `OnlyEndsShared` is proved for a clock
in UTC (`Utc`), from `WInv`: of any two windows reported one ends before, or when,
the other starts (`ApartInv`); every window on the server has its row in the log or
ended an interval ago, a row that is about to be removed is older than `Keep`, and the
window that falls due starts where everything reported ends.  This is where `Keep >=
interval` is needed: if the newest row could be removed sooner, a restart
would no longer know where the last window ended.  That a reading in two reports lies
in the shared second is then arithmetic on closed windows (`ApartCovered`).

*Only model-checked:* the liveness properties `PollsResume`, `RelaysConverge`,
`MemoryDrains`, `MonitoringReturns`, `ScanEnds`, `Answered` and `ReportsSettle`
(liveness under fairness is outside what the prover handles).  Every invariant and
action property of the passing runs is a theorem, under the hypotheses named
above.  The refinements of `WorkerSessions` are proved and belong to no run.

## 7. Not modelled

Values, units, formulas and formatting of readings; the permissions of tester
calls (each first asks `AuthService::authorize`); status texts; the length of the
retry delay; `stopPollingSync` and the shutdown order at process exit; the reply
of a read to the user interface; the lines of a report; audit entries of sign-ins
and refusals; the age of readings, log files and disk space in `RetentionWorker`;
parsing, rate limits and authentication in the REST service.

Writers of the configuration that are not actions of `Configuration`:
`SettingsController::saveTheme` and `saveSerialConfig` (lines 166-187 and 293-321)
save `m_cfg` without `validate()`, but nothing in C++ or QML calls them, and a
caller would make `TypeOK` fail after an unsaved invalid edit; `syncSystemTime`
(279-291) saves only if the time zone is still empty directly after a load, which fills it
in.  In `Reports`, the limits of the queries and the ticks before
`serverStartTime` are left out.

Reads that fail are modelled only where the code has an answer of its own.
`UserAccountDao::count` returns -1 when its query fails, which
`AuthService::updateUserCount` (line 197) takes for an empty table and
`createFirstAdmin` (line 569) lets pass; in `Accounts` queries that read succeed.

Left out altogether: the Modbus TCP server (it only publishes the readings cache
in registers), codecs, formulas and downsampling (pure functions on floating
point values), the calibration fits (floating point), cryptography and the
device lock, migrations (one sequence of idempotent SQL statements, with the
schema version written last), view models and QML layout, the vendored QR code, packaging.

## 8. Plan

Done: all components of section 2, with proofs of every invariant and action
property that the runs check.  Next, in this order:

1. An abstract store (accepted, waiting, stored, given up) that `DatabaseWorker`
   implements, with the causes for which a reading may be given up.
2. The same link as `WorkerSessions` for the tester: `MonitorLifecycle` and
   `TesterScan` implement one abstract connection.
3. `Accounted` where an abandoned worker shares the spill file with its successor:
   what of it remains true.
