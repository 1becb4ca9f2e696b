------------------------------ MODULE Reports ------------------------------
(***************************************************************************)
(* Periodic reports: ReportController decides when a report is due and     *)
(* which window of readings it covers; a thread of the pool writes the     *)
(* file and logs it in table report_log; FtpWorker sends the files that    *)
(* the log says are waiting; RetentionWorker removes old ones.             *)
(*                                                                         *)
(* The four threads share the table and the directory of report files, and *)
(* the process may end between any two of their steps. A transfer may fail *)
(* before or after the server has stored the file.                         *)
(*                                                                         *)
(* Time is counted in ticks of the schedule timer (minutes), which may be  *)
(* late; the clock may be set back, by NTP or with the time zone. A file   *)
(* is named after the end of its window; its contents are abstracted to    *)
(* that window. Status texts and the counter of the user interface are     *)
(* left out.                                                               *)
(***************************************************************************)
EXTENDS Integers, Sequences, FiniteSets, SequencesExt

CONSTANTS
  Settings,    \* the choices of serverActive, serverSendInterval and an address of a server
  Offset,      \* local time minus UTC
  MaxRetry,    \* failed uploads after which a report is still retried (5 in the code)
  Keep,        \* how long a report that was sent is kept (30 days; the intervals offered
               \* are an hour at most)
  Horizon,     \* bound: the last minute
  MaxReports,  \* bound: reports logged
  MaxChanges,  \* bound: times a configuration is applied
  MaxFaults    \* bound: ends of the process and times the clock is set back

ASSUME ReportsAssumption ==
  /\ Settings \subseteq [active : BOOLEAN, interval : Nat, address : BOOLEAN] /\ Offset \in Int
  /\ {MaxRetry, Keep, Horizon, MaxReports, MaxChanges, MaxFaults} \subseteq Nat
  /\ \A c \in Settings : c.interval <= Keep

VARIABLES
  now,            \* local time
  steady,         \* the clock has never been set back
  saved,          \* the settings in app_config
  cfg,            \* those in m_cfg
  wanted,         \* the worker is to run: what applyServerConfig last made of m_cfg
  lastGenerated,  \* m_lastGenerated, or Never
  job,            \* the report generation on the pool; m_generating while there is one
  log,            \* table report_log
  ids,            \* the last id given to a row
  files,          \* the report files: name -> the window each holds
  calls,          \* slots queued to the FTP worker
  running,        \* its m_running
  todo,           \* the ids of the round of uploads it is in
  old,            \* the ids the retention worker is about to remove
  server,         \* the windows stored on the server
  changes, faults

time == <<now, steady>>
settings == <<saved, cfg, wanted, changes>>
schedule == <<lastGenerated, job>>
store == <<log, ids, files>>
worker == <<running, todo>>
vars == <<time, settings, schedule, store, calls, worker, old, server, faults>>

Never == -1
NoJob == [phase |-> "none"]

\* Mutant: the worker is stopped after it was started.
stopLast(on) == IF on THEN <<"start", "stop">> ELSE <<"stop">>

\* Uploads are on and have a server.
uploads(c) == c.active /\ c.address

\* The slots queued to the worker, in this order; configure is left out.
applyServerConfig(on) == IF on THEN <<"stop", "start">> ELSE <<"stop">>

Init ==
  /\ now = 0 /\ steady = TRUE
  /\ saved \in Settings /\ cfg = saved /\ wanted = uploads(cfg)
  /\ lastGenerated = Never /\ job = NoJob
  /\ log = <<>> /\ ids = 0 /\ files = <<>>
  /\ calls = applyServerConfig(wanted) /\ running = FALSE /\ todo = {} /\ old = {}
  /\ server = {} /\ changes = 0 /\ faults = 0

Window(from, to) == [from |-> from, to |-> to]
with(f, x, y) == [z \in DOMAIN f \cup {x} |-> IF z = x THEN y ELSE f[z]]
without(f, x) == [z \in DOMAIN f \ {x} |-> f[z]]

----------------------------------------------------------------------------
(* The schedule. *)

\* buildFileName, with a suffix that does not repeat.
buildFileName(window) == window.to

\* created_at of the newest row: written in UTC, read as local time.
lastGeneratedAt ==
  LET latest == {log[id].created : id \in DOMAIN log}
  IN  IF latest = {} THEN Never ELSE (CHOOSE t \in latest : \A u \in latest : u <= t) - Offset

\* Mutant: the end of the last window is forgotten by a restart.
windowFromNow == now - cfg.interval

\* Where the next window starts: where the one before it ended, if that is
\* known only from the log.
windowFrom ==
  LET from == now - cfg.interval
      resumes == lastGenerated = Never /\ lastGeneratedAt # Never
                 /\ from < lastGeneratedAt /\ lastGeneratedAt < now
  IN  IF resumes THEN lastGeneratedAt ELSE from

due == lastGenerated = Never \/ now - lastGenerated >= cfg.interval

\* With or without a server to send to. A window that falls due while the last
\* one is still written is skipped, and so are the ticks before serverStartTime.
onScheduleTick ==
  /\ cfg.active /\ cfg.interval > 0 /\ due /\ ids < MaxReports
  /\ lastGenerated' = now
  /\ job' = IF job = NoJob THEN [phase |-> "started", window |-> Window(windowFrom, now)] ELSE job
  /\ UNCHANGED <<time, settings, store, calls, worker, old, server, faults>>

\* runReportGeneration writes the file, as a whole or not at all; without the
\* file nothing is logged.
writeReport ==
  /\ job.phase = "started"
  /\ \/ /\ files' = with(files, buildFileName(job.window), job.window)
        /\ job' = [job EXCEPT !.phase = "written"]
     \/ job' = NoJob /\ UNCHANGED files
  /\ UNCHANGED <<time, settings, lastGenerated, log, ids, calls, worker, old, server, faults>>

\* A row that cannot be inserted is lost without a word.
logReport ==
  /\ job.phase = "written"
  /\ job' = NoJob
  /\ \/ /\ ids' = ids + 1
        /\ log' = with(log, ids', [window |-> job.window, status |-> "pending", retry |-> 0, created |-> now])
     \/ UNCHANGED <<log, ids>>
  /\ UNCHANGED <<time, settings, lastGenerated, files, calls, worker, old, server, faults>>

----------------------------------------------------------------------------
(* The FTP worker. *)

reconfigure(on) ==
  /\ changes < MaxChanges /\ changes' = changes + 1
  /\ wanted' = on
  /\ calls' = calls \o applyServerConfig(on)

\* A setter of the settings screen: the schedule follows at once, and uploads
\* that are switched off stop.
edit(c) ==
  /\ cfg' = c
  /\ IF cfg.active /\ ~c.active THEN reconfigure(FALSE) ELSE UNCHANGED <<wanted, calls, changes>>
  /\ UNCHANGED <<saved, time, schedule, store, worker, old, server, faults>>

configSaved ==
  /\ saved' = cfg /\ UNCHANGED cfg
  /\ reconfigure(uploads(cfg))
  /\ UNCHANGED <<time, schedule, store, worker, old, server, faults>>

\* The screen is left without saving, or the save fails: the worker is not told.
loadConfig ==
  /\ cfg' = saved
  /\ UNCHANGED <<saved, wanted, calls, changes, time, schedule, store, worker, old, server, faults>>

\* After a POST, which changes none of these fields.
configApplied ==
  /\ cfg' = saved /\ UNCHANGED saved
  /\ reconfigure(uploads(saved))
  /\ UNCHANGED <<time, schedule, store, worker, old, server, faults>>

\* Mutant: retried without end.
WaitingAlways(row) == row.status \in {"pending", "failed"}

Waiting(row) == row.status \in {"pending", "failed"} /\ row.retry <= MaxRetry

\* The rows that wait.
loadPending == {id \in DOMAIN log : Waiting(log[id])}

\* Lists of rows are worked through from the oldest.
Oldest(id, list) == id \in list /\ \A other \in list : log[id].created <= log[other].created

\* The worker's thread handles a slot or the timer between two rounds.
idle == todo = {}

start ==
  /\ idle /\ calls # <<>> /\ Head(calls) = "start"
  /\ calls' = Tail(calls)
  /\ running' = TRUE
  /\ todo' = IF running THEN todo ELSE loadPending
  /\ UNCHANGED <<time, settings, schedule, store, old, server, faults>>

stop ==
  /\ idle /\ calls # <<>> /\ Head(calls) = "stop"
  /\ calls' = Tail(calls)
  /\ running' = FALSE
  /\ UNCHANGED <<time, settings, schedule, store, todo, old, server, faults>>

\* The timer: a round over the rows that wait.
tick ==
  /\ idle /\ running
  /\ todo' = loadPending
  /\ UNCHANGED <<time, settings, schedule, store, calls, running, old, server, faults>>

updateStatus(id, status, retry) ==
  log' = IF id \in DOMAIN log
         THEN [log EXCEPT ![id].status = status, ![id].retry = retry] ELSE log

\* Mutant: a transfer counts although the server has not confirmed it.
uploadUnconfirmed(name, ok) ==
  server' \in {server} \cup (IF name \in DOMAIN files THEN {server \cup {files[name]}} ELSE {})

\* The transfer of a file: it succeeds when the server confirms it, and it may
\* fail before the server has the file or when the confirmation is lost.
uploadFile(name, ok) ==
  LET there == name \in DOMAIN files
      sent == IF there THEN server \cup {files[name]} ELSE server
  IN  \/ ok /\ there /\ server' = sent
      \/ ~ok /\ server' \in {server, sent}

\* One report of the round. Its new status may not reach the table.
upload ==
  /\ \E id \in todo, ok \in BOOLEAN :
       /\ Oldest(id, todo)
       /\ uploadFile(buildFileName(log[id].window), ok)
       /\ \/ IF ok THEN updateStatus(id, "success", log[id].retry)
             ELSE updateStatus(id, "failed", log[id].retry + 1)
          \/ log' = log
       /\ todo' = todo \ {id}
  /\ UNCHANGED <<time, settings, schedule, ids, files, calls, running, old, faults>>

----------------------------------------------------------------------------
(* Retention, time and the end of the process. *)

\* The rows of reports that were sent long enough ago: created_at, in UTC, is
\* compared with local time. What is over the query's limit waits.
loadOlderThan(cutoff) ==
  {id \in DOMAIN log : log[id].status = "success" /\ log[id].created - Offset < cutoff}

purge ==
  /\ old = {}
  /\ old' = loadOlderThan(now - Keep)
  /\ UNCHANGED <<time, settings, schedule, store, calls, worker, server, faults>>

\* First the row, then its file, which stays if it cannot be removed.
purgeReportLog ==
  /\ \E id \in old :
       /\ Oldest(id, old)
       /\ log' = without(log, id)
       /\ files' \in {files, without(files, buildFileName(log[id].window))}
       /\ old' = old \ {id}
  /\ UNCHANGED <<time, settings, schedule, ids, calls, worker, server, faults>>

timePasses == now < Horizon /\ now' = now + 1 /\ UNCHANGED steady

clock ==
  /\ timePasses
  /\ UNCHANGED <<settings, schedule, store, calls, worker, old, server, faults>>

\* NTP or a saved time zone set the clock back; forwards is a late tick.
setBack ==
  /\ faults < MaxFaults /\ faults' = faults + 1
  /\ steady' = FALSE
  /\ \E t \in 0..Horizon : t < now /\ now' = t
  /\ UNCHANGED <<settings, schedule, store, calls, worker, old, server>>

\* The process ends anywhere and starts again; main applies the saved
\* configuration. The first tick of the schedule is a minute away.
restart ==
  /\ faults < MaxFaults /\ faults' = faults + 1
  /\ timePasses
  /\ lastGenerated' = Never /\ job' = NoJob
  /\ running' = FALSE /\ todo' = {} /\ old' = {}
  /\ cfg' = saved /\ wanted' = uploads(saved)
  /\ calls' = applyServerConfig(wanted')
  /\ UNCHANGED <<saved, changes, store, server>>

workerStep == start \/ stop \/ tick \/ upload

Next ==
  \/ onScheduleTick \/ writeReport \/ logReport
  \/ workerStep \/ purge \/ purgeReportLog \/ clock \/ setBack \/ restart
  \/ configSaved \/ loadConfig \/ configApplied \/ \E c \in Settings : edit(c)

Spec == Init /\ [][Next]_vars

\* The thread of the FTP worker handles its slots, its timer and, since every
\* step of a transfer has a timeout, its uploads; the table does not refuse the
\* new status for ever.
FairSpec == Spec /\ WF_vars(workerStep) /\ SF_vars(upload /\ log' # log)

----------------------------------------------------------------------------
(* Properties. *)

WindowType == [from : -Keep..Horizon, to : 0..Horizon]
RowType == [window : WindowType, status : {"pending", "failed", "success"},
            retry : 0..MaxRetry + 1, created : 0..Horizon]

\* Rows have the columns of report_log, no report is tried more often than
\* MaxRetry allows, and every list of ids was taken from the table.
TypeOK ==
  /\ now \in 0..Horizon /\ steady \in BOOLEAN /\ running \in BOOLEAN
  /\ saved \in Settings /\ cfg \in Settings /\ wanted \in BOOLEAN
  /\ lastGenerated \in {Never} \cup 0..Horizon
  /\ job \in {NoJob} \cup [phase : {"started", "written"}, window : WindowType]
  /\ ids \in 0..MaxReports /\ DOMAIN log \subseteq 1..ids
  /\ \A id \in DOMAIN log : log[id] \in RowType
  /\ \A name \in DOMAIN files : files[name] \in WindowType
  /\ todo \cup old \subseteq DOMAIN log
  /\ calls \in Seq({"start", "stop"}) /\ server \subseteq WindowType
  /\ changes \in 0..MaxChanges /\ faults \in 0..MaxFaults

\* aggregateWindow selects BETWEEN the ends, both included.
Covered(w) == w.from..w.to

\* The moment at which one window ends and the other starts.
CommonEnd(v, w) == ({v.from} \cap {w.to}) \cup ({v.to} \cap {w.from})

Reported == server \cup {log[id].window : id \in DOMAIN log}

\* A reading is in two reports, sent or still to be sent, only if it was taken
\* in the second at which one of them ends and the other starts: however late
\* the ticks, across changes of the interval and restarts, and after rows have
\* been removed, as long as the clock has not been set back.
OnlyEndsShared ==
  steady =>
    /\ \A i, j \in DOMAIN log : i # j =>
         Covered(log[i].window) \cap Covered(log[j].window)
           \subseteq CommonEnd(log[i].window, log[j].window)
    /\ \A v, w \in Reported : v # w => Covered(v) \cap Covered(w) \subseteq CommonEnd(v, w)

\* The log tells the truth: what it says was sent is on the server, whole, and
\* what is still to be sent has its file, while retention removes others, and
\* transfers and the process end anywhere, as long as the clock, which names the
\* files, has not been set back.
LogIsTrue ==
  steady =>
    \A id \in DOMAIN log :
      LET window == log[id].window
          name == buildFileName(window)
      IN  IF log[id].status = "success" THEN window \in server
          ELSE name \in DOMAIN files /\ files[name] = window

AwaitsUpload(id) == id \in DOMAIN log /\ Waiting(log[id])

\* Once uploads are to run for good, every report that was logged is sent or has
\* used up its retries, whatever was reconfigured, lost, restarted or set back
\* before, reports logged while there was no server included.
ReportsSettle ==
  <>[]wanted => \A id \in 1..MaxReports : AwaitsUpload(id) ~> ~AwaitsUpload(id)
=============================================================================
