---------------------------- MODULE ReportsProofs ----------------------------
(***************************************************************************)
(* Proofs about Reports, for any settings, retention, number of retries,   *)
(* reports, reconfigurations and ends of the process. Types and the lists  *)
(* of rows do not depend on the clock; what the files hold and what the    *)
(* windows cover does, and is proved until the clock is set back.          *)
(***************************************************************************)
EXTENDS Reports, WellFoundedInduction, TLAPS

ListsInv ==
  /\ \A id \in todo : Waiting(log[id])
  /\ \A id \in old : log[id].status = "success"

BInv == TypeOK /\ ListsInv /\ (job # NoJob => ids < MaxReports)

\* Two reports never end at the same time, so each has a file of its own.
NamesInv ==
  /\ \A i, j \in DOMAIN log : i # j => log[i].window.to # log[j].window.to
  /\ lastGenerated <= now
  /\ \A id \in DOMAIN log :
       log[id].window.to <= IF lastGenerated = Never THEN now - 1 ELSE lastGenerated
JobInv ==
  job # NoJob =>
    /\ lastGenerated # Never /\ job.window.to <= lastGenerated
    /\ \A id \in DOMAIN log : log[id].window.to < job.window.to
    /\ job.phase = "written" => /\ buildFileName(job.window) \in DOMAIN files
                                /\ files[buildFileName(job.window)] = job.window
FilesInv ==
  \A id \in DOMAIN log :
    IF log[id].status = "success" THEN log[id].window \in server
    ELSE /\ buildFileName(log[id].window) \in DOMAIN files
         /\ files[buildFileName(log[id].window)] = log[id].window

Sound == BInv /\ NamesInv /\ JobInv /\ FilesInv

IInv == BInv /\ (steady => Sound)

\* A row is younger than the window it reports, and older than a restart.
RowsInv ==
  \A id \in DOMAIN log :
    /\ log[id].window.from < log[id].window.to /\ log[id].window.to <= log[id].created
    /\ log[id].created <= IF lastGenerated = Never THEN now - 1 ELSE now

\* What is on the server has a row, or is older than any window to come.
ServerInv ==
  /\ \A w \in server :
       /\ w.from < w.to /\ w.to <= now /\ (lastGenerated # Never => w.to <= lastGenerated)
       /\ w.to <= now - Keep \/ \E id \in DOMAIN log : log[id].window = w
  /\ \A id \in old : log[id].created < now - Keep

NextWindowInv ==
  job # NoJob => /\ job.window.from < job.window.to
                 /\ \A w \in Reported : w.to <= job.window.from

\* One window ends before, or when, the other starts.
Apart(v, w) == v.to <= w.from \/ w.to <= v.from
ApartInv ==
  /\ \A i, j \in DOMAIN log : i # j => Apart(log[i].window, log[j].window)
  /\ \A v, w \in Reported : v # w => Apart(v, w)

\* Local time is UTC.
Utc == Offset = 0

WInv == RowsInv /\ ServerInv /\ NextWindowInv /\ ApartInv
-----------------------------------------------------------------------------
(* Types. *)

Slots == {"start", "stop"}

LEMMA Parameters ==
  /\ Offset \in Int /\ MaxRetry \in Nat /\ Keep \in Nat /\ Horizon \in Nat
  /\ MaxReports \in Nat /\ MaxChanges \in Nat /\ MaxFaults \in Nat
  /\ \A c \in Settings : /\ c.active \in BOOLEAN /\ c.address \in BOOLEAN
                        /\ c.interval \in Nat /\ c.interval <= Keep
BY ReportsAssumption DEF ReportsAssumption

LEMMA UploadsTyped ==
  ASSUME NEW c \in Settings
  PROVE  uploads(c) \in BOOLEAN
BY Parameters DEF uploads

LEMMA WindowFacts ==
  ASSUME NEW w \in WindowType
  PROVE  w.from \in Int /\ w.to \in Int /\ w.from \in -Keep..Horizon /\ w.to \in 0..Horizon
BY Parameters DEF WindowType

LEMMA WindowTyped ==
  ASSUME NEW from \in -Keep..Horizon, NEW to \in 0..Horizon
  PROVE  /\ Window(from, to) \in WindowType
         /\ Window(from, to).from = from /\ Window(from, to).to = to
BY DEF Window, WindowType

LEMMA RowFacts ==
  ASSUME TypeOK, NEW id \in DOMAIN log
  PROVE  /\ log[id].window \in WindowType /\ log[id].status \in {"pending", "failed", "success"}
         /\ log[id].retry \in 0..MaxRetry + 1 /\ log[id].created \in 0..Horizon /\ id \in 1..ids
         /\ log[id].window.from \in Int /\ log[id].window.to \in Int
         /\ log[id].created \in Int /\ id \in Nat
<1>1. log[id] \in RowType /\ id \in 1..ids
  BY DEF TypeOK
<1>2. /\ log[id].window \in WindowType /\ log[id].status \in {"pending", "failed", "success"}
      /\ log[id].retry \in 0..MaxRetry + 1 /\ log[id].created \in 0..Horizon
  BY <1>1 DEF RowType
<1> QED
  BY <1>1, <1>2, WindowFacts

LEMMA TimeFacts ==
  ASSUME TypeOK
  PROVE  /\ now \in Int /\ now \in 0..Horizon /\ lastGenerated \in Int /\ ids \in Nat
         /\ cfg.interval \in Nat /\ cfg.interval <= Keep
         /\ lastGenerated # Never => lastGenerated >= 0
BY Parameters DEF TypeOK, Never

LEMMA JobFacts ==
  ASSUME TypeOK
  PROVE  /\ job # NoJob => /\ job.window \in WindowType /\ job.phase \in {"started", "written"}
                           /\ job.window.from \in Int /\ job.window.to \in Int
         /\ job.phase = "started" \/ job.phase = "written" => job # NoJob
<1>1. job # NoJob => job.window \in WindowType /\ job.phase \in {"started", "written"}
  BY DEF TypeOK
<1>2. NoJob.phase = "none"
  BY DEF NoJob
<1> QED
  BY <1>1, <1>2, WindowFacts

LEMMA CallsTyped ==
  ASSUME NEW on
  PROVE  applyServerConfig(on) \in Seq(Slots)
<1>1. <<"stop", "start">> \in Seq(Slots) /\ <<"stop">> \in Seq(Slots)
  BY DEF Slots
<1> QED
  BY <1>1 DEF applyServerConfig

\* What a new status leaves of the table.
LEMMA UpdateFacts ==
  ASSUME TypeOK, NEW id \in DOMAIN log, NEW status \in {"pending", "failed", "success"},
         NEW retry \in 0..MaxRetry + 1, updateStatus(id, status, retry)
  PROVE  /\ DOMAIN log' = DOMAIN log
         /\ \A i \in DOMAIN log :
              log'[i].window = log[i].window /\ log'[i].created = log[i].created
         /\ \A i \in DOMAIN log \ {id} : log'[i] = log[i]
         /\ log'[id].status = status /\ log'[id].retry = retry
         /\ \A i \in DOMAIN log : log'[i] \in RowType
<1>1. \A i \in DOMAIN log : log[i] \in RowType
  BY DEF TypeOK
<1>2. DOMAIN log' = DOMAIN log /\ \A i \in DOMAIN log \ {id} : log'[i] = log[i]
  BY DEF updateStatus
<1>3. log'[id] = [log[id] EXCEPT !.status = status, !.retry = retry]
  BY DEF updateStatus
<1>4. /\ log'[id].window = log[id].window /\ log'[id].created = log[id].created
      /\ log'[id].status = status /\ log'[id].retry = retry /\ log'[id] \in RowType
  BY <1>1, <1>3 DEF RowType
<1> QED
  BY <1>1, <1>2, <1>4
\* The newest row exists: times are bounded by the clock.
LEMMA LatestExists ==
  ASSUME NEW S \in SUBSET (0..Horizon), S # {}
  PROVE  \E t \in S : \A u \in S : u <= t
<1> DEFINE Left == {n \in Nat : Horizon - n \in S}
<1>1. Left \subseteq Nat /\ Left # {}
  <2>1. PICK t \in S : TRUE
    OBVIOUS
  <2>2. Horizon - t \in Nat /\ Horizon - (Horizon - t) = t
    BY Parameters
  <2> QED
    BY <2>1, <2>2
<1>2. PICK n \in Left : \A m \in Left : <<m, n>> \notin OpToRel(<, Nat)
  BY <1>1, NatLessThanWellFounded, WFMin
<1>3. \A m \in Left : ~(m < n)
  BY <1>1, <1>2 DEF OpToRel
<1>4. \A u \in S : Horizon - u \in Left
  BY Parameters
<1>5. Horizon - n \in S /\ n \in Nat
  BY <1>1
<1>6. \A u \in S : u <= Horizon - n
  <2> SUFFICES ASSUME NEW u \in S PROVE u <= Horizon - n
    OBVIOUS
  <2>1. ~(Horizon - u < n)
    BY <1>3, <1>4
  <2> QED
    BY <2>1, <1>5, Parameters
<1> QED
  BY <1>5, <1>6

LEMMA LastGeneratedFacts ==
  ASSUME TypeOK
  PROVE  \/ DOMAIN log = {} /\ lastGeneratedAt = Never
         \/ /\ lastGeneratedAt \in Int
            /\ \A id \in DOMAIN log : log[id].created <= lastGeneratedAt + Offset
            /\ \E id \in DOMAIN log : log[id].created = lastGeneratedAt + Offset
<1> DEFINE latest == {log[id].created : id \in DOMAIN log}
<1>1. CASE DOMAIN log = {}
  BY <1>1 DEF lastGeneratedAt
<1>2. CASE DOMAIN log # {}
  <2>1. latest \in SUBSET (0..Horizon) /\ latest # {}
    BY <1>2, RowFacts
  <2>2. \E last \in latest : \A u \in latest : u <= last
    BY <2>1, LatestExists
  <2> DEFINE newest == CHOOSE t \in latest : \A u \in latest : u <= t
  <2>3. newest \in latest /\ \A u \in latest : u <= newest
    BY <2>2
  <2>4. lastGeneratedAt = newest - Offset
    BY <2>1 DEF lastGeneratedAt
  <2> HIDE DEF newest
  <2>6. newest \in Int
    BY <2>1, <2>3, Parameters
  <2>5. /\ \A id \in DOMAIN log : log[id].created <= newest
        /\ \E id \in DOMAIN log : log[id].created = newest
    BY <2>3
  <2>7. lastGeneratedAt \in Int /\ lastGeneratedAt + Offset = newest
    BY <2>4, <2>6, Parameters
  <2> QED
    BY <2>5, <2>7
<1> QED
  BY <1>1, <1>2

\* A window starts before it ends.
LEMMA WindowFromRange ==
  ASSUME TypeOK, cfg.interval > 0
  PROVE  windowFrom \in now - cfg.interval..now - 1
<1>1. now - cfg.interval \in now - cfg.interval..now - 1 /\ now \in Int /\ cfg.interval \in Int
  BY TimeFacts, Parameters
<1>2. lastGeneratedAt \in Int
  BY LastGeneratedFacts DEF Never
<1> QED
  BY <1>1, <1>2, Parameters DEF windowFrom

-----------------------------------------------------------------------------
(* Types and lists, whatever the clock does. *)

LEMMA InitBase == Init => BInv
<1> SUFFICES ASSUME Init PROVE BInv
  OBVIOUS
<1>1. DOMAIN log = {} /\ DOMAIN files = {} /\ job = NoJob
  BY DEF Init
<1>2. calls \in Seq(Slots) /\ wanted \in BOOLEAN /\ saved \in Settings /\ cfg \in Settings
  BY CallsTyped, UploadsTyped DEF Init
<1>3. 0 \in 0..Horizon /\ 0 \in 0..MaxReports /\ 0 \in 0..MaxChanges /\ 0 \in 0..MaxFaults
  BY Parameters
<1>4. TypeOK
  BY <1>1, <1>2, <1>3 DEF Init, TypeOK, Slots
<1>5. ListsInv
  BY DEF Init, ListsInv
<1> QED
  BY <1>1, <1>4, <1>5 DEF BInv

\* Steps that touch neither the schedule nor the table.
LEMMA AsideBase ==
  ASSUME BInv, TypeOK', UNCHANGED <<job, log, ids>>,
         \A id \in todo' : Waiting(log[id]), \A id \in old' : log[id].status = "success"
  PROVE  BInv'
BY DEF BInv, ListsInv, Waiting

LEMMA SettingsBase ==
  ASSUME BInv, (\E c \in Settings : edit(c)) \/ configSaved \/ loadConfig \/ configApplied
  PROVE  BInv'
<1>1. UNCHANGED <<now, steady, lastGenerated, job, log, ids, files, running, todo, old, server, faults>>
  BY DEF edit, configSaved, loadConfig, configApplied, time, schedule, store, worker
<1>2. saved' \in Settings /\ cfg' \in Settings
  BY DEF edit, configSaved, loadConfig, configApplied, BInv, TypeOK
<1>3. /\ wanted' \in BOOLEAN
      /\ changes' = changes \/ (changes < MaxChanges /\ changes' = changes + 1)
      /\ calls' = calls \/ \E on : calls' = calls \o applyServerConfig(on)
  <2>1. uploads(cfg) \in BOOLEAN /\ uploads(saved) \in BOOLEAN /\ wanted \in BOOLEAN
    BY UploadsTyped DEF BInv, TypeOK
  <2>2. CASE UNCHANGED <<wanted, calls, changes>>
    BY <2>1, <2>2
  <2>3. CASE \E on \in BOOLEAN : reconfigure(on)
    BY <2>3 DEF reconfigure
  <2> QED
    BY <2>1, <2>2, <2>3 DEF edit, configSaved, loadConfig, configApplied
<1>4. changes' \in 0..MaxChanges
  BY <1>3, Parameters DEF BInv, TypeOK
<1>5. calls' \in Seq(Slots)
  <2>1. calls \in Seq(Slots)
    BY DEF BInv, TypeOK, Slots
  <2>2. CASE \E on : calls' = calls \o applyServerConfig(on)
    <3>1. PICK on : calls' = calls \o applyServerConfig(on)
      BY <2>2
    <3>2. applyServerConfig(on) \in Seq(Slots)
      BY CallsTyped
    <3> QED
      BY <2>1, <3>1, <3>2
  <2> QED
    BY <1>3, <2>1, <2>2
<1>6. TypeOK'
  BY <1>1, <1>2, <1>3, <1>4, <1>5 DEF BInv, TypeOK, Slots
<1> QED
  BY <1>1, <1>6, AsideBase DEF BInv, ListsInv

\* The worker's slots and its timer: the rows that wait are taken.
LEMMA RoundBase ==
  ASSUME BInv, start \/ stop \/ tick
  PROVE  BInv'
<1>1. /\ UNCHANGED <<time, settings, old, server, faults>> /\ UNCHANGED <<schedule, store>>
      /\ running' \in BOOLEAN /\ (todo' = todo \/ todo' = loadPending)
  BY DEF start, stop, tick, BInv, TypeOK
<1>2. calls' \in Seq(Slots)
  <2>1. calls \in Seq(Slots)
    BY DEF BInv, TypeOK, Slots
  <2>2. calls' = calls \/ (calls # <<>> /\ calls' = Tail(calls))
    BY DEF start, stop, tick
  <2> QED
    BY <2>1, <2>2
<1>3. todo' \subseteq DOMAIN log /\ \A id \in todo' : Waiting(log[id])
  BY <1>1 DEF loadPending, BInv, TypeOK, ListsInv
<1>4. TypeOK'
  BY <1>1, <1>2, <1>3 DEF BInv, TypeOK, time, settings, schedule, store, Slots
<1> QED
  BY <1>1, <1>3, <1>4, AsideBase DEF BInv, ListsInv, schedule, store

LEMMA PurgeBase ==
  ASSUME BInv, purge
  PROVE  BInv'
<1>1. /\ UNCHANGED <<time, settings, calls, running, todo, server, faults>>
      /\ UNCHANGED <<schedule, store>>
      /\ old' \subseteq DOMAIN log /\ \A id \in old' : log[id].status = "success"
  BY DEF purge, loadOlderThan, worker
<1>2. TypeOK'
  BY <1>1 DEF BInv, TypeOK, time, settings, schedule, store
<1> QED
  BY <1>1, <1>2, AsideBase DEF BInv, ListsInv, schedule, store

LEMMA ClockBase ==
  ASSUME BInv, clock \/ setBack
  PROVE  BInv'
<1>1. /\ UNCHANGED <<settings, calls, running, todo, old, server>>
      /\ UNCHANGED <<schedule, store>>
  BY DEF clock, setBack, worker
<1>2. now' \in 0..Horizon /\ steady' \in BOOLEAN /\ faults' \in 0..MaxFaults
  <2>1. now \in 0..Horizon /\ steady \in BOOLEAN /\ faults \in 0..MaxFaults
    BY DEF BInv, TypeOK
  <2>2. CASE clock
    <3>1. now < Horizon /\ now' = now + 1 /\ steady' = steady /\ faults' = faults
      BY <2>2 DEF clock, timePasses
    <3>2. now' \in 0..Horizon
      BY <2>1, <3>1, Parameters
    <3> QED
      BY <2>1, <3>1, <3>2
  <2>3. CASE setBack
    <3>1. steady' = FALSE /\ faults < MaxFaults /\ faults' = faults + 1 /\ now' \in 0..Horizon
      BY <2>3 DEF setBack
    <3>2. faults' \in 0..MaxFaults
      BY <2>1, <3>1, Parameters
    <3> QED
      BY <3>1, <3>2
  <2> QED
    BY <2>2, <2>3
<1>3. TypeOK'
  BY <1>1, <1>2 DEF BInv, TypeOK, settings, schedule, store
<1> QED
  BY <1>1, <1>3, AsideBase DEF BInv, ListsInv, schedule, store

LEMMA RestartBase ==
  ASSUME BInv, restart
  PROVE  BInv'
<1>1. /\ faults < MaxFaults /\ faults' = faults + 1 /\ now < Horizon /\ now' = now + 1
      /\ lastGenerated' = Never /\ job' = NoJob /\ running' = FALSE /\ todo' = {} /\ old' = {}
      /\ cfg' = saved /\ wanted' = uploads(saved)
      /\ UNCHANGED <<steady, saved, log, ids, files, server, changes>>
  BY DEF restart, timePasses, store
<1>2. calls' \in Seq(Slots)
  BY CallsTyped DEF restart
<1>3. now' \in 0..Horizon /\ faults' \in 0..MaxFaults /\ cfg' \in Settings /\ wanted' \in BOOLEAN
  BY <1>1, Parameters, UploadsTyped DEF BInv, TypeOK
<1>4. lastGenerated' \in {Never} \cup 0..Horizon /\ running' \in BOOLEAN
  BY <1>1
<1>5. job' \in {NoJob} \cup [phase : {"started", "written"}, window : WindowType]
  BY <1>1
<1>6. TypeOK'
  BY <1>1, <1>2, <1>3, <1>4, <1>5 DEF BInv, TypeOK, Slots
<1> QED
  BY <1>1, <1>6 DEF BInv, ListsInv

\* What a tick of the schedule starts.
LEMMA TickFacts ==
  ASSUME BInv, onScheduleTick
  PROVE  /\ due /\ cfg.interval > 0 /\ ids < MaxReports /\ lastGenerated' = now
         /\ job' = IF job = NoJob THEN [phase |-> "started", window |-> Window(windowFrom, now)] ELSE job
         /\ UNCHANGED <<now, steady, saved, cfg, wanted, changes, log, ids, files, calls, running,
                        todo, old, server, faults>>
         /\ Window(windowFrom, now) \in WindowType
         /\ Window(windowFrom, now).from = windowFrom /\ Window(windowFrom, now).to = now
<1>1. /\ due /\ cfg.interval > 0 /\ ids < MaxReports /\ lastGenerated' = now
      /\ job' = IF job = NoJob THEN [phase |-> "started", window |-> Window(windowFrom, now)] ELSE job
      /\ UNCHANGED <<now, steady, saved, cfg, wanted, changes, log, ids, files, calls, running,
                     todo, old, server, faults>>
  BY DEF onScheduleTick, time, settings, store, worker
<1>2. now \in 0..Horizon /\ windowFrom \in -Keep..Horizon
  <2>1. windowFrom \in now - cfg.interval..now - 1
    BY <1>1, WindowFromRange DEF BInv
  <2> QED
    BY <2>1, TimeFacts, Parameters DEF BInv
<1> QED
  BY <1>1, <1>2, WindowTyped

LEMMA TickBase ==
  ASSUME BInv, onScheduleTick
  PROVE  BInv'
<1>1. PICK w \in WindowType : w = Window(windowFrom, now)
  BY TickFacts
<1>2. job' \in {NoJob} \cup [phase : {"started", "written"}, window : WindowType]
  BY <1>1, TickFacts DEF BInv, TypeOK
<1>3. lastGenerated' \in {Never} \cup 0..Horizon
  BY TickFacts, TimeFacts DEF BInv
<1>4. TypeOK'
  BY <1>2, <1>3, TickFacts DEF BInv, TypeOK
<1> QED
  BY <1>4, TickFacts DEF BInv, ListsInv, Waiting

\* What writing a report changes.
LEMMA WriteFacts ==
  ASSUME BInv, writeReport
  PROVE  /\ job.phase = "started" /\ job # NoJob /\ job.window \in WindowType
         /\ UNCHANGED <<now, steady, saved, cfg, wanted, changes, lastGenerated, log, ids, calls,
                        running, todo, old, server, faults>>
         /\ \/ job' = NoJob /\ UNCHANGED files
            \/ \E w \in WindowType :
                 /\ w = job.window /\ job' \in [phase : {"started", "written"}, window : WindowType]
                 /\ job' # NoJob /\ job'.phase = "written" /\ job'.window = w
                 /\ DOMAIN files' = DOMAIN files \cup {w.to} /\ files'[w.to] = w
                 /\ \A name \in DOMAIN files \ {w.to} : files'[name] = files[name]
<1>1. /\ job.phase = "started" /\ job # NoJob /\ job.window \in WindowType
      /\ UNCHANGED <<now, steady, saved, cfg, wanted, changes, lastGenerated, log, ids, calls,
                     running, todo, old, server, faults>>
  BY JobFacts DEF writeReport, time, settings, worker, BInv
<1>2. CASE /\ files' = with(files, buildFileName(job.window), job.window)
           /\ job' = [job EXCEPT !.phase = "written"]
  <2>1. PICK w \in WindowType : w = job.window
    BY <1>1
  <2>2. job' \in [phase : {"started", "written"}, window : WindowType]
        /\ job'.phase = "written" /\ job'.window = w
    BY <1>1, <1>2, <2>1 DEF BInv, TypeOK
  <2>3. job' # NoJob
    BY <2>2 DEF NoJob
  <2>4. /\ DOMAIN files' = DOMAIN files \cup {w.to} /\ files'[w.to] = w
        /\ \A name \in DOMAIN files \ {w.to} : files'[name] = files[name]
    <3>1. files' = with(files, w.to, w)
      BY <1>2, <2>1 DEF buildFileName
    <3> QED
      BY <3>1 DEF with
  <2> QED
    BY <1>1, <2>1, <2>2, <2>3, <2>4
<1> QED
  BY <1>1, <1>2 DEF writeReport

LEMMA WriteBase ==
  ASSUME BInv, writeReport
  PROVE  BInv'
<1>1. CASE job' = NoJob /\ UNCHANGED files
  BY <1>1, WriteFacts DEF BInv, TypeOK, ListsInv, Waiting
<1>2. CASE ~(job' = NoJob /\ UNCHANGED files)
  <2>1. PICK w \in WindowType :
          /\ job' \in [phase : {"started", "written"}, window : WindowType]
          /\ DOMAIN files' = DOMAIN files \cup {w.to} /\ files'[w.to] = w
          /\ \A name \in DOMAIN files \ {w.to} : files'[name] = files[name]
    BY <1>2, WriteFacts
  <2>2. \A name \in DOMAIN files' : files'[name] \in WindowType
    BY <2>1 DEF BInv, TypeOK
  <2>3. TypeOK'
    BY <2>1, <2>2, WriteFacts DEF BInv, TypeOK
  <2> QED
    BY <2>3, WriteFacts DEF BInv, ListsInv, Waiting
<1> QED
  BY <1>1, <1>2

\* The row that is logged takes an id that no row had.
LEMMA LogRow ==
  ASSUME BInv, logReport, ids' = ids + 1,
         log' = with(log, ids', [window |-> job.window, status |-> "pending", retry |-> 0, created |-> now])
  PROVE  /\ DOMAIN log' = DOMAIN log \cup {ids + 1} /\ ids + 1 \notin DOMAIN log
         /\ \A id \in DOMAIN log : log'[id] = log[id]
         /\ log'[ids + 1] \in RowType /\ log'[ids + 1].window = job.window
         /\ log'[ids + 1].status = "pending" /\ log'[ids + 1].retry = 0 /\ log'[ids + 1].created = now
<1>1. ids \in Nat /\ ids + 1 \notin DOMAIN log
  BY TimeFacts, RowFacts DEF BInv
<1>2. job.window \in WindowType
  BY JobFacts DEF logReport, BInv
<1>3. now \in 0..Horizon /\ 0 \in 0..MaxRetry + 1
  BY Parameters, TimeFacts DEF BInv
<1>4. PICK row \in RowType :
        row = [window |-> job.window, status |-> "pending", retry |-> 0, created |-> now]
  BY <1>2, <1>3 DEF RowType
<1>5. log' = with(log, ids + 1, row)
  BY <1>4
<1>6. DOMAIN log' = DOMAIN log \cup {ids + 1} /\ log'[ids + 1] = row
      /\ \A id \in DOMAIN log \ {ids + 1} : log'[id] = log[id]
  BY <1>5 DEF with
<1> QED
  BY <1>1, <1>4, <1>6

LEMMA LogFacts ==
  ASSUME BInv, logReport
  PROVE  /\ job.phase = "written" /\ job # NoJob /\ job' = NoJob
         /\ UNCHANGED <<now, steady, saved, cfg, wanted, changes, lastGenerated, files, calls,
                        running, todo, old, server, faults>>
         /\ \/ UNCHANGED <<log, ids>>
            \/ /\ ids' = ids + 1
               /\ log' = with(log, ids', [window |-> job.window, status |-> "pending", retry |-> 0, created |-> now])
BY JobFacts DEF logReport, time, settings, worker, BInv

LEMMA LogBase ==
  ASSUME BInv, logReport
  PROVE  BInv'
<1>1. CASE UNCHANGED <<log, ids>>
  BY <1>1, LogFacts DEF BInv, TypeOK, ListsInv, Waiting
<1>2. CASE ids' = ids + 1
  <2>1. PICK n \in Nat : n = ids + 1
    BY TimeFacts DEF BInv
  <2>2. /\ DOMAIN log' = DOMAIN log \cup {n} /\ n \notin DOMAIN log
        /\ \A id \in DOMAIN log : log'[id] = log[id]
        /\ log'[n] \in RowType
    <3>1. log' = with(log, ids', [window |-> job.window, status |-> "pending", retry |-> 0, created |-> now])
      BY <1>2, LogFacts, TimeFacts DEF BInv
    <3> QED
      BY <1>2, <2>1, <3>1, LogRow
  <2>3. ids' \in 0..MaxReports /\ DOMAIN log' \subseteq 1..ids'
    <3>1. ids \in Nat /\ DOMAIN log \subseteq 1..ids /\ ids' = n /\ ids < MaxReports
      BY <1>2, <2>1, LogFacts, TimeFacts DEF BInv, TypeOK
    <3> QED
      BY <2>1, <2>2, <3>1, Parameters
  <2>4. \A id \in DOMAIN log' : log'[id] \in RowType
    BY <2>2 DEF BInv, TypeOK
  <2>5. todo' \cup old' \subseteq DOMAIN log' /\ job' \in {NoJob}
    BY <2>2, LogFacts DEF BInv, TypeOK
  <2>6. TypeOK'
    BY <2>3, <2>4, <2>5, LogFacts DEF BInv, TypeOK
  <2>7. ListsInv'
    <3>1. todo \subseteq DOMAIN log /\ old \subseteq DOMAIN log
      BY DEF BInv, TypeOK
    <3> QED
      BY <2>2, <3>1, LogFacts DEF BInv, ListsInv, Waiting
  <2> QED
    BY <2>6, <2>7, LogFacts DEF BInv
<1> QED
  BY <1>1, <1>2, LogFacts

\* What an upload does to the row and to the server.
LEMMA UploadFacts ==
  ASSUME BInv, upload
  PROVE  /\ UNCHANGED <<now, steady, saved, cfg, wanted, changes, lastGenerated, job, ids, files,
                        calls, running, old, faults>>
         /\ \E id \in todo, ok \in BOOLEAN, status \in {"pending", "failed", "success"} :
              /\ id \in DOMAIN log /\ Waiting(log[id])
              /\ uploadFile(buildFileName(log[id].window), ok)
              /\ todo' = todo \ {id}
              /\ DOMAIN log' = DOMAIN log
              /\ \A i \in DOMAIN log : log'[i].window = log[i].window /\ log'[i].created = log[i].created
              /\ \A i \in DOMAIN log \ {id} : log'[i] = log[i]
              /\ \A i \in DOMAIN log : log'[i] \in RowType
              /\ log'[id] = log[id] \/ (log'[id].status = status /\ (status = "success" => ok))
<1>1. UNCHANGED <<now, steady, saved, cfg, wanted, changes, lastGenerated, job, ids, files,
                  calls, running, old, faults>>
  BY DEF upload, schedule, time, settings
<1>2. PICK id \in todo, ok \in BOOLEAN :
        /\ uploadFile(buildFileName(log[id].window), ok)
        /\ \/ IF ok THEN updateStatus(id, "success", log[id].retry)
              ELSE updateStatus(id, "failed", log[id].retry + 1)
           \/ log' = log
        /\ todo' = todo \ {id}
  BY DEF upload
<1>3. id \in DOMAIN log /\ Waiting(log[id])
  BY DEF BInv, TypeOK, ListsInv
<1>4. PICK status \in {"pending", "failed", "success"}, retry \in 0..MaxRetry + 1 :
        (updateStatus(id, status, retry) /\ (status = "success" => ok)) \/ log' = log
  <2>1. log[id].retry \in 0..MaxRetry + 1 /\ log[id].retry <= MaxRetry
    BY <1>3, RowFacts DEF BInv, Waiting
  <2>2. log[id].retry + 1 \in 0..MaxRetry + 1
    BY <2>1, Parameters
  <2> QED
    BY <1>2, <2>1, <2>2
<1>5. /\ DOMAIN log' = DOMAIN log
      /\ \A i \in DOMAIN log : log'[i].window = log[i].window /\ log'[i].created = log[i].created
      /\ \A i \in DOMAIN log \ {id} : log'[i] = log[i]
      /\ \A i \in DOMAIN log : log'[i] \in RowType
      /\ log'[id] = log[id] \/ (log'[id].status = status /\ (status = "success" => ok))
  <2>1. CASE log' = log
    BY <2>1 DEF BInv, TypeOK
  <2>2. CASE updateStatus(id, status, retry) /\ (status = "success" => ok)
    BY <1>3, <2>2, UpdateFacts DEF BInv
  <2> QED
    BY <1>4, <2>1, <2>2
<1> QED
  BY <1>1, <1>2, <1>3, <1>5

LEMMA UploadBase ==
  ASSUME BInv, upload
  PROVE  BInv'
<1>1. PICK id \in todo, ok \in BOOLEAN :
        /\ id \in DOMAIN log /\ Waiting(log[id])
        /\ uploadFile(buildFileName(log[id].window), ok)
        /\ todo' = todo \ {id}
        /\ DOMAIN log' = DOMAIN log
        /\ \A i \in DOMAIN log \ {id} : log'[i] = log[i]
        /\ \A i \in DOMAIN log : log'[i] \in RowType
  BY UploadFacts
<1>2. server' \subseteq WindowType
  BY <1>1 DEF uploadFile, BInv, TypeOK
<1>3. TypeOK'
  BY <1>1, <1>2, UploadFacts DEF BInv, TypeOK
<1>4. ListsInv'
  <2>1. \A i \in todo \ {id} : i \in DOMAIN log /\ Waiting(log[i])
    BY DEF BInv, TypeOK, ListsInv
  <2>2. \A i \in old : i \in DOMAIN log /\ log[i].status = "success" /\ i # id
    BY <1>1 DEF BInv, TypeOK, ListsInv, Waiting
  <2> QED
    BY <1>1, <2>1, <2>2, UploadFacts DEF ListsInv, Waiting
<1> QED
  BY <1>3, <1>4, UploadFacts DEF BInv

\* What retention removes.
LEMMA PurgeLogFacts ==
  ASSUME BInv, purgeReportLog
  PROVE  /\ UNCHANGED <<now, steady, saved, cfg, wanted, changes, lastGenerated, job, ids, calls,
                        running, todo, server, faults>>
         /\ \E id \in old :
              /\ id \in DOMAIN log /\ id \notin todo /\ old' = old \ {id}
              /\ DOMAIN log' = DOMAIN log \ {id} /\ \A i \in DOMAIN log' : log'[i] = log[i]
              /\ DOMAIN files' \subseteq DOMAIN files
              /\ \A name \in DOMAIN files' : files'[name] = files[name]
              /\ \A name \in DOMAIN files : name # log[id].window.to => name \in DOMAIN files'
<1>1. UNCHANGED <<now, steady, saved, cfg, wanted, changes, lastGenerated, job, ids, calls,
                  running, todo, server, faults>>
  BY DEF purgeReportLog, schedule, worker, time, settings
<1>2. PICK id \in old :
        /\ log' = without(log, id)
        /\ files' \in {files, without(files, buildFileName(log[id].window))}
        /\ old' = old \ {id}
  BY DEF purgeReportLog
<1>3. id \in DOMAIN log /\ id \notin todo
  BY DEF BInv, TypeOK, ListsInv, Waiting
<1>4. DOMAIN log' = DOMAIN log \ {id} /\ \A i \in DOMAIN log' : log'[i] = log[i]
  BY <1>2 DEF without
<1>5. /\ DOMAIN files' \subseteq DOMAIN files
      /\ \A name \in DOMAIN files' : files'[name] = files[name]
      /\ \A name \in DOMAIN files : name # log[id].window.to => name \in DOMAIN files'
  <2>1. files' = files \/ files' = without(files, log[id].window.to)
    BY <1>2 DEF buildFileName
  <2> QED
    BY <2>1 DEF without
<1> QED
  BY <1>1, <1>2, <1>3, <1>4, <1>5

LEMMA PurgeLogBase ==
  ASSUME BInv, purgeReportLog
  PROVE  BInv'
<1>1. PICK id \in old :
        /\ id \in DOMAIN log /\ id \notin todo /\ old' = old \ {id}
        /\ DOMAIN log' = DOMAIN log \ {id} /\ \A i \in DOMAIN log' : log'[i] = log[i]
        /\ DOMAIN files' \subseteq DOMAIN files
        /\ \A name \in DOMAIN files' : files'[name] = files[name]
  BY PurgeLogFacts
<1>2. TypeOK'
  BY <1>1, PurgeLogFacts DEF BInv, TypeOK
<1>3. ListsInv'
  <2>1. todo \subseteq DOMAIN log' /\ old' \subseteq DOMAIN log'
    BY <1>1 DEF BInv, TypeOK
  <2> QED
    BY <1>1, <2>1, PurgeLogFacts DEF BInv, ListsInv
<1> QED
  BY <1>2, <1>3, PurgeLogFacts DEF BInv

LEMMA StepBase == BInv /\ [Next]_vars => BInv'
<1> SUFFICES ASSUME BInv, [Next]_vars PROVE BInv'
  OBVIOUS
<1>1. CASE UNCHANGED vars
  BY <1>1 DEF vars, time, settings, schedule, store, worker, BInv, TypeOK, ListsInv, Waiting
<1>2. CASE Next
  BY <1>2, TickBase, WriteBase, LogBase, RoundBase, UploadBase, PurgeBase, PurgeLogBase, ClockBase,
     RestartBase, SettingsBase DEF Next, workerStep
<1> QED
  BY <1>1, <1>2

-----------------------------------------------------------------------------
(* Until the clock is set back every report has a file of its own, whatever *)
(* the offset of the clock.                                                *)

LEMMA InitSound == Init => Sound
<1> SUFFICES ASSUME Init PROVE Sound
  OBVIOUS
<1>1. DOMAIN log = {} /\ job = NoJob /\ lastGenerated <= now
  BY DEF Init, Never
<1> QED
  BY <1>1, InitBase DEF Sound, NamesInv, JobInv, FilesInv

\* Steps that touch neither the schedule nor the table.
LEMMA AsideSound ==
  ASSUME Sound, BInv', UNCHANGED <<schedule, store, server>>, now' = now \/ now' = now + 1
  PROVE  Sound'
<1>1. UNCHANGED <<lastGenerated, job, log, ids, files, server>>
  BY DEF schedule, store
<1>2. NamesInv'
  <2>1. \A id \in DOMAIN log : log[id].window.to \in Int
    BY RowFacts DEF Sound, BInv
  <2> QED
    BY <1>1, <2>1, TimeFacts DEF Sound, BInv, NamesInv
<1>3. JobInv' /\ FilesInv'
  BY <1>1 DEF Sound, JobInv, FilesInv
<1> QED
  BY <1>2, <1>3 DEF Sound

\* A restart ends the job; the minute it takes keeps the next window apart.
LEMMA RestartSound ==
  ASSUME Sound, restart
  PROVE  Sound'
<1>1. /\ now' = now + 1 /\ lastGenerated' = Never /\ job' = NoJob
      /\ UNCHANGED <<log, ids, files, server>>
  BY DEF restart, timePasses, store
<1>2. NamesInv'
  <2>1. \A id \in DOMAIN log : log[id].window.to \in Int /\ log[id].window.to <= now
    <3>1. \A id \in DOMAIN log : log[id].window.to \in Int
      BY RowFacts DEF Sound, BInv
    <3> QED
      BY <3>1, TimeFacts DEF Sound, BInv, NamesInv
  <2>2. Never <= now + 1 /\ now \in Int
    BY TimeFacts, Parameters DEF Sound, BInv, Never
  <2>3. \A id \in DOMAIN log : log[id].window.to <= (now + 1) - 1
    BY <2>1, <2>2
  <2> QED
    BY <1>1, <2>2, <2>3 DEF Sound, NamesInv
<1>3. JobInv' /\ FilesInv'
  BY <1>1 DEF Sound, JobInv, FilesInv
<1> QED
  BY <1>2, <1>3, RestartBase DEF Sound

LEMMA TickSound ==
  ASSUME Sound, onScheduleTick
  PROVE  Sound'
<1>1. now \in Int /\ now \in 0..Horizon /\ lastGenerated \in Int /\ Never < 0
  BY TimeFacts DEF Sound, BInv, Never
<1>2. \A id \in DOMAIN log : log[id].window.to \in Int /\ log[id].window.to < now
  <2>1. \A id \in DOMAIN log : log[id].window.to \in Int
    BY RowFacts DEF Sound, BInv
  <2>2. \A id \in DOMAIN log :
          log[id].window.to <= IF lastGenerated = Never THEN now - 1 ELSE lastGenerated
    BY DEF Sound, NamesInv
  <2>3. lastGenerated # Never => lastGenerated < now
    BY <1>1, TickFacts, TimeFacts DEF Sound, BInv, due
  <2> QED
    BY <1>1, <2>1, <2>2, <2>3
<1>3. NamesInv'
  BY <1>1, <1>2, TickFacts DEF Sound, NamesInv
<1>4. JobInv'
  <2>1. CASE job = NoJob
    <3>1. job'.phase = "started" /\ job'.window = Window(windowFrom, now)
          /\ Window(windowFrom, now).to = now
      BY <2>1, TickFacts DEF Sound
    <3> QED
      BY <1>1, <1>2, <3>1, TickFacts DEF Sound, JobInv
  <2>2. CASE job # NoJob
    <3>1. job' = job /\ job.window.to \in Int
      BY <2>2, TickFacts, JobFacts DEF Sound, BInv
    <3> QED
      BY <1>1, <2>2, <3>1, TickFacts DEF Sound, JobInv, NamesInv
  <2> QED
    BY <2>1, <2>2
<1>5. FilesInv'
  BY TickFacts DEF Sound, FilesInv
<1> QED
  BY <1>3, <1>4, <1>5, TickBase DEF Sound

LEMMA WriteSound ==
  ASSUME Sound, writeReport
  PROVE  Sound'
<1>1. \A id \in DOMAIN log : /\ log[id].window.to < job.window.to
                             /\ log[id].window.to \in Int /\ job.window.to \in Int
  BY WriteFacts, JobFacts, RowFacts DEF Sound, BInv, JobInv
<1>2. NamesInv'
  BY WriteFacts DEF Sound, NamesInv
<1>3. CASE job' = NoJob /\ UNCHANGED files
  BY <1>2, <1>3, WriteFacts, WriteBase DEF Sound, JobInv, FilesInv
<1>4. CASE ~(job' = NoJob /\ UNCHANGED files)
  <2>1. PICK w \in WindowType :
          /\ w = job.window /\ job' # NoJob /\ job'.phase = "written" /\ job'.window = w
          /\ DOMAIN files' = DOMAIN files \cup {w.to} /\ files'[w.to] = w
          /\ \A name \in DOMAIN files \ {w.to} : files'[name] = files[name]
    BY <1>4, WriteFacts DEF Sound
  <2>2. JobInv'
    BY <2>1, WriteFacts DEF Sound, JobInv, buildFileName
  <2>3. FilesInv'
    <3>1. \A id \in DOMAIN log : log[id].window.to # w.to
      BY <1>1, <2>1
    <3> QED
      BY <2>1, <3>1, WriteFacts DEF Sound, FilesInv, buildFileName
  <2> QED
    BY <1>2, <2>2, <2>3, WriteBase DEF Sound
<1> QED
  BY <1>3, <1>4

LEMMA LogSound ==
  ASSUME Sound, logReport
  PROVE  Sound'
<1>1. JobInv'
  BY LogFacts DEF Sound, JobInv
<1>2. CASE UNCHANGED <<log, ids>>
  BY <1>1, <1>2, LogFacts, LogBase DEF Sound, NamesInv, FilesInv
<1>3. CASE ids' = ids + 1
  <2>1. PICK n \in Nat : n = ids + 1
    BY TimeFacts DEF Sound, BInv
  <2>2. /\ DOMAIN log' = DOMAIN log \cup {n} /\ n \notin DOMAIN log
        /\ \A id \in DOMAIN log : log'[id] = log[id]
        /\ log'[n].window = job.window /\ log'[n].status = "pending"
    <3>1. log' = with(log, ids', [window |-> job.window, status |-> "pending", retry |-> 0, created |-> now])
      BY <1>3, LogFacts, TimeFacts DEF Sound, BInv
    <3> QED
      BY <1>3, <2>1, <3>1, LogRow DEF Sound
  <2>3. /\ lastGenerated # Never /\ job.window.to <= lastGenerated
        /\ \A id \in DOMAIN log : log[id].window.to < job.window.to
        /\ buildFileName(job.window) \in DOMAIN files
        /\ files[buildFileName(job.window)] = job.window
    BY LogFacts DEF Sound, JobInv
  <2>4. job.window.to \in Int /\ \A id \in DOMAIN log : log[id].window.to \in Int
    BY LogFacts, JobFacts, RowFacts DEF Sound, BInv
  <2>5. NamesInv'
    <3>1. \A i, j \in DOMAIN log' : i # j => log'[i].window.to # log'[j].window.to
      BY <2>2, <2>3, <2>4 DEF Sound, NamesInv
    <3> QED
      BY <2>2, <2>3, <3>1, LogFacts DEF Sound, NamesInv
  <2>6. FilesInv'
    BY <2>2, <2>3, LogFacts DEF Sound, FilesInv
  <2> QED
    BY <1>1, <2>5, <2>6, LogBase DEF Sound
<1> QED
  BY <1>2, <1>3, LogFacts DEF Sound

\* A transfer puts the window of its row on the server, and nothing else.
LEMMA UploadServer ==
  ASSUME Sound, NEW id \in DOMAIN log, NEW ok, Waiting(log[id]),
         uploadFile(buildFileName(log[id].window), ok)
  PROVE  /\ server \subseteq server' /\ server' \subseteq server \cup {log[id].window}
         /\ ok => log[id].window \in server'
<1>1. buildFileName(log[id].window) \in DOMAIN files
      /\ files[buildFileName(log[id].window)] = log[id].window
  BY DEF Sound, FilesInv, Waiting
<1> QED
  BY <1>1 DEF uploadFile

LEMMA UploadSound ==
  ASSUME Sound, upload
  PROVE  Sound'
<1>1. PICK id \in todo, ok \in BOOLEAN, status \in {"pending", "failed", "success"} :
        /\ id \in DOMAIN log /\ Waiting(log[id])
        /\ uploadFile(buildFileName(log[id].window), ok)
        /\ DOMAIN log' = DOMAIN log
        /\ \A i \in DOMAIN log : log'[i].window = log[i].window /\ log'[i].created = log[i].created
        /\ \A i \in DOMAIN log \ {id} : log'[i] = log[i]
        /\ log'[id] = log[id] \/ (log'[id].status = status /\ (status = "success" => ok))
  BY UploadFacts DEF Sound
<1>2. /\ server \subseteq server' /\ server' \subseteq server \cup {log[id].window}
      /\ ok => log[id].window \in server'
  BY <1>1, UploadServer
<1>3. NamesInv' /\ JobInv'
  BY <1>1, UploadFacts DEF Sound, NamesInv, JobInv
<1>4. FilesInv'
  <2> SUFFICES ASSUME NEW i \in DOMAIN log
               PROVE  IF log'[i].status = "success" THEN log[i].window \in server'
                      ELSE buildFileName(log[i].window) \in DOMAIN files
                           /\ files[buildFileName(log[i].window)] = log[i].window
    BY <1>1, UploadFacts DEF Sound, FilesInv, buildFileName
  <2>1. CASE i = id
    BY <1>1, <1>2, <2>1 DEF Sound, FilesInv, Waiting
  <2>2. CASE i # id
    BY <1>1, <1>2, <2>2 DEF Sound, FilesInv
  <2> QED
    BY <2>1, <2>2
<1> QED
  BY <1>3, <1>4, UploadBase DEF Sound

\* Retention takes the file of a report that was sent, and of no other.
LEMMA PurgeLogSound ==
  ASSUME Sound, purgeReportLog
  PROVE  Sound'
<1>1. PICK id \in old :
        /\ id \in DOMAIN log
        /\ DOMAIN log' = DOMAIN log \ {id} /\ \A i \in DOMAIN log' : log'[i] = log[i]
        /\ \A name \in DOMAIN files' : files'[name] = files[name]
        /\ \A name \in DOMAIN files : name # log[id].window.to => name \in DOMAIN files'
  BY PurgeLogFacts DEF Sound
<1>2. NamesInv'
  BY <1>1, PurgeLogFacts DEF Sound, NamesInv
<1>3. JobInv'
  <2>1. job # NoJob => job.window.to # log[id].window.to
    BY <1>1, JobFacts, RowFacts DEF Sound, BInv, JobInv
  <2> QED
    BY <1>1, <2>1, PurgeLogFacts DEF Sound, JobInv, buildFileName
<1>4. FilesInv'
  <2>1. \A i \in DOMAIN log' : log[i].window.to # log[id].window.to
    BY <1>1 DEF Sound, NamesInv
  <2> QED
    BY <1>1, <2>1, PurgeLogFacts DEF Sound, FilesInv, buildFileName
<1> QED
  BY <1>2, <1>3, <1>4, PurgeLogBase DEF Sound

LEMMA StepSound == Sound /\ steady' /\ [Next]_vars => Sound'
<1> SUFFICES ASSUME Sound, steady', [Next]_vars PROVE Sound'
  OBVIOUS
<1>1. BInv'
  BY StepBase DEF Sound
<1>2. CASE \/ UNCHANGED vars \/ start \/ stop \/ tick \/ purge \/ clock
           \/ configSaved \/ loadConfig \/ configApplied \/ \E c \in Settings : edit(c)
  <2>1. UNCHANGED <<schedule, store, server>> /\ (now' = now \/ now' = now + 1)
    BY <1>2 DEF vars, start, stop, tick, purge, clock, timePasses, configSaved, loadConfig, configApplied,
                edit, time
  <2> QED
    BY <1>1, <2>1, AsideSound
<1>3. ~setBack
  BY DEF setBack
<1> QED
  BY <1>2, <1>3, TickSound, WriteSound, LogSound, UploadSound, PurgeLogSound, RestartSound
     DEF Next, workerStep

\* Only setBack changes steady.
LEMMA SteadyKept == [Next]_vars /\ steady' => steady
BY DEF Next, workerStep, vars, time, onScheduleTick, writeReport, logReport, start, stop, tick, upload,
       purge, purgeReportLog, clock, setBack, restart, timePasses, configSaved, loadConfig, configApplied, edit

LEMMA StepInv == IInv /\ [Next]_vars => IInv'
BY StepBase, StepSound, SteadyKept DEF IInv, Sound

\* The table, the files, the lists of rows and the schedule, whatever fails and
\* wherever the process ends: the invariant that the next two follow from.
THEOREM ReportsInvariant == Spec => []IInv
<1>1. Init => IInv
  BY InitBase, InitSound DEF IInv
<1> QED
  BY <1>1, StepInv, PTL DEF Spec

\* Type correctness; no report is retried beyond the limit (FtpWorker::tick),
\* and no list holds a row that retention has removed.
THEOREM ReportsTypeCorrect == Spec => []TypeOK
<1>1. IInv => TypeOK
  BY DEF IInv, BInv
<1> QED
  BY <1>1, ReportsInvariant, PTL

\* Until the clock is set back, what report_log says was sent is on the server,
\* and what waits has its file (runReportGeneration, FtpWorker::tick,
\* RetentionWorker::purgeReportLogs).
THEOREM ReportsLogTrue == Spec => []LogIsTrue
<1>1. IInv => LogIsTrue
  BY DEF IInv, Sound, FilesInv, LogIsTrue
<1> QED
  BY <1>1, ReportsInvariant, PTL

-----------------------------------------------------------------------------
(* Where the clock of the device shows UTC, no reading is reported twice. *)

LEMMA ReportedFacts ==
  ASSUME TypeOK, NEW w \in Reported
  PROVE  w \in WindowType /\ w.from \in Int /\ w.to \in Int
<1>1. w \in WindowType
  BY RowFacts DEF Reported, TypeOK
<1> QED
  BY <1>1, WindowFacts

LEMMA InitWInv == Init => WInv
<1> SUFFICES ASSUME Init PROVE WInv
  OBVIOUS
<1>1. DOMAIN log = {} /\ server = {} /\ old = {} /\ job = NoJob
  BY DEF Init
<1> QED
  BY <1>1 DEF WInv, RowsInv, ServerInv, NextWindowInv, ApartInv, Reported

\* Time only passes, and retention looks at old rows only.
LEMMA AsideWInv ==
  ASSUME Sound, WInv, UNCHANGED <<schedule, store, server>>, now' = now \/ now' = now + 1,
         \A id \in old' : log[id].created < now' - Keep
  PROVE  WInv'
<1>1. UNCHANGED <<lastGenerated, job, log, server>>
  BY DEF schedule, store
<1>2. now \in Int /\ Keep \in Int
  BY TimeFacts, Parameters DEF Sound, BInv
<1>3. \A id \in DOMAIN log : log[id].created \in Int
  BY RowFacts DEF Sound, BInv
<1>4. \A w \in server : w.to \in Int
  BY ReportedFacts DEF Sound, BInv, Reported
<1>5. RowsInv'
  BY <1>1, <1>2, <1>3 DEF WInv, RowsInv
<1>6. ServerInv'
  BY <1>1, <1>2, <1>4 DEF WInv, ServerInv
<1>7. NextWindowInv' /\ ApartInv'
  BY <1>1 DEF WInv, NextWindowInv, ApartInv, Reported
<1> QED
  BY <1>5, <1>6, <1>7 DEF WInv

\* The window that falls due starts where everything reported ends.
LEMMA WindowFromLast ==
  ASSUME Sound, WInv, Offset = 0, due, cfg.interval > 0, NEW w \in Reported
  PROVE  w.to <= windowFrom
<1>1. /\ now \in Int /\ lastGenerated \in Int /\ cfg.interval \in Nat /\ cfg.interval <= Keep /\ w.to \in Int
      /\ (lastGenerated # Never => lastGenerated <= now - cfg.interval)
      /\ windowFrom \in now - cfg.interval..now - 1
  BY TimeFacts, Parameters, ReportedFacts, WindowFromRange DEF Sound, BInv, due
<1>2. CASE lastGenerated # Never
  <2>1. w.to <= lastGenerated
    BY <1>2 DEF Sound, NamesInv, WInv, ServerInv, Reported
  <2> QED
    BY <1>1, <1>2, <2>1
<1>3. CASE lastGenerated = Never /\ w.to <= now - Keep
  BY <1>1, <1>3, Parameters
<1>4. CASE lastGenerated = Never /\ \E id \in DOMAIN log : log[id].window = w
  <2>1. PICK id \in DOMAIN log : log[id].window = w
    BY <1>4
  <2>2. w.to <= log[id].created /\ log[id].created <= now - 1 /\ log[id].created \in 0..Horizon
    BY <1>4, <2>1, RowFacts DEF WInv, RowsInv, Sound, BInv
  <2>3. /\ lastGeneratedAt \in Int /\ \A i \in DOMAIN log : log[i].created <= lastGeneratedAt
        /\ \E i \in DOMAIN log : log[i].created = lastGeneratedAt
    BY <2>1, LastGeneratedFacts DEF Sound, BInv
  <2>4. lastGeneratedAt < now
    <3>1. \A i \in DOMAIN log : log[i].created <= now - 1
      BY <1>4 DEF WInv, RowsInv
    <3> QED
      BY <1>1, <2>3, <3>1
  <2>5. lastGeneratedAt # Never /\ w.to <= lastGeneratedAt
    BY <1>1, <2>2, <2>3 DEF Never
  <2> QED
    BY <1>1, <1>4, <2>3, <2>4, <2>5 DEF windowFrom
<1> QED
  BY <1>2, <1>3, <1>4 DEF WInv, ServerInv, Reported

LEMMA TickWInv ==
  ASSUME Sound, WInv, Offset = 0, onScheduleTick
  PROVE  WInv'
<1>1. /\ due /\ lastGenerated' = now
      /\ job' = IF job = NoJob THEN [phase |-> "started", window |-> Window(windowFrom, now)] ELSE job
      /\ UNCHANGED <<now, log, old, server>>
  BY TickFacts DEF Sound
<1>2. now \in Int /\ now >= 0 /\ windowFrom < now /\ windowFrom \in Int
  <2>1. windowFrom \in now - cfg.interval..now - 1
    BY TickFacts, WindowFromRange DEF Sound, BInv
  <2> QED
    BY <2>1, TimeFacts, Parameters DEF Sound, BInv
<1>3. \A id \in DOMAIN log : log[id].created \in Int
  BY RowFacts DEF Sound, BInv
<1>4. RowsInv'
  BY <1>1, <1>2, <1>3 DEF WInv, RowsInv, Never
<1>5. ServerInv'
  BY <1>1, <1>2 DEF WInv, ServerInv
<1>6. NextWindowInv'
  <2>1. CASE job = NoJob
    <3>1. job'.window.from = windowFrom /\ job'.window.to = now
      BY <1>1, <2>1 DEF Window
    <3>2. \A w \in Reported : w.to <= windowFrom
      BY TickFacts, WindowFromLast DEF Sound
    <3> QED
      BY <1>1, <1>2, <3>1, <3>2 DEF NextWindowInv, Reported
  <2>2. CASE job # NoJob
    BY <1>1, <2>2 DEF WInv, NextWindowInv, Reported
  <2> QED
    BY <2>1, <2>2
<1>7. ApartInv'
  BY <1>1 DEF WInv, ApartInv, Reported
<1> QED
  BY <1>4, <1>5, <1>6, <1>7 DEF WInv

LEMMA WriteWInv ==
  ASSUME Sound, WInv, writeReport
  PROVE  WInv'
<1>1. /\ job.phase = "started" /\ job # NoJob /\ job.window \in WindowType
      /\ UNCHANGED <<now, lastGenerated, log, old, server>>
  BY WriteFacts DEF Sound
<1>2. job' = NoJob \/ job'.window = job.window
  BY WriteFacts DEF Sound
<1>3. NextWindowInv'
  BY <1>1, <1>2 DEF WInv, NextWindowInv, Reported
<1> QED
  BY <1>1, <1>3 DEF WInv, RowsInv, ServerInv, ApartInv, Reported

LEMMA LogWInv ==
  ASSUME Sound, WInv, logReport
  PROVE  WInv'
<1>1. /\ job # NoJob /\ job' = NoJob /\ UNCHANGED <<now, lastGenerated, old, server>>
  BY LogFacts DEF Sound
<1>2. NextWindowInv'
  BY <1>1 DEF NextWindowInv
<1>3. CASE UNCHANGED log
  BY <1>1, <1>2, <1>3 DEF WInv, RowsInv, ServerInv, ApartInv, Reported
<1>4. CASE /\ ids' = ids + 1
           /\ log' = with(log, ids', [window |-> job.window, status |-> "pending", retry |-> 0, created |-> now])
  <2>1. PICK n \in Nat : n = ids + 1
    BY TimeFacts DEF Sound, BInv
  <2>2. PICK v \in WindowType : v = job.window
    BY <1>1, JobFacts DEF Sound, BInv
  <2>3. /\ DOMAIN log' = DOMAIN log \cup {n} /\ n \notin DOMAIN log
        /\ \A id \in DOMAIN log : log'[id] = log[id]
        /\ log'[n].window = v /\ log'[n].created = now
    BY <1>4, <2>1, <2>2, LogRow DEF Sound
  <2>4. /\ v.from < v.to /\ v.to <= lastGenerated /\ lastGenerated <= now /\ lastGenerated # Never
        /\ \A w \in Reported : w.to <= v.from
    BY <1>1, <2>2 DEF Sound, BInv, JobInv, NamesInv, WInv, NextWindowInv
  <2>5. v.to \in Int /\ v.to <= now /\ now \in Int
    BY <2>4, TimeFacts, WindowFacts DEF Sound, BInv
  <2>6. RowsInv'
    BY <1>1, <2>3, <2>4, <2>5 DEF WInv, RowsInv
  <2>7. old \subseteq DOMAIN log
    BY DEF Sound, BInv, TypeOK
  <2>8. ServerInv'
    <3>1. \A w : (\E id \in DOMAIN log : log[id].window = w) => \E id \in DOMAIN log' : log'[id].window = w
      BY <2>3
    <3> QED
      BY <1>1, <2>3, <2>7, <3>1 DEF WInv, ServerInv
  <2>9. ApartInv'
    <3>1. Reported' = Reported \cup {v}
      BY <1>1, <2>3 DEF Reported
    <3>2. \A i \in DOMAIN log : log[i].window \in Reported
      BY DEF Reported
    <3>3. \A i, j \in DOMAIN log' : i # j => Apart(log'[i].window, log'[j].window)
      BY <2>3, <2>4, <3>2 DEF WInv, ApartInv, Apart
    <3>4. \A u, w \in Reported \cup {v} : u # w => Apart(u, w)
      BY <2>4 DEF WInv, ApartInv, Apart
    <3> QED
      BY <3>1, <3>3, <3>4 DEF ApartInv
  <2> QED
    BY <1>2, <2>6, <2>8, <2>9 DEF WInv
<1> QED
  BY <1>3, <1>4 DEF logReport

\* Only the window of a row is put on the server.
LEMMA UploadWInv ==
  ASSUME Sound, WInv, upload
  PROVE  WInv'
<1>1. UNCHANGED <<now, lastGenerated, job, old>>
  BY UploadFacts DEF Sound
<1>2. PICK id \in todo, ok \in BOOLEAN, status \in {"pending", "failed", "success"} :
        /\ id \in DOMAIN log /\ Waiting(log[id])
        /\ uploadFile(buildFileName(log[id].window), ok)
        /\ DOMAIN log' = DOMAIN log
        /\ \A i \in DOMAIN log : log'[i].window = log[i].window /\ log'[i].created = log[i].created
  BY UploadFacts DEF Sound
<1>3. id \in DOMAIN log
  BY <1>2
<1>5. server' \subseteq server \cup {log[id].window}
  BY <1>2, UploadServer
<1>6. /\ DOMAIN log' = DOMAIN log
      /\ \A i \in DOMAIN log : log'[i].window = log[i].window /\ log'[i].created = log[i].created
  BY <1>2
<1>7. Reported' \subseteq Reported
  BY <1>3, <1>5, <1>6 DEF Reported
<1>8. RowsInv'
  BY <1>1, <1>6 DEF WInv, RowsInv
<1>9. ServerInv'
  <2>1. \A i \in old' : log'[i].created < now' - Keep
    BY <1>1, <1>6 DEF WInv, ServerInv, Sound, BInv, TypeOK
  <2>2. /\ log[id].window.from < log[id].window.to /\ log[id].window.to <= now
        /\ lastGenerated # Never => log[id].window.to <= lastGenerated
    <3>1. log[id].window.to \in Int /\ now \in Int /\ lastGenerated \in Int /\ lastGenerated <= now
      BY <1>3, RowFacts, TimeFacts DEF Sound, BInv, NamesInv
    <3>2. log[id].window.to <= IF lastGenerated = Never THEN now - 1 ELSE lastGenerated
      BY <1>3 DEF Sound, BInv, NamesInv
    <3> QED
      BY <1>3, <3>1, <3>2 DEF WInv, RowsInv
  <2>3. \A w : (\E i \in DOMAIN log : log[i].window = w) => \E i \in DOMAIN log' : log'[i].window = w
    BY <1>6
  <2> QED
    BY <1>1, <1>3, <1>5, <2>1, <2>2, <2>3 DEF WInv, ServerInv
<1>10. NextWindowInv'
  BY <1>1, <1>7 DEF WInv, NextWindowInv
<1>11. ApartInv'
  BY <1>6, <1>7 DEF WInv, ApartInv
<1> QED
  BY <1>8, <1>9, <1>10, <1>11 DEF WInv

\* What is removed is older than the retention, so older than a window to come.
LEMMA PurgeLogWInv ==
  ASSUME Sound, WInv, purgeReportLog
  PROVE  WInv'
<1>1. UNCHANGED <<now, lastGenerated, job, server>>
  BY PurgeLogFacts DEF Sound
<1>2. PICK id \in old :
        /\ id \in DOMAIN log /\ old' = old \ {id}
        /\ DOMAIN log' = DOMAIN log \ {id} /\ \A i \in DOMAIN log' : log'[i] = log[i]
  BY PurgeLogFacts DEF Sound
<1>3. id \in DOMAIN log /\ old \subseteq DOMAIN log
  BY <1>2 DEF Sound, BInv, TypeOK
<1>4. DOMAIN log' = DOMAIN log \ {id} /\ \A i \in DOMAIN log' : log'[i] = log[i]
  BY <1>2
<1>5. log[id].window.to <= now - Keep
  <2>1. /\ log[id].window.to \in Int /\ log[id].created \in Int /\ now \in Int
        /\ Keep \in Int
    BY <1>3, RowFacts, TimeFacts, Parameters DEF Sound, BInv
  <2>2. log[id].window.to <= log[id].created /\ log[id].created < now - Keep
    BY <1>3 DEF WInv, RowsInv, ServerInv
  <2> QED
    BY <2>1, <2>2
<1>6. RowsInv'
  BY <1>1, <1>4 DEF WInv, RowsInv
<1>7. ServerInv'
  <2>1. \A i \in old' : log'[i].created < now' - Keep
    BY <1>1, <1>2, <1>3, <1>4 DEF WInv, ServerInv
  <2>2. ASSUME NEW w \in server
        PROVE  w.to <= now - Keep \/ \E i \in DOMAIN log' : log'[i].window = w
    BY <1>4, <1>5 DEF WInv, ServerInv
  <2> QED
    BY <1>1, <2>1, <2>2 DEF WInv, ServerInv
<1>8. Reported' \subseteq Reported
  BY <1>1, <1>4 DEF Reported
<1>9. NextWindowInv'
  BY <1>1, <1>8 DEF WInv, NextWindowInv
<1>10. ApartInv'
  BY <1>4, <1>8 DEF WInv, ApartInv
<1> QED
  BY <1>6, <1>7, <1>9, <1>10 DEF WInv

LEMMA RestartWInv ==
  ASSUME Sound, WInv, restart
  PROVE  WInv'
<1>1. /\ now' = now + 1 /\ lastGenerated' = Never /\ job' = NoJob /\ old' = {} /\ UNCHANGED <<log, server>>
  BY DEF restart, timePasses, store
<1>2. now \in Int /\ Keep \in Int /\ \A id \in DOMAIN log : log[id].created \in Int
  BY TimeFacts, Parameters, RowFacts DEF Sound, BInv
<1>3. \A w \in server : w.to \in Int
  BY ReportedFacts DEF Sound, BInv, Reported
<1>4. RowsInv'
  BY <1>1, <1>2 DEF WInv, RowsInv
<1>5. ServerInv'
  BY <1>1, <1>2, <1>3 DEF WInv, ServerInv
<1>6. NextWindowInv' /\ ApartInv'
  BY <1>1 DEF WInv, NextWindowInv, ApartInv, Reported
<1> QED
  BY <1>4, <1>5, <1>6 DEF WInv

LEMMA StepWInv == Utc /\ Sound /\ WInv /\ steady' /\ [Next]_vars => WInv'
<1> SUFFICES ASSUME Offset = 0, Sound, WInv, steady', [Next]_vars PROVE WInv'
  BY DEF Utc
<1>1. \A id \in old : log[id].created < now - Keep
  BY DEF WInv, ServerInv
<1>2. CASE \/ UNCHANGED vars \/ start \/ stop \/ tick
           \/ configSaved \/ loadConfig \/ configApplied \/ \E c \in Settings : edit(c)
  <2>1. UNCHANGED <<schedule, store, server>> /\ UNCHANGED <<now, old>>
    BY <1>2 DEF vars, start, stop, tick, configSaved, loadConfig, configApplied, edit, time
  <2> QED
    BY <1>1, <2>1, AsideWInv
<1>3. CASE purge
  <2>1. \A id \in DOMAIN log : log[id].created - Offset = log[id].created
    BY RowFacts DEF Sound, BInv
  <2>2. UNCHANGED <<schedule, store, server>> /\ now' = now
        /\ \A id \in old' : log[id].created < now - Keep
    BY <1>3, <2>1 DEF purge, loadOlderThan, time
  <2> QED
    BY <2>2, AsideWInv
<1>4. CASE clock
  <2>1. UNCHANGED <<schedule, store, server>> /\ UNCHANGED old /\ now' = now + 1
    BY <1>4 DEF clock, timePasses
  <2>2. \A id \in old : log[id].created \in Int
    BY RowFacts DEF Sound, BInv, TypeOK
  <2>3. \A id \in old' : log[id].created < now' - Keep
    BY <1>1, <2>1, <2>2, TimeFacts, Parameters DEF Sound, BInv
  <2> QED
    BY <2>1, <2>3, AsideWInv
<1>5. ~setBack
  BY DEF setBack
<1> QED
  BY <1>2, <1>3, <1>4, <1>5, TickWInv, WriteWInv, LogWInv, UploadWInv, PurgeLogWInv, RestartWInv
     DEF Next, workerStep

\* Windows of which one ends when, or before, the other starts have at most that
\* moment in common.
LEMMA ApartCovered ==
  ASSUME NEW v \in WindowType, NEW w \in WindowType, Apart(v, w)
  PROVE  Covered(v) \cap Covered(w) \subseteq CommonEnd(v, w)
<1>1. v.from \in Int /\ v.to \in Int /\ w.from \in Int /\ w.to \in Int
  BY WindowFacts
<1>2. SUFFICES ASSUME NEW t \in Covered(v) \cap Covered(w)
               PROVE  t \in CommonEnd(v, w)
  OBVIOUS
<1>3. t \in Int /\ v.from <= t /\ t <= v.to /\ w.from <= t /\ t <= w.to
  BY <1>1 DEF Covered
<1>4. (t = v.from /\ t = w.to) \/ (t = v.to /\ t = w.from)
  BY <1>1, <1>3 DEF Apart
<1> QED
  BY <1>4 DEF CommonEnd

LEMMA ApartOverlap == TypeOK /\ ApartInv /\ steady => OnlyEndsShared
<1> SUFFICES ASSUME TypeOK, ApartInv PROVE OnlyEndsShared
  OBVIOUS
<1>1. \A id \in DOMAIN log : log[id].window \in WindowType
  BY RowFacts
<1>2. \A w \in Reported : w \in WindowType
  BY ReportedFacts
<1> QED
  BY <1>1, <1>2, ApartCovered DEF ApartInv, OnlyEndsShared

\* No reading is in two reports but one taken in the second that ends one and
\* starts the other (ReportController::onScheduleTick with
\* ReportLogDao::lastGeneratedAt, SensorDataDao::aggregateWindow), where local
\* time is UTC and until the clock is set back: the run ReportsOverlap shows that
\* it fails elsewhere.
THEOREM ReportsOnlyEndsShared == Utc /\ Spec => []OnlyEndsShared
<1> DEFINE Both == Utc /\ IInv /\ (steady => WInv)
<1>1. Utc /\ Init => Both
  BY InitBase, InitSound, InitWInv DEF IInv
<1>2. Both /\ [Next]_vars => Both'
  BY StepInv, StepWInv, SteadyKept DEF Utc, IInv
<1>3. Both => OnlyEndsShared
  BY ApartOverlap DEF WInv, IInv, BInv, OnlyEndsShared
<1> HIDE DEF Both
<1> QED
  BY <1>1, <1>2, <1>3, PTL DEF Spec
=============================================================================
