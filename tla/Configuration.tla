---------------------------- MODULE Configuration ----------------------------
(***************************************************************************)
(* The device's configuration and its copies: the app_config row with its  *)
(* revision and the sensor tables in SQLite; m_cfg in SettingsController,  *)
(* which the settings screen edits in place; the list of SensorListModel;  *)
(* and what the running services were started with.                        *)
(*                                                                         *)
(* Three writers change the rows: the settings screen saves the whole of   *)
(* m_cfg, POST /api/v1/config changes some fields of the row, and sensor   *)
(* edits and calibrations raise the revision of a row they do not read.    *)
(* After a POST m_cfg is brought up to date by a queued call, so anything  *)
(* may happen in between. Every such write is one transaction with its     *)
(* audit entry, and may fail as a whole. Reading the row writes it too: a  *)
(* station code that was saved empty is filled in, without a revision. The *)
(* callers' permissions are those of module Accounts.                      *)
(***************************************************************************)
EXTENDS Integers, FiniteSets

CONSTANTS
  Values,       \* the valid values of a group of settings, of a coefficient
  Bad,          \* a value that validate refuses
  Empty,        \* a station code that validate accepts and load replaces
  Off,          \* uploads are switched off (serverActive)
  MaxSensors,   \* bound: sensors created
  MaxRevision,  \* the largest revision the column holds (2^31 - 1 in the code)
  MaxReloads    \* bound: reloads queued

ASSUME ConfigurationAssumption ==
  /\ {Bad, Empty, Off} \cap Values = {} /\ Bad # Off /\ Empty # Bad /\ Values # {}
  /\ MaxSensors \in Nat /\ MaxReloads \in Nat /\ MaxRevision \in Nat \ {0}

VARIABLES
  config,    \* the row: station (fields POST may change), uploads, servers (the rest), token,
             \* revision
  memory,    \* m_cfg, of the same shape
  edited,    \* m_cfg was edited since it was last loaded or saved
  reloads,   \* calls of loadConfig queued by configApplied
  running,   \* what the polling session and the servers were started with
  sensors,   \* table sensor
  created,   \* the last id given to a sensor; ids are never given again
  sessions,  \* table calibration_session: the last coefficient, per sensor
  links,     \* table analog_digital_link, as <<analog, digital>>
  readings,  \* the sensors that have rows in sensor_data
  listed     \* m_sensors of SensorListModel

configVars == <<config, memory, edited, reloads, running>>
sensorVars == <<sensors, created, sessions, links, readings, listed>>
vars == <<configVars, sensorVars>>

Ids == 1..MaxSensors
SensorType == {"ANALOG", "DO"}
Choices(field) ==
  Values \cup {Bad} \cup (CASE field = "uploads" -> {Off} [] field = "station" -> {Empty} [] OTHER -> {})

\* The values of a new row, with the station code of the device.
First == CHOOSE v \in Values : TRUE

Init ==
  /\ config = [station |-> First, uploads |-> First, servers |-> First, token |-> 0, revision |-> 1]
  /\ memory = config /\ edited = FALSE /\ reloads = 0
  /\ running = [station |-> First, uploads |-> First, servers |-> First, token |-> 0]
  /\ sensors = <<>> /\ created = 0 /\ sessions = <<>>
  /\ links = {} /\ readings = {} /\ listed = <<>>

----------------------------------------------------------------------------
(* The row and its copy. *)

\* The next revision; none is left after the largest.
revisionLeft == config.revision < MaxRevision
bumpRevision == [config EXCEPT !.revision = @ + 1]

\* Mutant: the revision after the one in m_cfg.
savedStale(cfg) == [cfg EXCEPT !.revision = @ + 1]

\* saveConfigWithAudit: the whole of m_cfg, with the revision after the one in
\* the row, which may be ahead of m_cfg's.
saved(cfg) == [cfg EXCEPT !.revision = config.revision + 1]

\* What load() returns of a row.
filled(row) == IF row.station = Empty THEN [row EXCEPT !.station = First] ELSE row

\* load() leaves the row filled in, unless that write fails; its revision stays.
load(row) == config' \in {row, filled(row)}

loadConfig == load(config) /\ memory' = filled(config) /\ edited' = FALSE

\* The polling session loads the row when it starts.
refreshSensors == [running EXCEPT !.station = filled(config').station]

\* The uploads and the servers are started with m_cfg.
applyServerConfig == [refreshSensors EXCEPT !.uploads = memory'.uploads]
applyConfig == [applyServerConfig EXCEPT !.servers = memory'.servers, !.token = memory'.token]

\* A setter, while the settings screen is open. Uploads that are switched off
\* stop at once.
edit(field, v) ==
  /\ memory' = [memory EXCEPT ![field] = v] /\ edited' = TRUE
  /\ running' = IF v = Off THEN [running EXCEPT !.uploads = Off] ELSE running
  /\ UNCHANGED <<config, reloads, sensorVars>>

\* GET /api/v1/config, or polling starts: both load the row.
readConfig ==
  /\ load(config)
  /\ running' \in {running, refreshSensors}
  /\ UNCHANGED <<memory, edited, reloads, sensorVars>>

cancelConfig ==
  /\ UNCHANGED <<reloads, running, sensorVars>>
  /\ loadConfig

\* Mutant: the form of the upload server is not validated.
validateServers == Bad \notin {memory.station, memory.servers}

validate == Bad \notin {memory.station, memory.uploads, memory.servers}

\* A token is made when REST is switched on and there is none yet.
withToken(cfg) == IF cfg.token = 0 THEN [cfg EXCEPT !.token = 1] ELSE cfg

saveCommits ==
  /\ revisionLeft
  /\ \E cfg \in {memory, withToken(memory)} : memory' = saved(cfg)
  /\ load(memory') /\ edited' = FALSE
  /\ running' = applyConfig

\* Mutant: a save that fails leaves the screen as it is, edits taken for saved.
saveFailsQuietly == edited' = FALSE /\ UNCHANGED <<config, memory, running>>

\* A save that fails loads the row again, edits and new token are gone.
saveFails == loadConfig /\ UNCHANGED running

saveConfig ==
  /\ validate
  /\ saveCommits \/ saveFails
  /\ UNCHANGED <<reloads, sensorVars>>

\* A new token, in the row at once; m_cfg takes the token and the revision.
regenerateRestToken ==
  /\ revisionLeft
  /\ load([bumpRevision EXCEPT !.token = (@ % 2) + 1])
  /\ memory' = [memory EXCEPT !.token = config'.token, !.revision = config'.revision]
  /\ running' = applyConfig
  /\ UNCHANGED <<edited, reloads, sensorVars>>

\* POST /api/v1/config: the row as it is, with the fields of the request, which
\* must not empty the station code.
postConfig(v) ==
  /\ v \in Values
  /\ revisionLeft /\ reloads < MaxReloads
  /\ config' = [bumpRevision EXCEPT !.station = v]
  /\ reloads' = reloads + 1
  /\ UNCHANGED <<memory, edited, running, sensorVars>>

\* The queued call: m_cfg follows, polling and uploads restart, servers stay.
configApplied ==
  /\ reloads > 0
  /\ reloads' = reloads - 1
  /\ UNCHANGED sensorVars
  /\ loadConfig
  /\ running' = applyServerConfig

----------------------------------------------------------------------------
(* Sensors, links and calibrations. *)

\* Mutant: a connection that does not enforce foreign keys.
foreignKeysOff(table, linked, read) == TRUE

\* Foreign keys as SQLite enforces them on every connection: a statement that
\* leaves a reference to a sensor that is not there fails.
foreignKeys(table, linked, read) ==
  /\ \A l \in linked : l[1] \in DOMAIN table /\ l[2] \in DOMAIN table
  /\ read \subseteq DOMAIN table

without(f, id) == [i \in DOMAIN f \ {id} |-> f[i]]
with(f, id, x) == [i \in DOMAIN f \cup {id} |-> IF i = id THEN x ELSE f[i]]

\* SensorDao::save and CalibrationDao::saveSession.
saveSensor(id, row) == with(sensors, id, row)
saveSession(id, c) == sessions' = with(sessions, id, c)

loadFromDb(table) == listed' = table

\* commitSensorWrite: the change, the revision and the audit entry together;
\* then the list is loaded again. The session is restarted by its listeners.
commitSensorWrite(table) ==
  /\ revisionLeft
  /\ sensors' = table
  /\ load(bumpRevision)
  /\ loadFromDb(table)
  /\ running' = refreshSensors
  /\ UNCHANGED <<memory, edited, reloads>>

addSensor(type, v) ==
  /\ created < MaxSensors
  /\ created' = created + 1
  /\ commitSensorWrite(saveSensor(created', [type |-> type, shown |-> v, coefficient |-> First]))
  /\ UNCHANGED <<sessions, links, readings>>

\* The form writes every column but transmit_enabled.
updateSensor(id, form) ==
  /\ id \in DOMAIN sensors
  /\ commitSensorWrite(saveSensor(id, form))
  /\ UNCHANGED <<created, sessions, links, readings>>

\* Readings, links and the sensor, in one transaction; the sessions go with it.
removeRows(id) ==
  /\ readings' = readings \ {id}
  /\ links' = {l \in links : id \notin {l[1], l[2]}}
  /\ sessions' = without(sessions, id)

removeSensor(id) ==
  /\ id \in DOMAIN sensors
  /\ removeRows(id)
  /\ foreignKeys(without(sensors, id), links', readings')
  /\ commitSensorWrite(without(sensors, id))
  /\ UNCHANGED created

\* Symbols and transmit flags: columns that GET does not return.
applyTransmission ==
  /\ sensors # <<>>
  /\ commitSensorWrite(sensors)
  /\ UNCHANGED <<created, sessions, links, readings>>

\* CalibrationController::apply: the sensor is read inside the transaction, so
\* only its coefficient changes; the list is refreshed.
calibrate(id, c) ==
  /\ id \in DOMAIN sensors /\ sensors[id].type = "ANALOG"
  /\ saveSession(id, c)
  /\ commitSensorWrite(saveSensor(id, [sensors[id] EXCEPT !.coefficient = c]))
  /\ UNCHANGED <<created, links, readings>>

\* commitLinkWrite: links are neither in GET nor in the revision. Polling
\* restarts all the same.
commitLinkWrite(linked) ==
  /\ links' = linked
  /\ foreignKeys(sensors, linked, readings)
  /\ load(config) /\ running' = refreshSensors
  /\ UNCHANGED <<memory, edited, reloads, sensors, created, sessions, readings, listed>>

\* attach_di and attach_do, from the sensors the list offers.
attach(a, d) ==
  /\ {a, d} \subseteq DOMAIN listed
  /\ listed[a].type = "ANALOG" /\ listed[d].type # "ANALOG"
  /\ commitLinkWrite(links \cup {<<a, d>>})

detach_link(l) == l \in links /\ commitLinkWrite(links \ {l})

\* update_link_di_type and update_link_do_triggers: what a link does when its
\* sensors alarm is not modelled here.
update_link(l) == l \in links /\ commitLinkWrite(links)

\* The database worker stores a reading that it may have queued before the
\* sensor was removed; a row that is refused is skipped.
insertReading(id) ==
  /\ id \in 1..created
  /\ foreignKeys(sensors, links, readings \cup {id})
  /\ readings' = readings \cup {id}
  /\ UNCHANGED <<configVars, sensors, created, sessions, links, listed>>

\* The process ends and starts again: the copies are loaded, services started.
restart ==
  /\ loadConfig
  /\ reloads' = 0
  /\ running' = applyConfig
  /\ listed' = sensors
  /\ UNCHANGED <<sensors, created, sessions, links, readings>>

Forms == [type : SensorType, shown : Values, coefficient : Values]

Next ==
  \/ saveConfig \/ readConfig \/ cancelConfig \/ regenerateRestToken \/ configApplied
  \/ applyTransmission \/ restart
  \/ \E f \in {"station", "uploads", "servers"} : \E v \in Choices(f) : edit(f, v)
  \/ \E v \in Values : postConfig(v)
  \/ \E type \in SensorType, v \in Values : addSensor(type, v)
  \/ \E id \in Ids : removeSensor(id) \/ insertReading(id)
  \/ \E id \in Ids, form \in Forms : updateSensor(id, form)
  \/ \E id \in Ids, c \in Values : calibrate(id, c)
  \/ \E a, d \in Ids : attach(a, d) \/ detach_link(<<a, d>>) \/ update_link(<<a, d>>)

Spec == Init /\ [][Next]_vars

----------------------------------------------------------------------------
(* Properties. *)

ConfigType == [station : Choices("station"), uploads : Choices("uploads"), servers : Choices("servers"),
               token : 0..2, revision : 1..MaxRevision]

\* The copies have the columns of the row, in which the settings screen and a
\* POST store only values that validate accepts, with a revision the column
\* holds; a table has a row only for sensors that were created.
TypeOK ==
  /\ {config, memory} \subseteq ConfigType
  /\ Bad \notin {config.station, config.uploads, config.servers}
  /\ edited \in BOOLEAN /\ reloads \in 0..MaxReloads
  /\ running \in [station : Values, uploads : Choices("uploads"), servers : Choices("servers"), token : 0..2]
  /\ created \in 0..MaxSensors
  /\ DOMAIN sensors \cup DOMAIN sessions \cup DOMAIN listed \cup readings \subseteq 1..created
  /\ \A id \in DOMAIN sensors : sensors[id] \in Forms
  /\ links \subseteq (1..created) \X (1..created)

\* What GET /api/v1/config returns, but the revision.
Served ==
  <<filled(config).station, config.servers,
    [id \in DOMAIN sensors |-> <<sensors[id].type, sensors[id].shown>>]>>

\* A client that compares revisions sees every change: whatever GET returns
\* changes only together with a higher revision, although GET itself may write
\* the row, and no write, of a stale copy or at the largest revision, ever takes
\* the revision back.
RevisionTells ==
  [][/\ config'.revision >= config.revision
     /\ Served' # Served => config'.revision > config.revision]_vars

Settings(cfg) == <<cfg.station, cfg.uploads, cfg.servers, cfg.token>>

\* The copies in memory agree with the tables whenever the user has no unsaved
\* edit and no reload is on its way, whichever of the writes failed: but for a
\* station code that was saved empty, which either side may hold filled in while
\* the other does not. The revision of the copy may lag, but never leads.
MemoryFollows ==
  /\ ~edited /\ reloads = 0 => Settings(filled(memory)) = Settings(filled(config))
  /\ memory.revision <= config.revision
  /\ listed = sensors

\* No link, calibration or reading refers to a sensor that is gone, with
\* readings still queued when the sensor is removed.
NoOrphans ==
  /\ \A l \in links : {l[1], l[2]} \subseteq DOMAIN sensors
  /\ DOMAIN sessions \cup readings \subseteq DOMAIN sensors
=============================================================================
