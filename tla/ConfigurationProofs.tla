-------------------------- MODULE ConfigurationProofs --------------------------
(***************************************************************************)
(* Proofs about Configuration, for any values of the settings, number of   *)
(* sensors, largest revision and number of queued reloads.                 *)
(*                                                                         *)
(* The invariant has a part for the configuration row with its copies and  *)
(* one for the sensor tables. The writers of the second half raise the     *)
(* revision of the first (commitSensorWrite) and touch nothing else of it. *)
(***************************************************************************)
EXTENDS Configuration, TLAPS

RunningType ==
  [station : Values, uploads : Choices("uploads"), servers : Choices("servers"), token : 0..2]

Valid(cfg) == Bad \notin {cfg.station, cfg.uploads, cfg.servers}

RowInv ==
  /\ config \in ConfigType /\ Valid(config)
  /\ memory \in ConfigType
  /\ edited \in BOOLEAN /\ reloads \in 0..MaxReloads
  /\ running \in RunningType
  /\ ~edited /\ reloads = 0 => Settings(filled(memory)) = Settings(filled(config))
  /\ memory.revision <= config.revision

TableInv ==
  /\ created \in 0..MaxSensors
  /\ DOMAIN sensors \subseteq 1..created
  /\ \A id \in DOMAIN sensors : sensors[id] \in Forms
  /\ listed = sensors
  /\ links \subseteq (1..created) \X (1..created)
  /\ NoOrphans

IInv == RowInv /\ TableInv
-----------------------------------------------------------------------------
(* The values the configuration can have. *)

LEMMA ChoicesAre ==
  /\ Choices("station") = Values \cup {Bad, Empty}
  /\ Choices("servers") = Values \cup {Bad}
  /\ Choices("uploads") = Values \cup {Bad, Off}
BY DEF Choices

LEMMA FirstValue == First \in Values
BY ConfigurationAssumption DEF First, ConfigurationAssumption

\* Filling in changes a station code, and no other column.
LEMMA Filled ==
  ASSUME NEW cfg \in ConfigType
  PROVE  /\ filled(cfg) \in ConfigType /\ filled(filled(cfg)) = filled(cfg)
         /\ filled(cfg).revision = cfg.revision /\ cfg.revision \in Int
         /\ filled(cfg).uploads = cfg.uploads /\ filled(cfg).servers = cfg.servers
         /\ filled(cfg).token = cfg.token
         /\ filled(cfg).station = IF cfg.station = Empty THEN First ELSE cfg.station
         /\ Valid(cfg) => Valid(filled(cfg)) /\ filled(cfg).station \in Values
<1>1. First \in Values /\ First # Empty /\ First # Bad /\ Empty # Bad
  BY FirstValue, ConfigurationAssumption DEF ConfigurationAssumption
<1>2. /\ filled(cfg) \in ConfigType
      /\ filled(cfg).revision = cfg.revision /\ cfg.revision \in Int
      /\ filled(cfg).uploads = cfg.uploads /\ filled(cfg).servers = cfg.servers
      /\ filled(cfg).token = cfg.token
      /\ filled(cfg).station = IF cfg.station = Empty THEN First ELSE cfg.station
  BY <1>1, ChoicesAre DEF filled, ConfigType
<1>3. filled(cfg).station # Empty
  BY <1>1, <1>2
<1>4. filled(filled(cfg)) = filled(cfg)
  BY <1>3 DEF filled
<1>5. Valid(cfg) => Valid(filled(cfg)) /\ filled(cfg).station \in Values
  BY <1>1, <1>2, ChoicesAre DEF Valid, ConfigType
<1> QED
  BY <1>2, <1>4, <1>5

\* Whether load has written the row or not, what is read of it is the same.
LEMMA Loaded ==
  ASSUME NEW row \in ConfigType, Valid(row), load(row)
  PROVE  /\ config' \in ConfigType /\ Valid(config') /\ filled(config') = filled(row)
         /\ config'.revision = row.revision
BY Filled DEF load

LEMMA InitInv == Init => IInv
<1> SUFFICES ASSUME Init PROVE IInv
  OBVIOUS
<1>1. First \in Values /\ First # Bad
  BY FirstValue, ConfigurationAssumption DEF ConfigurationAssumption
<1>2. config \in ConfigType /\ Valid(config) /\ running \in RunningType
  BY <1>1, ChoicesAre, ConfigurationAssumption
  DEF Init, ConfigType, RunningType, Valid, ConfigurationAssumption
<1>3. config.revision <= config.revision
  BY <1>2 DEF ConfigType
<1>4. memory = config
  BY DEF Init
<1>5. edited \in BOOLEAN /\ reloads \in 0..MaxReloads
  <2>1. edited \in BOOLEAN /\ reloads = 0
    BY DEF Init
  <2>2. 0 \in 0..MaxReloads
    BY ConfigurationAssumption DEF ConfigurationAssumption
  <2> QED
    BY <2>1, <2>2
<1>6. RowInv
  BY <1>2, <1>3, <1>4, <1>5 DEF RowInv
<1>7. TableInv
  BY ConfigurationAssumption DEF Init, TableInv, NoOrphans, ConfigurationAssumption
<1> QED
  BY <1>6, <1>7 DEF IInv

-----------------------------------------------------------------------------
(* The row and its copies. *)

\* The services are started with m_cfg, the polling session with the row.
LEMMA StartedWith ==
  ASSUME RowInv, config' \in ConfigType, Valid(config'), memory' \in ConfigType
  PROVE  refreshSensors \in RunningType /\ applyServerConfig \in RunningType
         /\ applyConfig \in RunningType
<1>1. filled(config').station \in Values
  BY Filled
<1>2. refreshSensors \in RunningType
  BY <1>1 DEF RowInv, refreshSensors, RunningType
<1>3. applyServerConfig \in RunningType
  BY <1>2 DEF applyServerConfig, RunningType, ConfigType
<1>4. applyConfig \in RunningType
  BY <1>3 DEF applyConfig, RunningType, ConfigType
<1> QED
  BY <1>2, <1>3, <1>4

\* A raised revision leaves the settings alone.
LEMMA Bumped ==
  ASSUME RowInv, revisionLeft
  PROVE  /\ bumpRevision \in ConfigType /\ Valid(bumpRevision)
         /\ Settings(filled(bumpRevision)) = Settings(filled(config))
         /\ bumpRevision.revision = config.revision + 1
         /\ bumpRevision.station = config.station /\ bumpRevision.servers = config.servers
         /\ bumpRevision.uploads = config.uploads /\ bumpRevision.token = config.token
<1>1. /\ bumpRevision \in ConfigType /\ Valid(bumpRevision)
      /\ bumpRevision.revision = config.revision + 1
      /\ bumpRevision.station = config.station /\ bumpRevision.servers = config.servers
      /\ bumpRevision.uploads = config.uploads /\ bumpRevision.token = config.token
  BY ConfigurationAssumption
  DEF RowInv, revisionLeft, bumpRevision, ConfigType, Valid, ConfigurationAssumption
<1>2. config \in ConfigType
  BY DEF RowInv
<1> QED
  BY <1>1, <1>2, Filled DEF Settings

\* A sensor edit raises the revision; a write of links does not.
LEMMA TableWriteKeepsRow ==
  ASSUME RowInv,
         \/ revisionLeft /\ load(bumpRevision)
         \/ load(config),
         running' = refreshSensors, UNCHANGED <<memory, edited, reloads>>
  PROVE  RowInv'
<1>1. /\ config' \in ConfigType /\ Valid(config')
      /\ Settings(filled(config')) = Settings(filled(config))
      /\ config'.revision >= config.revision /\ config'.revision \in Int
  <2>1. config \in ConfigType /\ Valid(config)
    BY DEF RowInv
  <2>2. CASE load(config)
    BY <2>1, <2>2, Loaded, Filled
  <2>3. CASE revisionLeft /\ load(bumpRevision)
    BY <2>1, <2>3, Bumped, Loaded, Filled
  <2> QED
    BY <2>2, <2>3
<1>2. running' \in RunningType
  BY <1>1, StartedWith DEF RowInv
<1>3. memory.revision \in Int /\ config.revision \in Int
  BY DEF RowInv, ConfigType
<1> QED
  BY <1>1, <1>2, <1>3 DEF RowInv

LEMMA EditInv ==
  ASSUME RowInv, NEW field \in {"station", "uploads", "servers"}, NEW v \in Choices(field),
         edit(field, v)
  PROVE  RowInv'
<1>1. memory' \in ConfigType /\ memory'.revision = memory.revision
  BY DEF RowInv, edit, ConfigType
<1>2. running' \in RunningType
  BY ChoicesAre DEF RowInv, edit, RunningType
<1> QED
  BY <1>1, <1>2 DEF RowInv, edit

\* Loading the row again, after a cancelled or a failed save or at a start.
LEMMA LoadInv ==
  ASSUME RowInv, loadConfig, reloads' \in 0..MaxReloads, running' \in RunningType
  PROVE  RowInv'
<1>1. /\ config' \in ConfigType /\ Valid(config') /\ filled(config') = filled(config)
      /\ config'.revision = config.revision /\ config \in ConfigType
  BY Loaded DEF RowInv, loadConfig
<1>2. memory' = filled(config) /\ edited' = FALSE
  BY DEF loadConfig
<1>3. /\ memory' \in ConfigType /\ filled(memory') = filled(config')
      /\ memory'.revision <= config'.revision
  BY <1>1, <1>2, Filled
<1> QED
  BY <1>1, <1>2, <1>3 DEF RowInv

\* What loadConfig leaves can be started with.
LEMMA LoadStarts ==
  ASSUME RowInv, loadConfig
  PROVE  applyServerConfig \in RunningType /\ applyConfig \in RunningType
<1>1. config' \in ConfigType /\ Valid(config') /\ memory' \in ConfigType
  BY Loaded, Filled DEF RowInv, loadConfig
<1> QED
  BY <1>1, StartedWith

LEMMA ReadInv ==
  ASSUME RowInv, readConfig
  PROVE  RowInv'
<1>1. config \in ConfigType /\ Valid(config) /\ load(config)
  BY DEF RowInv, readConfig
<1>2. /\ config' \in ConfigType /\ Valid(config') /\ filled(config') = filled(config)
      /\ config'.revision = config.revision
  BY <1>1, Loaded
<1>3. running' \in RunningType
  BY <1>2, StartedWith DEF RowInv, readConfig
<1> QED
  BY <1>2, <1>3 DEF RowInv, readConfig

\* What is saved has been validated; a new token changes nothing of that.
LEMMA SaveInv ==
  ASSUME RowInv, saveConfig
  PROVE  RowInv'
<1>1. CASE saveFails
  BY <1>1, LoadInv DEF saveConfig, saveFails, RowInv
<1>2. CASE saveCommits
  <2>1. PICK cfg \in {memory, withToken(memory)} : memory' = saved(cfg)
    BY <1>2 DEF saveCommits
  <2>2. cfg \in ConfigType /\ Valid(cfg)
    BY DEF saveConfig, validate, withToken, RowInv, ConfigType, Valid
  <2>3. memory' \in ConfigType /\ Valid(memory')
    <3>1. config.revision + 1 \in 1..MaxRevision
      BY <1>2, ConfigurationAssumption
      DEF saveCommits, revisionLeft, RowInv, ConfigType, ConfigurationAssumption
    <3> QED
      BY <2>1, <2>2, <3>1 DEF saved, ConfigType, Valid
  <2>4. /\ config' \in ConfigType /\ Valid(config') /\ filled(config') = filled(memory')
        /\ config'.revision = memory'.revision /\ config'.revision \in Int
    BY <1>2, <2>3, Loaded, Filled DEF saveCommits
  <2>5. running' \in RunningType
    BY <1>2, <2>3, <2>4, StartedWith DEF saveCommits
  <2>6. memory'.revision <= config'.revision
    BY <2>4
  <2>7. edited' = FALSE /\ reloads' = reloads
    BY <1>2 DEF saveCommits, saveConfig
  <2> QED
    BY <2>3, <2>4, <2>5, <2>6, <2>7 DEF RowInv
<1> QED
  BY <1>1, <1>2 DEF saveConfig

\* The token and the revision of the row and of m_cfg change together.
LEMMA TokenInv ==
  ASSUME RowInv, regenerateRestToken
  PROVE  RowInv'
<1> DEFINE token == (config.token % 2) + 1
<1>1. token \in 0..2
  BY DEF RowInv, ConfigType
<1> DEFINE row == [bumpRevision EXCEPT !.token = token]
<1>2. load(row)
  BY Bumped DEF regenerateRestToken, bumpRevision, RowInv, ConfigType
<1> HIDE DEF token
<1>2a. /\ row \in ConfigType /\ Valid(row) /\ row.token = token
      /\ row.station = config.station /\ row.uploads = config.uploads
      /\ row.servers = config.servers /\ row.revision = config.revision + 1
  BY <1>1, Bumped DEF regenerateRestToken, ConfigType, Valid
<1> HIDE DEF row
<1>3. /\ config' \in ConfigType /\ Valid(config') /\ filled(config') = filled(row)
      /\ config'.revision = config.revision + 1 /\ config'.token = token
  BY <1>2, <1>2a, Loaded, Filled
<1>4. memory' \in ConfigType
  BY <1>3 DEF regenerateRestToken, RowInv, ConfigType
<1>5. running' \in RunningType
  BY <1>3, <1>4, StartedWith DEF regenerateRestToken
<1>6. Settings(filled(memory)) = Settings(filled(config))
        => Settings(filled(memory')) = Settings(filled(config'))
  <2>1. /\ memory'.token = token /\ memory'.station = memory.station
        /\ memory'.uploads = memory.uploads /\ memory'.servers = memory.servers
    BY <1>3 DEF regenerateRestToken, RowInv, ConfigType
  <2>2. memory \in ConfigType /\ config \in ConfigType
    BY DEF RowInv
  <2> QED
    BY <1>3, <1>4, <1>2a, <2>1, <2>2, Filled DEF Settings
<1>7. memory'.revision <= config'.revision
  BY <1>3 DEF regenerateRestToken, RowInv, ConfigType
<1> QED
  BY <1>3, <1>4, <1>5, <1>6, <1>7 DEF regenerateRestToken, RowInv

\* Until its reload has run, a POST makes no promise about m_cfg.
LEMMA PostInv ==
  ASSUME RowInv, NEW v \in Values, postConfig(v)
  PROVE  RowInv'
<1>1. config' \in ConfigType /\ Valid(config') /\ config'.revision = config.revision + 1
  BY Bumped, ChoicesAre, ConfigurationAssumption
  DEF postConfig, ConfigType, Valid, ConfigurationAssumption
<1>2. reloads' \in 1..MaxReloads
  BY ConfigurationAssumption DEF postConfig, RowInv, ConfigurationAssumption
<1>3. memory.revision \in Int /\ config.revision \in Int
  BY DEF RowInv, ConfigType
<1> QED
  BY <1>1, <1>2, <1>3 DEF postConfig, RowInv

-----------------------------------------------------------------------------
(* The sensor tables. *)

LEMMA AddInv ==
  ASSUME TableInv, NEW type \in SensorType, NEW v \in Values, addSensor(type, v)
  PROVE  TableInv'
<1> DEFINE row == [type |-> type, shown |-> v, coefficient |-> First]
<1>1. row \in Forms
  BY FirstValue DEF Forms
<1> HIDE DEF row
<1>2. sensors' = with(sensors, created', row) /\ listed' = sensors'
  BY DEF addSensor, commitSensorWrite, saveSensor, loadFromDb, row
<1>3. created' = created + 1 /\ created' \in 0..MaxSensors
  BY ConfigurationAssumption DEF addSensor, TableInv, ConfigurationAssumption
<1>4. DOMAIN sensors' = DOMAIN sensors \cup {created'}
  BY <1>2 DEF with
<1>5. \A id \in DOMAIN sensors' : sensors'[id] \in Forms
  BY <1>1, <1>2 DEF with, TableInv
<1>6. NoOrphans'
  BY <1>4 DEF addSensor, TableInv, NoOrphans
<1>7. links' \subseteq (1..created') \X (1..created') /\ DOMAIN sensors' \subseteq 1..created'
  BY <1>3, <1>4 DEF addSensor, TableInv
<1> QED
  BY <1>2, <1>3, <1>5, <1>6, <1>7 DEF TableInv

LEMMA UpdateInv ==
  ASSUME TableInv, NEW id, NEW form \in Forms, updateSensor(id, form)
  PROVE  TableInv'
<1>1. sensors' = with(sensors, id, form) /\ listed' = sensors' /\ id \in DOMAIN sensors
  BY DEF updateSensor, commitSensorWrite, saveSensor, loadFromDb
<1>2. DOMAIN sensors' = DOMAIN sensors
  BY <1>1 DEF with
<1>3. \A i \in DOMAIN sensors' : sensors'[i] \in Forms
  BY <1>1 DEF with, TableInv
<1>4. NoOrphans'
  BY <1>2 DEF updateSensor, TableInv, NoOrphans
<1> QED
  BY <1>1, <1>2, <1>3, <1>4 DEF updateSensor, TableInv

\* Foreign keys speak of links and readings; the calibrations go by themselves.
LEMMA RemoveInv ==
  ASSUME TableInv, NEW id, removeSensor(id)
  PROVE  TableInv'
<1>1. sensors' = without(sensors, id) /\ listed' = sensors' /\ sessions' = without(sessions, id)
  BY DEF removeSensor, removeRows, commitSensorWrite, loadFromDb
<1>2. DOMAIN sensors' = DOMAIN sensors \ {id} /\ DOMAIN sessions' = DOMAIN sessions \ {id}
  BY <1>1 DEF without
<1>3. \A i \in DOMAIN sensors' : sensors'[i] \in Forms
  BY <1>1 DEF without, TableInv
<1>4. foreignKeys(sensors', links', readings')
  BY <1>1 DEF removeSensor
<1>5. NoOrphans'
  BY <1>2, <1>4 DEF foreignKeys, TableInv, NoOrphans
<1>6. links' \subseteq links
  BY DEF removeSensor, removeRows
<1> QED
  BY <1>1, <1>2, <1>3, <1>5, <1>6 DEF removeSensor, TableInv

LEMMA CalibrateInv ==
  ASSUME TableInv, NEW id, NEW c \in Values, calibrate(id, c)
  PROVE  TableInv'
<1> DEFINE row == [sensors[id] EXCEPT !.coefficient = c]
<1>1. id \in DOMAIN sensors /\ row \in Forms
  BY DEF calibrate, TableInv, Forms
<1> HIDE DEF row
<1>2. sensors' = with(sensors, id, row) /\ listed' = sensors' /\ sessions' = with(sessions, id, c)
  BY DEF calibrate, commitSensorWrite, saveSensor, saveSession, loadFromDb, row
<1>3. DOMAIN sensors' = DOMAIN sensors /\ DOMAIN sessions' = DOMAIN sessions \cup {id}
  BY <1>1, <1>2 DEF with
<1>4. \A i \in DOMAIN sensors' : sensors'[i] \in Forms
  BY <1>1, <1>2 DEF with, TableInv
<1>5. NoOrphans'
  BY <1>1, <1>3 DEF calibrate, TableInv, NoOrphans
<1> QED
  BY <1>2, <1>3, <1>4, <1>5 DEF calibrate, TableInv

LEMMA TransmissionInv ==
  ASSUME TableInv, applyTransmission
  PROVE  TableInv'
BY DEF applyTransmission, commitSensorWrite, loadFromDb, TableInv, NoOrphans

LEMMA LinkInv ==
  ASSUME TableInv, NEW linked, commitLinkWrite(linked), linked \subseteq (1..created) \X (1..created)
  PROVE  TableInv'
BY DEF commitLinkWrite, foreignKeys, TableInv, NoOrphans

LEMMA ReadingInv ==
  ASSUME TableInv, NEW id, insertReading(id)
  PROVE  TableInv'
BY DEF insertReading, foreignKeys, TableInv, NoOrphans

LEMMA TableSame ==
  ASSUME TableInv, UNCHANGED sensorVars
  PROVE  TableInv'
BY DEF sensorVars, TableInv, NoOrphans

-----------------------------------------------------------------------------
(* Every step. *)

\* The actions that write only the sensor tables, but for the revision.
TableStep ==
  \/ applyTransmission
  \/ \E type \in SensorType, v \in Values : addSensor(type, v)
  \/ \E id \in Ids : removeSensor(id)
  \/ \E id \in Ids, form \in Forms : updateSensor(id, form)
  \/ \E id \in Ids, c \in Values : calibrate(id, c)

LinkStep == \E a, d \in Ids : attach(a, d) \/ detach_link(<<a, d>>) \/ update_link(<<a, d>>)

RowStep ==
  \/ saveConfig \/ readConfig \/ cancelConfig \/ regenerateRestToken \/ configApplied
  \/ \E f \in {"station", "uploads", "servers"} : \E v \in Choices(f) : edit(f, v)
  \/ \E v \in Values : postConfig(v)

LEMMA NextCases ==
  Next => RowStep \/ TableStep \/ LinkStep \/ restart \/ \E id \in Ids : insertReading(id)
BY DEF Next, RowStep, TableStep, LinkStep

LEMMA RowStepInv ==
  ASSUME IInv, RowStep
  PROVE  IInv'
<1>1. UNCHANGED sensorVars
  BY DEF RowStep, saveConfig, readConfig, cancelConfig, regenerateRestToken, configApplied, edit, postConfig, sensorVars
<1>2. RowInv'
  <2>1. CASE saveConfig
    BY <2>1, SaveInv DEF IInv
  <2>2. CASE cancelConfig
    BY <2>2, LoadInv DEF IInv, RowInv, cancelConfig
  <2>3. CASE regenerateRestToken
    BY <2>3, TokenInv DEF IInv
  <2>4. CASE configApplied
    <3>1. loadConfig /\ reloads' \in 0..MaxReloads
      BY <2>4, ConfigurationAssumption DEF IInv, RowInv, configApplied, ConfigurationAssumption
    <3> QED
      BY <2>4, <3>1, LoadStarts, LoadInv DEF IInv, configApplied
  <2>5. CASE \E f \in {"station", "uploads", "servers"} : \E v \in Choices(f) : edit(f, v)
    BY <2>5, EditInv DEF IInv
  <2>6. CASE \E v \in Values : postConfig(v)
    BY <2>6, PostInv DEF IInv
  <2>7. CASE readConfig
    BY <2>7, ReadInv DEF IInv
  <2> QED
    BY <2>1, <2>2, <2>3, <2>4, <2>5, <2>6, <2>7 DEF RowStep
<1> QED
  BY <1>1, <1>2, TableSame DEF IInv

LEMMA TableStepInv ==
  ASSUME IInv, TableStep
  PROVE  IInv'
<1>1. /\ revisionLeft /\ load(bumpRevision)
      /\ running' = refreshSensors /\ UNCHANGED <<memory, edited, reloads>>
  BY DEF TableStep, applyTransmission, addSensor, removeSensor, updateSensor, calibrate, commitSensorWrite
<1>2. RowInv'
  BY <1>1, TableWriteKeepsRow DEF IInv
<1>3. TableInv'
  BY TransmissionInv, AddInv, RemoveInv, UpdateInv, CalibrateInv DEF TableStep, IInv
<1> QED
  BY <1>2, <1>3 DEF IInv

LEMMA LinkStepInv ==
  ASSUME IInv, LinkStep
  PROVE  IInv'
<1>1. PICK linked : commitLinkWrite(linked) /\ linked \subseteq (1..created) \X (1..created)
  BY DEF LinkStep, attach, detach_link, update_link, IInv, TableInv
<1>2. load(config) /\ running' = refreshSensors /\ UNCHANGED <<memory, edited, reloads, created>>
  BY <1>1 DEF commitLinkWrite
<1> QED
  BY <1>1, <1>2, TableWriteKeepsRow, LinkInv DEF IInv

LEMMA RestartInv ==
  ASSUME IInv, restart
  PROVE  IInv'
<1>1. loadConfig /\ reloads' \in 0..MaxReloads /\ running' \in RunningType
  BY LoadStarts, ConfigurationAssumption DEF IInv, restart, ConfigurationAssumption
<1>2. RowInv'
  BY <1>1, LoadInv DEF IInv
<1>3. TableInv'
  BY DEF IInv, TableInv, NoOrphans, restart
<1> QED
  BY <1>2, <1>3 DEF IInv

LEMMA StepInv == IInv /\ [Next]_vars => IInv'
<1> SUFFICES ASSUME IInv, [Next]_vars PROVE IInv'
  OBVIOUS
<1>1. CASE \E id \in Ids : insertReading(id)
  <2>1. RowInv'
    BY <1>1 DEF insertReading, configVars, IInv, RowInv, ConfigType
  <2> QED
    BY <1>1, <2>1, ReadingInv DEF IInv
<1>2. CASE UNCHANGED vars
  BY <1>2, TableSame DEF vars, configVars, sensorVars, IInv, RowInv, ConfigType
<1> QED
  BY <1>1, <1>2, NextCases, RowStepInv, TableStepInv, LinkStepInv, RestartInv

-----------------------------------------------------------------------------
(* The revision. *)

NextRevision == config'.revision = config.revision + 1
SameRead == filled(config') = filled(config) /\ config'.revision = config.revision

LEMMA LoadSame ==
  ASSUME IInv, load(config)
  PROVE  SameRead
BY Loaded DEF IInv, RowInv, SameRead

\* Every step raises the revision by one or leaves what is read of row and
\* sensors alone.
LEMMA RevisionCases ==
  ASSUME IInv, Next
  PROVE  NextRevision \/ (SameRead /\ UNCHANGED sensors)
<1>0. config \in ConfigType /\ Valid(config) /\ memory \in ConfigType
  BY DEF IInv, RowInv
<1>1. CASE RowStep
  <2>1. CASE saveConfig
    <3>1. CASE saveFails
      BY <2>1, <3>1, LoadSame DEF saveConfig, saveFails, loadConfig, sensorVars
    <3>2. CASE saveCommits
      <4>1. PICK cfg \in {memory, withToken(memory)} : memory' = saved(cfg)
        BY <3>2 DEF saveCommits
      <4>2. cfg \in ConfigType
        BY <1>0 DEF withToken, ConfigType
      <4>3. memory'.revision = config.revision + 1
        BY <4>1, <4>2 DEF saved, ConfigType
      <4>4. config' = memory' \/ config' = filled(memory')
        BY <3>2 DEF saveCommits, load
      <4>5. config'.revision = memory'.revision
        BY <4>1, <4>2, <4>4 DEF saved, filled, ConfigType
      <4> QED
        BY <4>3, <4>5 DEF NextRevision
    <3> QED
      BY <2>1, <3>1, <3>2 DEF saveConfig
  <2>2. CASE regenerateRestToken
    <3>1. config'.revision = bumpRevision.revision
      BY <2>2, Bumped DEF regenerateRestToken, load, filled, IInv, ConfigType
    <3> QED
      BY <2>2, <3>1, Bumped DEF regenerateRestToken, IInv, NextRevision
  <2>3. CASE \E v \in Values : postConfig(v)
    BY <2>3 DEF postConfig, bumpRevision, IInv, RowInv, ConfigType, NextRevision
  <2>4. CASE cancelConfig \/ configApplied
    BY <2>4, LoadSame DEF cancelConfig, configApplied, loadConfig, sensorVars
  <2>5. CASE \E f \in {"station", "uploads", "servers"} : \E v \in Choices(f) : edit(f, v)
    BY <2>5 DEF edit, sensorVars, SameRead
  <2>6. CASE readConfig
    BY <2>6, LoadSame DEF readConfig, sensorVars
  <2> QED
    BY <1>1, <2>1, <2>2, <2>3, <2>4, <2>5, <2>6 DEF RowStep
<1>2. CASE TableStep
  <2>1. revisionLeft /\ load(bumpRevision)
    BY <1>2 DEF TableStep, applyTransmission, addSensor, removeSensor, updateSensor, calibrate,
       commitSensorWrite
  <2> QED
    BY <2>1, Bumped, Loaded DEF IInv, NextRevision
<1>3. CASE LinkStep
  BY <1>3, LoadSame DEF LinkStep, attach, detach_link, update_link, commitLinkWrite
<1>4. CASE restart \/ \E id \in Ids : insertReading(id)
  BY <1>4, LoadSame DEF restart, loadConfig, insertReading, configVars, SameRead
<1> QED
  BY <1>1, <1>2, <1>3, <1>4, NextCases

(***************************************************************************)
(* The inductive invariant of the configuration and the sensor tables.     *)
(***************************************************************************)
THEOREM ConfigurationInvariant == Spec => []IInv
BY InitInv, StepInv, PTL DEF Spec

(***************************************************************************)
(* Every change of what GET returns comes with a higher revision, also     *)
(* when reading fills in the row, and no write takes the revision back,    *)
(* however stale the copy it was made from.                                *)
(***************************************************************************)
THEOREM RevisionsTell == Spec => RevisionTells
<1> DEFINE A == /\ config'.revision >= config.revision
                /\ Served' # Served => config'.revision > config.revision
<1>1. ASSUME IInv, [Next]_vars PROVE A
  <2>1. config.revision \in Int
    BY <1>1 DEF IInv, RowInv, ConfigType
  <2>2. CASE NextRevision
    BY <2>1, <2>2 DEF NextRevision
  <2>3. CASE SameRead /\ UNCHANGED sensors
    <3>1. config \in ConfigType /\ config' \in ConfigType
      BY <1>1, StepInv DEF IInv, RowInv
    <3>2. config'.servers = config.servers
      BY <2>3, <3>1, Filled DEF SameRead
    <3> QED
      BY <2>1, <2>3, <3>2 DEF Served, SameRead
  <2>4. CASE UNCHANGED vars
    BY <2>1, <2>4 DEF Served, vars, configVars, sensorVars
  <2> QED
    BY <1>1, <2>2, <2>3, <2>4, RevisionCases
<1>2. IInv /\ [Next]_vars => [A]_vars
  BY <1>1
<1> QED
  BY <1>2, ConfigurationInvariant, PTL DEF Spec, RevisionTells

(***************************************************************************)
(* Type correctness for any settings and bounds: in particular, the        *)
(* settings screen and a POST store nothing that validate refuses.         *)
(***************************************************************************)
THEOREM ConfigurationTypeCorrect == Spec => []TypeOK
<1>1. IInv => TypeOK
  <2> SUFFICES ASSUME IInv PROVE TypeOK
    OBVIOUS
  <2>1. links \subseteq (1..created) \X (1..created)
    BY DEF IInv, TableInv
  <2>2. DOMAIN sensors \cup DOMAIN sessions \cup DOMAIN listed \cup readings \subseteq 1..created
    BY DEF IInv, TableInv, NoOrphans
  <2> QED
    BY <2>1, <2>2 DEF IInv, RowInv, TableInv, TypeOK, Valid, RunningType
<1> QED
  BY <1>1, ConfigurationInvariant, PTL

(***************************************************************************)
(* m_cfg and the list of SensorListModel follow the tables whenever no     *)
(* edit and no reload is outstanding, failed saves included, but for a     *)
(* station code saved empty that load has filled in on one side only.      *)
(***************************************************************************)
THEOREM CopiesFollow == Spec => []MemoryFollows
<1>1. IInv => MemoryFollows
  BY DEF IInv, RowInv, TableInv, MemoryFollows
<1> QED
  BY <1>1, ConfigurationInvariant, PTL

(***************************************************************************)
(* Links, calibrations and readings never outlive their sensor, for any    *)
(* number of sensors (SensorDao::remove under foreign keys).               *)
(***************************************************************************)
THEOREM NothingOrphaned == Spec => []NoOrphans
<1>1. IInv => NoOrphans
  BY DEF IInv, TableInv
<1> QED
  BY <1>1, ConfigurationInvariant, PTL
=============================================================================
