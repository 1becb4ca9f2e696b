SPECIFICATION FairSpec
CONSTANTS
  Workers = {w1}
  NoWorker = NoWorker
  MaxQueue = 2
  Corrupt = {2}
  Faults = {"hang", "race", "locked", "unreadable", "unremoved", "unsaved"}
  MaxRecords = 4
  MaxCopies = 3
  MaxMishaps = 2
INVARIANTS TypeOK Accounted Chronological FlushAcknowledges StoredOnce
PROPERTIES SpillKept MemoryDrains
