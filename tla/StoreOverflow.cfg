SPECIFICATION Spec
CONSTANTS
  Workers = {w1}
  NoWorker = NoWorker
  MaxQueue = 2
  Corrupt = {}
  Faults = {}
  MaxRecords = 4
  MaxCopies = 2
  MaxMishaps = 0
PROPERTY SpillNotReplaced
