SPECIFICATION FairSpec
CONSTANTS
  Settings <- MCSettings
  Offset = 0
  MaxRetry = 1
  Keep = 2
  Horizon = 3
  MaxReports = 2
  MaxChanges = 1
  MaxFaults = 1
INVARIANTS TypeOK OnlyEndsShared LogIsTrue
PROPERTY ReportsSettle
