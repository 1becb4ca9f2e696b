SPECIFICATION Spec
CONSTANTS
  Settings <- MCSettings
  Offset = 7
  MaxRetry = 1
  Keep = 2
  Horizon = 3
  MaxReports = 2
  MaxChanges = 1
  MaxFaults = 1
INVARIANT OnlyEndsShared
