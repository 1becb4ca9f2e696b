SPECIFICATION FairSpec
CONSTANTS
  Sessions = {s1, s2}
  NoSession = NoSession
  MaxErrors = 2
  Faults = {"lost"}
  Edits = {"save"}
  Tester = TRUE
  MaxEvents = 2
  MaxCalls = 1
  MaxTimers = 1
PROPERTY StoppedReleasesPort MonitoringReturns
