SPECIFICATION Spec
CONSTANTS
  PollList <- SmallPollList
  Kind <- SmallKind
  Thresholds <- SmallThresholds
  DiChannels <- SmallDiChannels
  Links <- SmallLinks
  FailSafe = TRUE
  LostReplies = {FALSE}
  LateFinishes = {TRUE, FALSE}
  BackoffInit = 1
  BackoffMax = 4
  MaxQueue = 2
CHECK_DEADLOCK FALSE
INVARIANTS TypeOK OneWakeUp OneInFlight OpenIsConnected BeliefCertain
PROPERTIES PortGuarded ReportedOnIsOn
