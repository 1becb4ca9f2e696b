SPECIFICATION Spec
CONSTANTS
  PollList <- SmallPollList
  Kind <- SmallKind
  Thresholds <- SmallThresholds
  DiChannels <- SmallDiChannels
  Links <- SmallLinks
  FailSafe = TRUE
  LostReplies = {TRUE, FALSE}
  LateFinishes = {FALSE}
  BackoffInit = 1
  BackoffMax = 4
  MaxQueue = 0
PROPERTY SkipsOnlyWhenCertain
