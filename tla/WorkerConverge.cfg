SPECIFICATION FairSpec
CONSTANTS
  PollList <- SharedPollList
  Kind <- SharedKind
  Thresholds <- SharedThresholds
  DiChannels <- SharedDiChannels
  Links <- SharedLinks
  FailSafe = FALSE
  LostReplies = {FALSE}
  LateFinishes = {FALSE}
  BackoffInit = 1
  BackoffMax = 1
  MaxQueue = 0
PROPERTIES RelaysConverge PollsResume
