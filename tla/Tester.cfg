SPECIFICATION FairSpec
CONSTANTS
  ScanEnd = 2
  UserActs = {"connect", "disconnect", "leave", "write", "scan", "stop"}
  MaxCalls = 2
CHECK_DEADLOCK FALSE
INVARIANTS TypeOK OneReply Attributed
PROPERTY ScanEnds
