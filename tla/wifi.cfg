SPECIFICATION FairSpec
CONSTANTS
  Networks = {"a", "b"}
  FirstThreshold = 2
  NextThreshold = 1
  ApTime = 3
  LeaseTime = 2
  ScanTime = 2
  JoinTime = 1
  MaxMoves = 1
  MaxScans = 2
INVARIANT TypeOK
PROPERTIES Recovers LeaseFollows ScanAnswered StopReturns
CHECK_DEADLOCK FALSE
