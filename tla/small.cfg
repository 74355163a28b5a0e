SPECIFICATION FairSpec
CONSTANTS
  Addresses = {"a", "b"}
  Garbage = {"none"}
  NetStatic = {TRUE, FALSE}
  MaxChanges = 2
  Blocks = 3
  MaxRequests = 3
  MaxPending = 2
  Base = 6
  MaxPayload = 1
  RxLimit = 12
  MaxPackets = 3
  Debounce = 1
  Hold = 3
  Repeat = 1
  Double = 2
  MaxGap = 2
  Block = 4
  Piece = 3
  MaxFile = 6
INVARIANTS
  TypeOK MountedIsUsable FlashIsSafe
  ResultsAreHonest IntactIsKept GesturesAreDistinct
  GateIsRight InputIsRead
PROPERTIES FollowsDhcp GivingUpLeavesGui
CHECK_DEADLOCK FALSE
