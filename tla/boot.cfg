SPECIFICATION FairSpec
CONSTANTS
  AttemptLimit = 3
  CounterCap = 6
  Starts = {"counted", "held", "trial"}
  Storages = {"ok", "full"}
  Installed = {TRUE, FALSE}
  Libraries = {TRUE, FALSE}
  Binaries = {TRUE, FALSE}
  Syncs = {TRUE, FALSE}
  MaxCuts = 2
  MaxReboots = 1
INVARIANTS TypeOK FailingStartsBounded
PROPERTIES
  PowerCutLeavesMark FallbackOnlyAfterFailures ImplementsPromise CrashLoopEnds
CHECK_DEADLOCK FALSE
