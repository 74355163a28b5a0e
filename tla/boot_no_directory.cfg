SPECIFICATION Spec
CONSTANTS
  AttemptLimit = 3
  CounterCap = 5
  Starts = {"counted"}
  Storages = {"ok"}
  Installed = {FALSE}
  Libraries = {TRUE}
  Binaries = {TRUE}
  Syncs = {FALSE}
  MaxCuts = 0
  MaxReboots = 0
INVARIANT FailingStartsAlwaysBounded
