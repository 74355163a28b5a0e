SPECIFICATION Spec
CONSTANTS
  AttemptLimit = 3
  CounterCap = 5
  Starts = {"counted"}
  Storages = {"ok"}
  Installed = {TRUE}
  Libraries = {TRUE}
  Binaries = {TRUE}
  Syncs = {TRUE}
  MaxCuts = 1
  MaxReboots = 0
PROPERTY PowerCutKeepsStrikes
