SPECIFICATION Spec
CONSTANTS
  RebootDelay = 1
  ConfigDelay = 2
  SaveInterval = 3
  SleepTime = 2
  MaxEdits = 2
  MaxRequests = 2
  MaxSignals = 1
  MaxCrashes = 1
INVARIANT SleepIsDark
