SPECIFICATION Spec
CONSTANTS
  Networks = {"a"}
  Refused = {}
  MaxRounds = 0
  MaxExtras = 0
  MaxStarts = 2
  MaxCuts = 1
INVARIANT YourNetworkIsAlwaysKnown
CHECK_DEADLOCK FALSE
