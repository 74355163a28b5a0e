SPECIFICATION Spec
CONSTANTS
  Networks = {"a", "b"}
  Refused = {"b"}
  MaxRounds = 2
  MaxExtras = 1
  MaxStarts = 2
  MaxCuts = 1
INVARIANTS TypeOK YourNetworkIsKnown
PROPERTY NetworksKept
CHECK_DEADLOCK FALSE
