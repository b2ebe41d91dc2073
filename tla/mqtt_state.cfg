SPECIFICATION LiveSpec
CONSTANTS
  Repos = {1, 2}
  Data = {"a", "b"}
  None = None
  MaxChanges = 3  MaxTroubles = 1
INVARIANTS GoneIsKnown
PROPERTIES BrokerAgrees
CHECK_DEADLOCK FALSE
