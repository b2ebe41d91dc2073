SPECIFICATION Spec
CONSTANTS
  Keys = {"k1", "k2"}
  Type <- MCType
  Hosts = {h1, h2}
  Requests = {r1, r2}
  MaxConns = 2
  MaxAsked = 3
  MaxFaults = 1
CHECK_DEADLOCK FALSE
INVARIANTS
  TestingIsWatched
  ConnectedWithItsKey
