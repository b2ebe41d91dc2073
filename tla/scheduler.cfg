SPECIFICATION LiveSpec
CONSTANTS
  Schedules = {s1, s2, gone, multi}
  Multi = {multi}
  Missing = {gone}
  Finite = {multi}
  MaxLimit = 2
  MaxRuns = 2
  MaxFaults = 1
INVARIANTS
  TypeOK
  KeysMatchRuns
PROPERTIES
  OldestFirst
  DispatchWithinCapacity
  DueIsDispatched
