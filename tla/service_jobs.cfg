SPECIFICATION LiveSpec
CONSTANT MaxLocks = 2
INVARIANTS
  HonestStatus
PROPERTIES
  WorkerLeavesNothingBehind
  EndedStands
  ToldAsWritten
  CancelledJobEnds
