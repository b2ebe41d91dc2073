SPECIFICATION LiveSpec
CONSTANT Jobs = {j1}
INVARIANTS
  TypeOK
  OpenRowHasTask
  HonestStatus
  ProcessIsWatched
  MountsHaveTask
  FailureIsNotified
PROPERTIES
  NoSecondRun
  CancelledTaskEnds
  ImplementsLifecycle
