SPECIFICATION SshSpec
CONSTANTS
  Jobs = {j1, j2}
  Paths = {"top", "file", "sub", "other"}
  Dir <- MCDir
  Place <- MCPlace
  Slashed = {"top/"}
  Above <- MCAbove
  Depth <- MCDepth
  MaxMountFaults = 2
CHECK_DEADLOCK FALSE
INVARIANTS
  SourcesAreMounted
  OnlyFaultsWipe
  EndedJobLeavesNothing
