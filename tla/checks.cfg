SPECIFICATION LiveSpec
CONSTANTS
  Repos = {r1, r2}
  Two = {r2}
  Finite = {r1}
  MaxLimit = 2
  MaxCheckFaults = 1
PROPERTIES
  WithinCheckLimit
  DueCheckStarts
