SPECIFICATION Spec
CONSTANTS
  n1 = n1  n2 = n2  here = here  there = there  s1 = s1  s2 = s2
  f1 = f1  r1 = r1  r2 = r2
  Names = {n1, n2}
  Paths = {here, there}
  Secrets = {s1, s2}
  Requests = {r1, r2}
  Local = {here}
  FileOf <- KeyFileOf
  NoRow = NoRow  NoRepo = NoRepo  NoKey = NoKey  Idle = Idle
  MaxRows = 2  MaxAsked = 3  MaxFaults = 1
SYMMETRY Symmetry
INVARIANTS RegisteredOpens KeyfileKept
CHECK_DEADLOCK FALSE
