SPECIFICATION Spec
CONSTANTS
  Mounts = {m1, m2, m3}
  Unmounts = {u1, u2}
  Plain = "a"
  Suffixed = {"a_x", "a_y"}
  MaxFaults = 1
CHECK_DEADLOCK FALSE
INVARIANT
  EndedMountLeavesNothing
PROPERTY MountsAreApart
