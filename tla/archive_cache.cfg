SPECIFICATION CacheSpec
CONSTANTS
  a1 = a1  a2 = a2  p1 = p1  p2 = p2  r1 = r1  r2 = r2  etc = etc  home = home  root = root
  Archives = {a1, a2}
  Pages <- Browsed
  Repos = {p1, p2}
  Requests = {r1, r2}
  RepoOf <- InRepo
  RawSizes = {2, 5}  PageSize = 1  MaxSize = 4
  TTL = 1  MaxTime = 3  MaxRedisFailures = 2  MaxOutages = 1  MaxUncounted = 1
  Idle = Idle
SYMMETRY Symmetry
INVARIANTS SizeIsTrue AnswersAreFresh
CHECK_DEADLOCK FALSE
