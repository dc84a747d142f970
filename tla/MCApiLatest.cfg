SPECIFICATION Spec
CONSTANTS
  Scenarios = {quick_test}
  Configs = {c1}
  NoConfig = none
  MaxKeys = 1
  Slots = {r1, r2}
  MaxSecond = 1
INVARIANTS
  LatestIsLatest
CHECK_DEADLOCK FALSE
