SPECIFICATION Spec
CONSTANTS
  Scenarios = {quick_test}
  Configs = {c1, c2}
  NoConfig = none
  MaxKeys = 2
  Slots = {r1, r2}
  MaxSecond = 1
INVARIANTS
  CurrentIsTrue
  SuccessIsNotActive
  OneTestPerName
CHECK_DEADLOCK FALSE
