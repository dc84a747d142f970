SPECIFICATION FairSpec
CONSTANTS
  Executions = {e1, e2}
  NoExecution = none
  MaxTrace = 2
  Slots = {r1, r2}
  MaxTracked = 2
INVARIANTS
  TraceInOrder
  OneTimer
  StatusIsTrue
PROPERTIES
  TrackingEnds
CHECK_DEADLOCK FALSE
