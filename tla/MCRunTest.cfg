SPECIFICATION RunFairSpec
CONSTANTS
  Executions = {e1}
  Workers = {w1, w2, w3}
  MaxConcurrency = 2
  ReservedConcurrency = 2
  TestDuration = 1
  LoadTimeout = 2
  AggregatorTimeout = 1
  ExecutionTimeout = 4
  Retries = 1
  Failures = TRUE
  MaxStart = 0
  NoExecution = none
  Earlier = earlier
  Partial = partial
INVARIANTS
  SucceededIsOver
  SeedsBeforeLoad
  OnlyOthersThrottle
  SavedIsComplete
PROPERTIES
  ScriptEnds
  LoadEnds
