SPECIFICATION Spec
CONSTANTS
  Executions = {e1, e2}
  Workers = {w1, w2}
  MaxConcurrency = 2
  ReservedConcurrency = 2
  TestDuration = 1
  LoadTimeout = 2
  AggregatorTimeout = 1
  ExecutionTimeout = 4
  Retries = 0
  Failures = TRUE
  MaxStart = 1
INVARIANTS
  StoredIsComplete
PROPERTIES
  RunsKept
