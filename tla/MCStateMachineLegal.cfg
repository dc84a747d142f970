SPECIFICATION Spec
CONSTANTS
  Executions = {e1}
  Workers = {w1}
  MaxConcurrency = 2
  ReservedConcurrency = 2
  TestDuration = 6
  LoadTimeout = 3
  AggregatorTimeout = 1
  ExecutionTimeout = 24
  Retries = 0
  Failures = FALSE
  MaxStart = 0
INVARIANTS
  LegalTestsComplete
