SPECIFICATION Spec
CONSTANTS
  KeySpaceSize = 7
  Precision = 12
  NumClients = 2
  InflightLimits = {1, 2}
  SeedConcurrency = 2
  BatchSize = 5
INVARIANTS
  ReadsFindSeeds
  HotKeysAreSeeded
  ZipfIsInverse
CHECK_DEADLOCK FALSE
