SPECIFICATION MCSpec
CONSTANTS
  Relay = {r1, r2}
  Single = r1
  MaxId = 2
  BatchSize = 2
  MaxAttempts = 2
  Retention = TRUE
  Locking = TRUE
  Poison = {1}
  MaxFaults = 1
  CountCap = 2
INVARIANTS
  DuplicatesExcused
  RowsAccounted
PROPERTIES
  ImplementsAtLeastOnce
  RowsAdvance
