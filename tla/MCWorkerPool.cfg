CONSTANTS
  m1 = m1
  m2 = m2
  Maps = {m1, m2}
  MapSize <- MCMapSize
  Workers = 2
  MinWorkers = 1
  MaxRetries = 1
  Adaptive = TRUE
  MaxAdjusts = 1
SPECIFICATION Spec
INVARIANTS TypeOK SlotsConserved EveryTaskAccounted
PROPERTIES NothingRunsAfterCancel PoolComesToRest
\* at the end every call has returned
CHECK_DEADLOCK FALSE
