CONSTANTS
  Batches = {b1, b2}
  BatchSize = 1
  MaxRetries = 2
  MaxCloses = 2
SPECIFICATION Spec
INVARIANTS TypeOK NoClientLost FailuresAccounted ConnectionsNotUnderstated
PROPERTIES NothingSentAfterCancel BatchesReturn
CHECK_DEADLOCK FALSE
