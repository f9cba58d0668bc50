CONSTANTS
  m1 = m1
  m2 = m2
  Maps = {m1}
  MapSize <- MCBoundSize
  Workers = 2
  MinWorkers = 1
  MaxRetries = 1
  Adaptive = TRUE
  MaxAdjusts = 1
SPECIFICATION Spec
PROPERTIES RetriesExecute
\* at the end every call has returned
CHECK_DEADLOCK FALSE
