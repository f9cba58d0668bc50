CONSTANTS
  Names = {a, b, c}
  MaxDeps = 2
SPECIFICATION Spec
INVARIANTS TypeOK DependenciesInEarlierWaves NoStageTwice NoWaveTooLate CycleReportedExactly
PROPERTIES PlanTerminates ImplementsPlan
\* a plan has an end: the function returns
CHECK_DEADLOCK FALSE
