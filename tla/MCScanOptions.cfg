SPECIFICATION ScanSpec
\* Every run of the program ends.
CHECK_DEADLOCK FALSE
CONSTANTS
  Arguments <- MCArguments
  Files <- MCFiles
  Valid <- MCValid
  AllModules <- MCModules
  Timings = 2
  MaxRequests = 1
INVARIANTS
  OptionsRestrictTheRun
