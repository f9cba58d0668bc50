SPECIFICATION Spec
CONSTANTS
  Classes <- AllClasses
  Urls = 2
  Subs = 2
  MaxRuns = 2
INVARIANTS NothingLostSilently ResultsInOrder CountersMatchResults
PROPERTIES RunReturns
CHECK_DEADLOCK FALSE
