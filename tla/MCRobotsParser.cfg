CONSTANTS
  Agents = {any, bot}
  AnyAgent = any
  Paths = {p, q}
  Interesting = {q}
  Delays = {d}
  NoValue = NoValue
  MaxLines = 5
SPECIFICATION ParseSpec
INVARIANTS SectionsReadAlone PathsOnceInOrder
PROPERTY ImplementsTable
CHECK_DEADLOCK FALSE
