SPECIFICATION Spec
CONSTANTS
  Agents = {a1, a2}
  Jobs = {j1, j2}
  Searches = {s1, s2}
  NoResult = NoResult
  MaxRuns = 2
  MaxTime = 1
CHECK_DEADLOCK FALSE
INVARIANTS
  TypeOK
  SqlSeesFilledTables
  NoErrorMeansDone
PROPERTY
  RunsEnd
