SPECIFICATION Spec
CONSTANTS
  Agents = {a1, a2}
  Jobs = {j1, j2}
  Searches = {s1, s2}
  NoResult = NoResult
  MaxRuns = 1
  MaxTime = 0
CHECK_DEADLOCK FALSE
INVARIANT
  OneExecutionPerRun
