SPECIFICATION FairCurrentSpec
CONSTANTS
  j1 = j1
  j2 = j2
  a1 = a1
  a2 = a2
  c1 = c1
  c2 = c2
  Jobs = {j1}
  Agents = {a1, a2}
  Clients = {c1}
  Week = 2
  Schedules <- EveryDay
  MaxTime = 1
  MaxSaves = 2
  MaxFaults = 1
  None = None
  NoRow = NoRow
  NoRun = NoRun
  NoForm = NoForm
  NoSave = NoSave
  NoPost = NoPost
CHECK_DEADLOCK FALSE
PROPERTIES
  DueJobsRun
  RunRequestsAreServed
  WaitingUntilStarted
