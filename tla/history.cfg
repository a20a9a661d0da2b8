SPECIFICATION Spec
CONSTANTS
  r1 = r1
  r2 = r2
  Requests = {r1, r2}
  PageSizes = {1, 2}
  DefaultPageSize = 2
  NotLoaded = NotLoaded
  NoRequest = NoRequest
  MaxEntries = 3
  MaxClicks = 3
CHECK_DEADLOCK FALSE
INVARIANTS
  TypeOK
  NextFindsEntries
  PagesStayInHistory
  NoRowsOnlyBehindTheEnd
PROPERTIES
  NextLeavesNoGap
  ComesToRest
