SPECIFICATION Spec
CONSTANTS
  SecondsInDay = 8
  Hours = 2
  Minutes = 2
  None = None
  Clients = {c1}
  Agents = {a1}
  Requests = {q1}
  MaxSaves = 1
  Offsets <- Behind
  Selectable <- Midnight
  Instants <- Times
CHECK_DEADLOCK FALSE
PROPERTY
  RoundTrip
