SPECIFICATION Spec
CONSTANTS
  SecondsInDay = 8
  Hours = 2
  Minutes = 2
  None = None
  Clients = {c1, c2}
  Agents = {a1}
  Requests = {q1, q2}
  MaxSaves = 2
  Offsets <- Around
  Selectable <- Clear
  Instants <- Times
SYMMETRY Symmetric
CHECK_DEADLOCK FALSE
INVARIANTS
  TypeOK
  StoredIsChosen
  LastSaveStands
  NoSlotSkipped
  DayLoopMeetsSchedule
  FieldsShowSchedule
PROPERTY
  RoundTrip
