SPECIFICATION Spec
CONSTANTS
  c1 = c1
  c2 = c2
  a1 = a1
  text = text
  search = search
  None = None
  Verbatim = Verbatim
  Clients = {c1, c2}
  Agents = {a1}
  Inputs = {search, text}
  Details <- TheDetails
  Kind <- TheKind
  ScriptSql <- Script
  Holdable <- TheHoldable
  MaxSaves = 3
CHECK_DEADLOCK FALSE
INVARIANTS
  TypeOK
  StoredInputsOfLastSave
  RunInputsNotOlder
  SqlIsScriptWithInputs
PROPERTIES
  SavesEnd
  SavesAreOneStep
