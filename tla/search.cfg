SPECIFICATION Spec
CONSTANTS
  Documents <- SomeDocuments
  ObjectManagerQueryBatch = 2
  BulkCopyBatch = 3
  MaxChanges = 3
CHECK_DEADLOCK FALSE
INVARIANTS
  TypeOK
  FilledWithTheSearch
  ThrownOnlyIfEntered
