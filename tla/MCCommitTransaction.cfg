SPECIFICATION Spec
CONSTANTS
  append = append
  delete = delete
  overwrite = overwrite
  create = create
  Creators = {create}
  Txns = {create, append, delete, overwrite}
  Conflicts <- MCConflicts
  Rebased = {delete}
  Large = {append}
  Strict = {}
  Conditional = {append}
  NumRetries = 2
  Definitive = TRUE
  Propagate = FALSE
  LateWrites = FALSE
  MaxFaults = 2
INVARIANTS
  TypeOK
  TransactionFilesIntact
  AppliedAtMostOnce
  ReturnsAreTrue
  NothingUnchecked
PROPERTIES
  ImplementsTableHistory
CHECK_DEADLOCK FALSE
