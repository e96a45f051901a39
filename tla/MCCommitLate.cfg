SPECIFICATION FairSpec
CONSTANTS
  append = append
  delete = delete
  overwrite = overwrite
  create = create
  Creators = {create, append}
  Txns = {create, append, delete, overwrite}
  Conflicts <- MCConflicts
  Rebased = {delete}
  Large = {append, delete}
  Strict = {overwrite}
  Conditional = {}
  NumRetries = 2
  Definitive = FALSE
  Propagate = TRUE
  LateWrites = TRUE
  MaxFaults = 2
INVARIANTS
  TransactionFilesIntact
  ReturnsAreTrue
  NothingUnchecked
PROPERTIES
  CallsReturn
CHECK_DEADLOCK FALSE
