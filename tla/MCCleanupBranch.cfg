SPECIFICATION Spec
CONSTANTS
  base = base
  t1 = t1
  t2 = t2
  c1 = c1
  c2 = c2
  Txns = {t1, t2}
  Base = base
  Kind <- KindOf
  Cleaners = {c1}
  Threshold = 2
  Lags = {0}
  Retentions = {0}
  MaxTxn = 1
  MaxInspect = 1
  MaxVersions = 3
  MaxTime = 3
  MaxRuns = 1
  MaxEvents = 1
CHECK_DEADLOCK FALSE
INVARIANT BranchFilesKept
