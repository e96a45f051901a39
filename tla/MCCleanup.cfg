SPECIFICATION Spec
CONSTANTS
  base = base
  t1 = t1
  t2 = t2
  c1 = c1
  c2 = c2
  Txns = {t1, t2}
  Base = base
  Kind <- KindOf
  Cleaners = {c1, c2}
  Threshold = 1
  Lags = {0, 1}
  Retentions = {0}
  MaxTxn = 0
  MaxInspect = 1
  MaxVersions = 3
  MaxTime = 2
  MaxRuns = 2
  MaxEvents = 1
SYMMETRY Symmetry
CHECK_DEADLOCK FALSE
INVARIANT VersionsReadable
INVARIANT TaggedReadable
INVARIANT BranchReadable
INVARIANT NoOrphans
