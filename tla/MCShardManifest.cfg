SPECIFICATION Spec
CONSTANTS
  a = a
  b = b
  a1 = a1
  a2 = a2
  b1 = b1
  Handles = {a, b}
  Tasks = {a1, a2, b1}
  HandleOf <- Owner
  Calls <- CallsOf
  ScanBatch = 2
  MaxPositionAge = 0
  MaxStall = 1
  MinPruneAge = 2
  MaxVersions = 3
  MaxFaults = 1
CHECK_DEADLOCK FALSE
INVARIANT TypeOK
INVARIANT EpochsFence
INVARIANT RefreshIsCurrent
PROPERTY NeverRewritten
