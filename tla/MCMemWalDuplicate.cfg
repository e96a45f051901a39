SPECIFICATION Spec
CONSTANTS
  Writers = {w1, w2}
  Capacity = 2
  MaxRetries = 1
  Crossing = {2, 3}
  LostAcks = TRUE
  MaxBatches = 2
  MaxFaults = 1
CHECK_DEADLOCK FALSE
INVARIANT AppendedOnce
