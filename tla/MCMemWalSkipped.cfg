SPECIFICATION Spec
CONSTANTS
  Writers = {w1}
  Capacity = 1
  MaxRetries = 1
  Crossing = {}
  LostAcks = FALSE
  MaxBatches = 2
  MaxFaults = 2
CHECK_DEADLOCK FALSE
INVARIANT AckedRecoverable
