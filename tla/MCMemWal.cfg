SPECIFICATION Spec
CONSTANTS
  Writers = {w1, w2}
  Capacity = 2
  MaxRetries = 1
  Crossing = {2, 3}
  LostAcks = TRUE
  MaxBatches = 3
  MaxFaults = 1
SYMMETRY Symmetry
CHECK_DEADLOCK FALSE
INVARIANT TypeOK
INVARIANT AckedRecoverable
INVARIANT HolderSeesAcked
INVARIANT LogSound
INVARIANT OneGeneration
INVARIANT RecencyKept
INVARIANT ReplayAccepts
