SPECIFICATION Spec
CONSTANTS
  e1 = e1
  e2 = e2
  w1 = w1
  w2 = w2
  None = None
  Entries = {e1}
  Workers = {w1, w2}
  PartCount = 2
  LeaseSeconds = 1
  AttemptLimit = 2
  Stalls = TRUE
  MaxTime = 2
  MaxFence = 3
PROPERTIES RequeuedOnlyUnprepared
SYMMETRY WorkerSymmetry
CHECK_DEADLOCK FALSE
