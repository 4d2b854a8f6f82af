SPECIFICATION LoopsSpec
CONSTANTS
  Messages = {m1, m2}
  Rotations = {}
  Pool = {s1, s2}
  Sessions = {s1, s2}
  RotationSession <- MCNoRotation
  Worker = gateway
  Owners = {gateway}
  NoMessage = nomsg
  MaxTurns = 2
  MaxFence = 4
  MaxClaims = 1
  MaxCrashes = 0
CHECK_DEADLOCK FALSE
PROPERTY HandoffRepaired
