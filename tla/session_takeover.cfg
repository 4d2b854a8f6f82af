SPECIFICATION SessionSpec
CONSTANTS
  Sessions = {s1}
  Owners = {cli, gateway}
  NoMessage = nomsg
  MaxTurns = 2
  MaxFence = 3
CHECK_DEADLOCK FALSE
INVARIANT LeftoverSurfaces
