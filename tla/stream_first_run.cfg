SPECIFICATION StreamSpec
CONSTANTS
  Items = {i1, i2}
  Launchers = {schedule, command}
  ItemLimit = 2
  Lookback = 2
  MaxRuns = 2
  MaxInstant = 4
INVARIANT SeenIsSettled
CHECK_DEADLOCK FALSE
