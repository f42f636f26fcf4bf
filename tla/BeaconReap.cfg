SPECIFICATION BSpec
CONSTANTS
  Window = 2
  Timeout = 1
  MaxSkew = 1
  Attempts = 1
  MaxInc = 2
  MaxBeacons = 3
  MaxLinks = 2
  MaxTick = 3
INVARIANT ReapsOnlyStale
CHECK_DEADLOCK FALSE
