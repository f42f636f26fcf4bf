SPECIFICATION FairSpec
CONSTANTS
  Second = 1
  MaxIdle = 1
  WordSize = 64
  ChunkMin = 1
  ChunkMax = 2
  MaxCount = 256
  Sizes = {0, 3}
  ChunkSize = 2
  Throttles = {0, 1, 2}
  Rate = 1
  MaxWire = 2
  MaxFaults = 2
  MaxRestarts = 1
INVARIANTS BitmapTruthful CompleteMeansSame
 
CHECK_DEADLOCK FALSE
