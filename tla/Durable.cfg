SPECIFICATION MCSpec
CONSTANTS
  Keys = {k1, kb}
  Values = {v1, v2}
  None = None
  BigKeys = {kb}
  MaxRecords = 3
  Savers = {s1, s2}
  Readers = {r1}
  MaxVersion = 2
  MaxInodes = 2
  MaxCrashes = 1
  MaxCells = 9
  MaxEntries = 3
  MaxRecs = 3
  MaxIds = 3
  MaxStarts = 4
SYMMETRY SaverSymmetry
INVARIANTS  RestoredRight LogsSound IdentityKept
