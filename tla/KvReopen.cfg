SPECIFICATION KvSpec
CONSTANTS
    Keys = {k1, k2, kb}
    Values = {v1, v2}
    None = None
    BigKeys = {kb}
    MaxRecords = 3
INVARIANT GetCurrent
