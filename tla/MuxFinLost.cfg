SPECIFICATION Spec
CONSTANTS
    MaxId = 2
    InitialWindow = 2
    MaxWindow = 4
    Bands = {4}
    Lens = {0, 1}
    MaxOpens <- OneOpenEach
    MaxSends <- TwoAndOne
    Resets = {}
INVARIANT FinEmitted
CHECK_DEADLOCK FALSE
