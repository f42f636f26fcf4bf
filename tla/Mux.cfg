SPECIFICATION FairSpec
CONSTANTS
    MaxId = 2
    InitialWindow = 2
    MaxWindow = 4
    Bands = {4}
    Lens = {0, 1, 2}
    MaxOpens <- OneOpenEach
    MaxSends <- TwoAndOne
    Resets = {"server"}
INVARIANT EndsAgree
PROPERTIES PhaseForward Delivered
CHECK_DEADLOCK FALSE
