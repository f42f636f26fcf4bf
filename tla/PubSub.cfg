SPECIFICATION MCSpec
CONSTANTS
    MaxSegments = 3
    Filters <- MCFilters
    Names <- MCNames
    Topics <- MCTopics
    Subscribers = {1, 2}
    DefaultAllow = TRUE
    Peers = {"p1", "p2"}
INVARIANTS  ViewsAgree
PROPERTIES TrieIndexed MissExplained
CHECK_DEADLOCK FALSE
