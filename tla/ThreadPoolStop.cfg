SPECIFICATION FairSpec
CONSTANTS
    Workers = {w1, w2}
    Submitters = {s1, s2}
    Stoppers = {t1}
    Nobody = Nobody
    queue_cap = 2
PROPERTY StopReturns
CHECK_DEADLOCK FALSE
