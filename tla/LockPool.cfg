SPECIFICATION FairSpec
CONSTANTS
    Submitters = {s1, s2}
    Readers = {g1, g2}
    Conns = {c1, c2}
    PoolSize = 1
    MayRecycle = TRUE
    None = None
INVARIANT LockCoversSubmission
PROPERTY EveryRequestEnds
CHECK_DEADLOCK FALSE
