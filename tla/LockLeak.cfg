SPECIFICATION Spec
CONSTANTS
    Submitters = {s1}
    Readers = {g1, g2}
    Conns = {c1, c2, c3}
    PoolSize = 3
    MayRecycle = FALSE
    None = None
INVARIANT NoLockLeaks
CHECK_DEADLOCK FALSE
