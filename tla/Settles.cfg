SPECIFICATION FairSpec
CONSTANTS
    Jobs = {j1}
    Workers = {w1}
    RqIds = {r1, r2}
    None = None
    MaxRetries = 1
    StaleAfter = 1
    Ttl = 2
    MaxTime = 3
    ScanLimit = 2
    BatchSize = 1
    FaultKinds = {"transient", "ambiguous", "unexpected", "crash", "api_close", "leak"}
    MaxFaults = 2
INVARIANTS NothingForgotten
PROPERTIES JobSettles StartupCompletes
