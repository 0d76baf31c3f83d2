SPECIFICATION Spec
CONSTANTS
    Jobs = {j1}
    Workers = {w1, w2}
    RqIds = {r1, r2}
    None = None
    MaxRetries = 1
    StaleAfter = 1
    Ttl = 1
    MaxTime = 2
    ScanLimit = 1
    BatchSize = 1
    FaultKinds = {"recycle", "transient"}
    MaxFaults = 2
INVARIANT NoConcurrentExecution
SYMMETRY Symmetry
