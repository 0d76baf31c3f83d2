SPECIFICATION Spec
CONSTANTS
    Jobs = {j1}
    Workers = {w1}
    RqIds = {r1, r2}
    None = None
    MaxRetries = 2
    StaleAfter = 1
    Ttl = 2
    MaxTime = 3
    ScanLimit = 2
    BatchSize = 1
    FaultKinds = {"transient", "ambiguous", "create_ack", "persist", "unexpected", "redis", "redis_loss", "slow", "recycle", "api_close", "leak", "kill", "crash", "api_crash"}
    MaxFaults = 3
INVARIANTS TypeOK MutualExclusion NoDuplicateEntry AttemptBudget RowCoherent
PROPERTIES TerminalIsFinal ImplementsLifecycle
