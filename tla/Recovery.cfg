SPECIFICATION FairSpec
CONSTANTS
    Jobs = {j1, j2}
    Workers = {w1}
    RqIds = {r1}
    None = None
    MaxRetries = 1
    StaleAfter = 1
    Ttl = 2
    MaxTime = 2
    ScanLimit = 2
    BatchSize = 1
    FaultKinds = {"transient", "create_ack", "persist", "redis", "redis_loss", "slow", "api_close", "leak", "kill", "limbo", "api_crash"}
    MaxFaults = 1

PROPERTIES StrandedIsRecovered
