SPECIFICATION Spec
CONSTANTS
    Ids = {s1, s2}
    Existing = {s1}
    MaxVersion = 1
    MaxLoads = 4
    MaxErrors = 1
    None = None
INVARIANT LastReloadIsRight
CHECK_DEADLOCK FALSE
