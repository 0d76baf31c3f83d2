SPECIFICATION FairSpec
CONSTANTS
    i1 = i1
    i2 = i2
    Imports = {i1, i2}
    Files <- MCFiles
    Stamps = {1, 2, 3}
    BatchSize = 2
    MaxPrice = 5
    MaxVolume = 2
    MaxRuns = 3
    MaxFaults = 1
    None = None
INVARIANT SummaryIsHonest
PROPERTIES ImportsWholeFiles EveryImportEnds
CHECK_DEADLOCK FALSE
