SPECIFICATION ParserSpec
CONSTANTS
    Texts <- MCTexts
    Drafts <- MCDrafts
    Closes = {36, 72, 108}
    Levels = {72}
    Periods = {1, 2}
    MaxBars = 4
    MaxPeriod = 2
    CrossShort = 1
    CrossLong = 2
    MaxRiskPercent = 50
    MaxRetries = 1
    None = None
INVARIANTS DisclosesWhatItInfers PreviewedCanBeSaved InferredRuleUndoes
CHECK_DEADLOCK FALSE
