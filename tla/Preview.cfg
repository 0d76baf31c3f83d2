SPECIFICATION PreviewSpec
CONSTANTS
    Bars <- MCBars
    Closes <- MCCloses
    Levels <- MCLevels
    Strategies <- MCStrategies
    Periods = {1, 2, 3}
    MaxBars = 4
    StartingCash = 9050
    StopLoss = 50
    TakeProfit = 50
    None = None
INVARIANTS
    AveragesAreExact
    EligibleFromTheIndex
    CompiledAsCrossover
    TradesFollowTheStrategy
    DrawdownIsDeepestFall
    BenchmarkIsHolding
    ChartAgreesWithSummary
CHECK_DEADLOCK FALSE
