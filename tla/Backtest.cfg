SPECIFICATION Spec
CONSTANTS
    Bars <- MCBars
    StartingCash = 900
    StopLoss = 50
    TakeProfit = 50
    MaxBars = 5
    None = None
INVARIANTS BooksBalance NeverOverdrawn RiskHonoured TradesAreCoherent SignalsAccountedFor FinalValueIsOnTheCurve
PROPERTY FilledWithinTheBar
CHECK_DEADLOCK FALSE
