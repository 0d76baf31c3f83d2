------------------------------ MODULE MCPreview ------------------------------
(* Prices in units of 900, so that four bars have whole averages, and     *)
(* strategies that compare, cross, overlap on one bar and differ in when   *)
(* entry and exit become eligible.                                         *)
EXTENDS StrategyPreview

OHLC(o, h, l, c) ==
    [open |-> 900 * o, high |-> 900 * h, low |-> 900 * l, close |-> 900 * c]

MCBars == { OHLC(2, 2, 2, 2), OHLC(2, 4, 2, 4), OHLC(4, 4, 3, 3),
            OHLC(3, 3, 1, 1), OHLC(4, 6, 4, 6) }
MCCloses == {b.close : b \in MCBars}

Price == [type |-> "price"]
Level(n) == [type |-> "constant", value |-> 900 * n]
Sma(p) == [type |-> "sma", period |-> p]
Ema(p) == [type |-> "ema", period |-> p]
Is(left, operator, right) == [left |-> left, operator |-> operator, right |-> right]

MCLevels == {Level(3).value}

MCStrategies ==
    { [entry |-> Is(Price, "crosses_above", Sma(2)), exit |-> Is(Price, "crosses_below", Sma(2))],
      [entry |-> Is(Price, "less_than_or_equal", Level(3)), exit |-> Is(Price, "less_than", Ema(3))],
      [entry |-> Is(Price, "greater_than", Ema(2)), exit |-> Is(Price, "greater_than_or_equal", Level(3))] }
=============================================================================
