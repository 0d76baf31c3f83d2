----------------------------- MODULE MCBacktest -----------------------------
(* Bars around an entry at 400 with a stop and a take-profit of 50%, that  *)
(* is at 200 and 600: gaps and intraday moves that stay inside, touch and  *)
(* cross each level, one bar that crosses both, one whose open is beyond   *)
(* the starting cash.                                                      *)
EXTENDS BacktestEngine

OHLC(o, h, l, c) == [open |-> o, high |-> h, low |-> l, close |-> c]

MCBars == { OHLC(400, 500, 300, 400),   \* inside
            OHLC(400, 700, 300, 500),   \* through the take-profit
            OHLC(400, 500, 200, 300),   \* touches the stop
            OHLC(400, 600, 100, 500),   \* both
            OHLC(100, 100, 100, 100),   \* gap below the stop
            OHLC(700, 800, 600, 600),   \* gap above the take-profit
            OHLC(1000, 1000, 300, 300) }  \* a share costs more than the cash
=============================================================================
