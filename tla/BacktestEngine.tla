--------------------------- MODULE BacktestEngine ---------------------------
(***************************************************************************)
(* execute_long_only_signals (backtesting/engine.py): one pass over the    *)
(* daily bars, with the signals of a compiled strategy and optional stop   *)
(* and take-profit levels.                                                 *)
(*                                                                         *)
(* The bars and the signals of each bar are chosen as the pass goes on, so *)
(* a behaviour is one backtest, over any series of bars.  A timestamp is   *)
(* the index of its bar.  Of the signals of one bar the BUY comes first,   *)
(* as CompiledStrategy.generate_signals emits them.  Amounts are integers: *)
(* the unit is small enough for one percent of a price to be whole, and    *)
(* Decimal's arithmetic on such amounts is exact.                          *)
(***************************************************************************)
EXTENDS Integers, Sequences, FiniteSets

CONSTANTS
    Bars,           \* the daily bars there may be
    StartingCash,
    StopLoss,       \* stop_loss_percent, or None
    TakeProfit,     \* take_profit_percent, or None
    MaxBars,        \* bound on the length of the series
    None

Money == Nat \ {0}

(* An open position: its entry details and its risk levels. *)
Entry == [price : Money, bar : Nat, signal : Nat,
          stop : Int \cup {None}, take : Int \cup {None}]

(* market_data_price_range_check and parse_market_row for the bars;        *)
(* MAX_RISK_PERCENT for the risk controls.                                 *)
ASSUME EngineAssumption ==
    /\ Bars \subseteq [open : Money, high : Money, low : Money, close : Money]
    /\ \A b \in Bars : /\ b.low <= b.open /\ b.open <= b.high
                       /\ b.low <= b.close /\ b.close <= b.high
                       /\ b.open % 100 = 0
    /\ StartingCash \in Money
    /\ StopLoss \in 1..50 \cup {None}
    /\ TakeProfit \in 1..50 \cup {None}
    /\ MaxBars \in Nat
    /\ None \notin Int \cup Entry

VARIABLES
    pc,         \* the next step of the loop body
    index, bar, \* the current bar
    signals,    \* the signals, as pairs of a timestamp and a type
    cash, quantity,
    entry,      \* the open position's entry details and risk levels, or None
    closed,     \* position_closed_at_open
    trades,     \* completed_trades
    realized,   \* total_realized_profit_loss
    equity,     \* the last point of equity_curve
    ignored     \* ignored_signals

book == <<cash, quantity, entry, trades, realized>>
vars == <<pc, index, bar, signals, cash, quantity, entry, closed, trades,
          realized, equity, ignored>>

SignalType == {"buy", "sell"}
RiskReason == {"stop_loss", "take_profit"}
ExitReason == RiskReason \cup {"strategy_exit", "final_liquidation"}

Trade == [signal : Nat, entry : Nat, price : Money, quantity : Money,
          exit_signal : Nat \cup {None}, exit : Nat, exit_price : Int,
          reason : ExitReason]

TypeOK ==
    /\ pc \in {"next", "open", "buy", "sell", "intraday", "mark", "done"}
    /\ index \in -1..MaxBars
    /\ bar \in Bars \cup {None}
    /\ signals \subseteq Nat \X SignalType
    /\ ignored \subseteq Nat \X SignalType
    /\ cash \in Int /\ quantity \in Nat /\ realized \in Int /\ equity \in Int
    /\ entry \in Entry \cup {None}
    /\ closed \in BOOLEAN
    /\ trades \in Seq(Trade)

Init ==
    /\ pc = "next" /\ index = -1 /\ bar = None
    /\ signals = {} /\ ignored = {}
    /\ cash = StartingCash /\ quantity = 0 /\ entry = None
    /\ closed = FALSE
    /\ trades = << >> /\ realized = 0 /\ equity = StartingCash

-----------------------------------------------------------------------------
(* The loop header: the next bar, and what the strategy signals on it. *)
NextBar(b, types) ==
    /\ pc = "next" /\ index < MaxBars - 1
    /\ index' = index + 1 /\ bar' = b
    /\ signals' = signals \cup {<<index', type>> : type \in types}
    /\ closed' = FALSE
    /\ pc' = IF index' > 0 THEN "open" ELSE "intraday"
    /\ UNCHANGED <<book, equity, ignored>>

Pending(type) == <<index - 1, type>> \in signals

(* Mutant: the bar after the entry is spared as well. *)
AtRiskLate == quantity > 0 /\ entry # None /\ index > entry.bar + 1

(* Mutant: the entry bar itself may trigger. *)
AtRiskOnEntryBar == quantity > 0 /\ entry # None /\ index >= entry.bar

(* Neither risk check applies before the bar after the entry. *)
AtRisk == quantity > 0 /\ entry # None /\ index > entry.bar

StopHit(price) == entry.stop # None /\ price <= entry.stop
TakeHit(price) == entry.take # None /\ price >= entry.take

(* Mutant: the profit of one share is booked for the position. *)
ClosePositionPerShare(exit_price, reason, exit_signal) ==
    /\ cash' = cash + quantity * exit_price
    /\ realized' = realized + (exit_price - entry.price)
    /\ trades' = Append(trades,
           [signal |-> entry.signal, entry |-> entry.bar, price |-> entry.price,
            quantity |-> quantity, exit_signal |-> exit_signal, exit |-> index,
            exit_price |-> exit_price, reason |-> reason])
    /\ quantity' = 0
    /\ entry' = None

(* close_position: the trade is completed and the details are cleared. *)
close_position(exit_price, reason, exit_signal) ==
    /\ cash' = cash + quantity * exit_price
    /\ realized' = realized + (quantity * exit_price - quantity * entry.price)
    /\ trades' = Append(trades,
           [signal |-> entry.signal, entry |-> entry.bar, price |-> entry.price,
            quantity |-> quantity, exit_signal |-> exit_signal, exit |-> index,
            exit_price |-> exit_price, reason |-> reason])
    /\ quantity' = 0
    /\ entry' = None

(* Mutant: a gap through the stop is filled at the stop price. *)
OpeningExitAtLevel ==
    /\ pc = "open" /\ AtRisk
    /\ \/ StopHit(bar.open) /\ close_position(entry.stop, "stop_loss", None)
       \/ /\ ~StopHit(bar.open) /\ TakeHit(bar.open)
          /\ close_position(bar.open, "take_profit", None)
    /\ closed' = TRUE
    /\ ignored' = ignored \cup {s \in signals : s[1] = index - 1}
    /\ pc' = "mark"
    /\ UNCHANGED <<index, bar, signals, equity>>

(* Mutant: the signals pending at a risk exit are forgotten. *)
OpeningExitForgettingSignals ==
    /\ pc = "open" /\ AtRisk
    /\ \/ StopHit(bar.open) /\ close_position(bar.open, "stop_loss", None)
       \/ /\ ~StopHit(bar.open) /\ TakeHit(bar.open)
          /\ close_position(bar.open, "take_profit", None)
    /\ closed' = TRUE
    /\ pc' = "mark"
    /\ UNCHANGED <<index, bar, signals, equity, ignored>>

(* evaluate_opening_risk_exit: a gap through a level is filled at the      *)
(* open, and every pending signal is ignored.                              *)
OpeningRiskExit ==
    /\ pc = "open" /\ AtRisk
    /\ \/ StopHit(bar.open) /\ close_position(bar.open, "stop_loss", None)
       \/ /\ ~StopHit(bar.open) /\ TakeHit(bar.open)
          /\ close_position(bar.open, "take_profit", None)
    /\ closed' = TRUE
    /\ ignored' = ignored \cup {s \in signals : s[1] = index - 1}
    /\ pc' = "mark"
    /\ UNCHANGED <<index, bar, signals, equity>>

NoOpeningRiskExit ==
    /\ pc = "open"
    /\ ~ (AtRisk /\ (StopHit(bar.open) \/ TakeHit(bar.open)))
    /\ pc' = "buy"
    /\ UNCHANGED <<index, bar, signals, book, closed, equity, ignored>>

(* calculate_risk_levels *)
stop_price(price) ==
    IF StopLoss = None THEN None ELSE (price * (100 - StopLoss)) \div 100
take_profit_price(price) ==
    IF TakeProfit = None THEN None ELSE (price * (100 + TakeProfit)) \div 100

(* Mutant: the position is sized by rounding up. *)
SharesRoundedUp(price) == (cash \div price) + 1

shares_to_buy(price) == cash \div price

(* execute_buy: all the cash, in whole shares, at the open. *)
ExecuteBuy ==
    /\ pc = "buy" /\ Pending("buy")
    /\ quantity = 0 /\ shares_to_buy(bar.open) > 0
    /\ cash' = cash - shares_to_buy(bar.open) * bar.open
    /\ quantity' = shares_to_buy(bar.open)
    /\ entry' = [price |-> bar.open, bar |-> index, signal |-> index - 1,
                 stop |-> stop_price(bar.open),
                 take |-> take_profit_price(bar.open)]
    /\ pc' = "sell"
    /\ UNCHANGED <<index, bar, signals, closed, trades, realized, equity, ignored>>

IgnoreBuy ==
    /\ pc = "buy" /\ Pending("buy")
    /\ quantity > 0 \/ shares_to_buy(bar.open) = 0
    /\ ignored' = ignored \cup {<<index - 1, "buy">>}
    /\ pc' = "sell"
    /\ UNCHANGED <<index, bar, signals, book, closed, equity>>

NoBuy ==
    /\ pc = "buy" /\ ~Pending("buy")
    /\ pc' = "sell"
    /\ UNCHANGED <<index, bar, signals, book, closed, equity, ignored>>

(* execute_sell *)
ExecuteSell ==
    /\ pc = "sell" /\ Pending("sell")
    /\ quantity > 0
    /\ close_position(bar.open, "strategy_exit", index - 1)
    /\ closed' = TRUE
    /\ pc' = "intraday"
    /\ UNCHANGED <<index, bar, signals, equity, ignored>>

IgnoreSell ==
    /\ pc = "sell" /\ Pending("sell")
    /\ quantity = 0
    /\ ignored' = ignored \cup {<<index - 1, "sell">>}
    /\ pc' = "intraday"
    /\ UNCHANGED <<index, bar, signals, book, closed, equity>>

NoSell ==
    /\ pc = "sell" /\ ~Pending("sell")
    /\ pc' = "intraday"
    /\ UNCHANGED <<index, bar, signals, book, closed, equity, ignored>>

(* evaluate_intraday_risk_exit: filled at the level; if the bar crosses    *)
(* both, the stop is taken to have come first.                             *)
IntradayRiskExit ==
    /\ pc = "intraday" /\ quantity > 0 /\ ~closed /\ AtRisk
    /\ \/ StopHit(bar.low) /\ close_position(entry.stop, "stop_loss", None)
       \/ /\ ~StopHit(bar.low) /\ TakeHit(bar.high)
          /\ close_position(entry.take, "take_profit", None)
    /\ pc' = "mark"
    /\ UNCHANGED <<index, bar, signals, closed, equity, ignored>>

NoIntradayRiskExit ==
    /\ pc = "intraday"
    /\ ~ (/\ quantity > 0 /\ ~closed /\ AtRisk
          /\ StopHit(bar.low) \/ TakeHit(bar.high))
    /\ pc' = "mark"
    /\ UNCHANGED <<index, bar, signals, book, closed, equity, ignored>>

(* Mutant: the curve is marked at the open. *)
MarkAtOpen ==
    /\ pc = "mark"
    /\ equity' = cash + quantity * bar.open
    /\ pc' = "next"
    /\ UNCHANGED <<index, bar, signals, book, closed, ignored>>

(* The bar's point of the equity curve. *)
MarkToClose ==
    /\ pc = "mark"
    /\ equity' = cash + quantity * bar.close
    /\ pc' = "next"
    /\ UNCHANGED <<index, bar, signals, book, closed, ignored>>

(* After the last bar, whichever it is: an open position is liquidated. *)
Finish ==
    /\ pc = "next" /\ index >= 0
    /\ \/ quantity > 0 /\ close_position(bar.close, "final_liquidation", None)
       \/ quantity = 0 /\ UNCHANGED book
    /\ pc' = "done"
    /\ UNCHANGED <<index, bar, signals, closed, equity, ignored>>

Next ==
    \/ \E b \in Bars, types \in SUBSET SignalType : NextBar(b, types)
    \/ OpeningRiskExit \/ NoOpeningRiskExit
    \/ ExecuteBuy \/ IgnoreBuy \/ NoBuy
    \/ ExecuteSell \/ IgnoreSell \/ NoSell
    \/ IntradayRiskExit \/ NoIntradayRiskExit
    \/ MarkToClose \/ Finish

Spec == Init /\ [][Next]_vars

-----------------------------------------------------------------------------
(* The books balance after every statement of the loop: what is in cash    *)
(* and what the open position cost are the starting cash and the profits   *)
(* realized so far.                                                        *)
BooksBalance ==
    cash + (IF entry = None THEN 0 ELSE quantity * entry.price)
        = StartingCash + realized

(* Whole-share sizing never overdraws the account, and neither does a      *)
(* sequence of losses; so no point of the equity curve is negative.        *)
NeverOverdrawn == cash >= 0 /\ equity >= 0

(* Risk controls are honoured: a position that is carried past a bar after *)
(* its entry bar was inside both of its levels for the whole bar.          *)
RiskHonoured ==
    pc = "next" /\ quantity > 0 /\ index > entry.bar =>
        ~StopHit(bar.low) /\ ~TakeHit(bar.high)

(* What the result says of each trade: entered on the bar after its        *)
(* signal; a strategy exit on the bar after the exit signal; a risk exit   *)
(* never on the entry bar, a stop never above its level, a take-profit     *)
(* never below; and a later trade never on a bar of an earlier one.        *)
TradesAreCoherent ==
    \A i \in DOMAIN trades :
        LET t == trades[i]
        IN  /\ t.entry = t.signal + 1 /\ t.entry <= t.exit
            /\ t.reason = "strategy_exit" => t.exit = t.exit_signal + 1
            /\ t.reason \in RiskReason => t.entry < t.exit
            /\ t.reason = "stop_loss" => t.exit_price <= stop_price(t.price)
            /\ t.reason = "take_profit" => t.exit_price >= take_profit_price(t.price)
            /\ \A k \in DOMAIN trades : i < k => t.exit < trades[k].entry
            /\ entry # None => t.exit < entry.bar

(* The market really traded at the price a trade was closed at: every      *)
(* exit price lies within its bar.                                         *)
FilledWithinTheBar ==
    [][Len(trades') > Len(trades) =>
        LET t == trades'[Len(trades')]
        IN  bar.low <= t.exit_price /\ t.exit_price <= bar.high]_vars

(* Every signal of a bar that has a successor is either executed or        *)
(* reported as ignored, and never both.                                    *)
Executed(s) ==
    \/ s[2] = "buy" /\ entry # None /\ entry.signal = s[1]
    \/ \E i \in DOMAIN trades : IF s[2] = "buy" THEN trades[i].signal = s[1]
                                               ELSE trades[i].exit_signal = s[1]
SignalsAccountedFor ==
    /\ ignored \subseteq signals
    /\ pc = "next" => \A s \in signals : s[1] < index =>
                            (s \in ignored <=> ~Executed(s))

(* The two numbers the dashboard shows agree: the final portfolio value,   *)
(* after liquidation, is the last point of the equity curve.               *)
FinalValueIsOnTheCurve == pc = "done" => quantity = 0 /\ cash = equity
=============================================================================
