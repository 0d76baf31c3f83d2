--------------------------- MODULE StrategyPreview ---------------------------
(***************************************************************************)
(* create_specification_preview (services/strategy_preview.py): compile a  *)
(* strategy, load the bars, execute the signals, measure the result        *)
(* (backtesting/metrics.py) and pair the two curves of the chart           *)
(* (serialize_preview).                                                    *)
(*                                                                         *)
(* The compiler's part is StrategyCompiler, the execution an instance of   *)
(* BacktestEngine on the loaded bars and the compiled signals.  The engine *)
(* counts bars from 0, as the code does; sequences count from 1.           *)
(***************************************************************************)
EXTENDS StrategyCompiler, SequencesExt

CONSTANTS
    Bars,           \* the daily bars there may be
    Strategies,     \* the specifications, pairs of an entry and an exit
    StartingCash, StopLoss, TakeProfit

VARIABLES
    phase,          \* "load", "execute", "done" or "unavailable"
    spec,           \* specification
    bars,           \* the loaded bars
    curve,          \* execution.equity_curve
    pc, index, bar, signals, cash, quantity, entry, closed, trades, realized,
    equity, ignored \* of the engine

Engine == INSTANCE BacktestEngine

ASSUME PreviewAssumption ==
    /\ \A b \in Bars : b.close \in Closes
    /\ Strategies \subseteq [entry : Condition, exit : Condition]
    /\ Engine!EngineAssumption

compilerVars == <<closes, total, sma, ema>>
engineVars == <<pc, index, bar, signals, cash, quantity, entry, closed, trades,
                realized, equity, ignored>>
previewVars == <<compilerVars, engineVars, phase, spec, bars, curve>>

PreviewInit ==
    /\ Init /\ Engine!Init
    /\ phase = "load" /\ spec \in Strategies /\ bars = << >> /\ curve = << >>

-----------------------------------------------------------------------------
(* The first position at which both conditions can be evaluated. *)
first_signal_eligible_index ==
    Max({condition_first_eligible_index(spec.entry),
         condition_first_eligible_index(spec.exit)})

(* load_market_bars, with the indicators of the bar. *)
LoadBar(b) ==
    /\ phase = "load"
    /\ NextBar(b.close)
    /\ bars' = Append(bars, b)
    /\ UNCHANGED <<engineVars, phase, spec, curve>>

MarketDataUnavailable ==
    /\ phase = "load"
    /\ first_signal_eligible_index > Len(bars)
    /\ phase' = "unavailable"
    /\ UNCHANGED <<compilerVars, engineVars, spec, bars, curve>>

Execute ==
    /\ phase = "load"
    /\ first_signal_eligible_index <= Len(bars)
    /\ phase' = "execute"
    /\ UNCHANGED <<compilerVars, engineVars, spec, bars, curve>>

(* Mutant: a bar is executed with the signals of the bar that follows it. *)
SignalTypesEarly(i) ==
    {s[2] : s \in {x \in generate_signals(spec.entry, spec.exit) : x[1] = i + 1}}

(* The compiled signals at a position. *)
SignalTypes(i) ==
    {s[2] : s \in {x \in generate_signals(spec.entry, spec.exit) : x[1] = i}}

(* execute_long_only_signals, up to the point at which a bar is marked. *)
ExecuteBar ==
    /\ phase = "execute"
    /\ \/ /\ index + 1 < Len(bars)
          /\ Engine!NextBar(bars[index + 2], SignalTypes(index + 2))
       \/ Engine!OpeningRiskExit \/ Engine!NoOpeningRiskExit
       \/ Engine!ExecuteBuy \/ Engine!IgnoreBuy \/ Engine!NoBuy
       \/ Engine!ExecuteSell \/ Engine!IgnoreSell \/ Engine!NoSell
       \/ Engine!IntradayRiskExit \/ Engine!NoIntradayRiskExit
    /\ UNCHANGED <<compilerVars, phase, spec, bars, curve>>

Mark ==
    /\ phase = "execute"
    /\ Engine!MarkToClose
    /\ curve' = Append(curve, equity')
    /\ UNCHANGED <<compilerVars, phase, spec, bars>>

FinishExecution ==
    /\ phase = "execute" /\ index = Len(bars) - 1
    /\ Engine!Finish
    /\ phase' = "done"
    /\ UNCHANGED <<compilerVars, spec, bars, curve>>

PreviewNext ==
    \/ \E b \in Bars : LoadBar(b)
    \/ MarketDataUnavailable \/ Execute
    \/ ExecuteBar \/ Mark \/ FinishExecution

PreviewSpec == PreviewInit /\ [][PreviewNext]_previewVars

-----------------------------------------------------------------------------
(* Mutant: the benchmark is sized at the close. *)
BuyAndHoldAtClose(start) ==
    LET shares == StartingCash \div bars[start].close
        remaining_cash == StartingCash - shares * bars[start].close
    IN  [k \in 1..(Len(bars) - start + 1) |->
            remaining_cash + shares * bars[start + k - 1].close]

(* The benchmark buys whole shares at the open of its first bar. *)
calculate_buy_and_hold_equity_curve(start) ==
    LET shares == StartingCash \div bars[start].open
        remaining_cash == StartingCash - shares * bars[start].open
    IN  [k \in 1..(Len(bars) - start + 1) |->
            remaining_cash + shares * bars[start + k - 1].close]

(* Mutant: the fall is measured from the first point. *)
DrawdownFromTheStart(points) ==
    FoldLeft(LAMBDA worst, value :
                 IF value * worst[2] < worst[1] * points[1]
                 THEN <<value, points[1]>> ELSE worst,
             <<1, 1>>, points)

(* One turn of the loop of calculate_maximum_drawdown. *)
NextPoint(state, value) ==
    LET peak == Max({state.peak, value})
    IN  [peak |-> peak,
         worst |-> IF value * state.worst[2] < state.worst[1] * peak
                   THEN <<value, peak>> ELSE state.worst]

(* What is left of the peak at the deepest fall, as a fraction:            *)
(* maximum_drawdown is (fraction - 1) * 100.                               *)
calculate_maximum_drawdown(points) ==
    FoldLeft(NextPoint, [peak |-> points[1], worst |-> <<1, 1>>], points).worst

buy_and_hold_final_value ==
    Last(calculate_buy_and_hold_equity_curve(first_signal_eligible_index))

(* Mutant: the chart of the strategy starts with the first bar. *)
StrategyValuesFromTheStart == curve

(* The values of the chart's points: the strategy's from the first eligible*)
(* bar on, and the benchmark's, whose first is replaced by the cash.       *)
StrategyValues == SubSeq(curve, first_signal_eligible_index, Len(curve))
BuyAndHoldValues ==
    [calculate_buy_and_hold_equity_curve(first_signal_eligible_index)
        EXCEPT ![1] = StartingCash]

-----------------------------------------------------------------------------
(* No trade looks ahead: the bar before an entry satisfies the strategy's  *)
(* entry condition on the bars up to it, and the bar before a strategy     *)
(* exit its exit condition.                                                *)
TradesFollowTheStrategy ==
    \A i \in DOMAIN trades :
        /\ evaluate_condition(spec.entry, trades[i].entry)
        /\ trades[i].reason = "strategy_exit" =>
               evaluate_condition(spec.exit, trades[i].exit)

(* The reported drawdown is the deepest fall there is: no later point of   *)
(* the curve is a smaller share of an earlier one, and some pair attains   *)
(* it.                                                                     *)
DrawdownIsDeepestFall ==
    phase = "done" =>
        LET worst == calculate_maximum_drawdown(curve)
            Pairs == {p \in (DOMAIN curve) \X (DOMAIN curve) : p[1] <= p[2]}
        IN  /\ \A q \in Pairs : curve[q[2]] * worst[2] >= worst[1] * curve[q[1]]
            /\ \E q \in Pairs : curve[q[2]] * worst[2] = worst[1] * curve[q[1]]

(* Strategy and benchmark are measured alike: a strategy that buys once    *)
(* and holds to the end has the benchmark's curve from its entry on.       *)
BenchmarkIsHolding ==
    phase = "done" /\ Len(trades) = 1 /\ trades[1].reason = "final_liquidation" =>
        LET start == trades[1].entry + 1
        IN  SubSeq(curve, start, Len(curve))
                = calculate_buy_and_hold_equity_curve(start)

(* The chart agrees with the summary: the curves can be zipped (strict)    *)
(* and end in the values the two returns are computed from, except in a    *)
(* comparison of a single bar, whose benchmark point is the cash.  Both    *)
(* start with the same capital, unless the entry condition becomes         *)
(* eligible before the exit condition and may have been traded.            *)
ChartAgreesWithSummary ==
    phase = "done" =>
        /\ Len(StrategyValues) = Len(BuyAndHoldValues)
        /\ Last(StrategyValues) = cash
        /\ Len(BuyAndHoldValues) > 1 =>
               Last(BuyAndHoldValues) = buy_and_hold_final_value
        /\ BuyAndHoldValues[1] = StartingCash
        /\ condition_first_eligible_index(spec.exit)
               <= condition_first_eligible_index(spec.entry) =>
               StrategyValues[1] = StartingCash
=============================================================================
