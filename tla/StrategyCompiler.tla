--------------------------- MODULE StrategyCompiler ---------------------------
(***************************************************************************)
(* Indicators and signals: backtesting/strategy_compiler.py and            *)
(* backtesting/sma_crossover.py.                                           *)
(*                                                                         *)
(* The loops over the bars run side by side: a step is one iteration of    *)
(* each, on a bar whose close is chosen as the series grows.  Every loop   *)
(* looks only at bars up to its index, so the state after n steps is what  *)
(* the functions return for that series of n bars.  Closes are given in a  *)
(* unit in which the averages are whole numbers.  Positions count from 1,  *)
(* where the code counts from 0.                                           *)
(***************************************************************************)
EXTENDS Integers, Sequences, FiniteSetsExt

CONSTANTS
    Closes,     \* the close prices there may be
    Levels,     \* constants a strategy may compare with
    Periods,    \* periods of the indicators
    MaxBars,    \* bound on the length of the series
    None        \* an indicator that is still warming up

ASSUME CompilerAssumption ==
    /\ Closes \subseteq Nat \ {0} /\ Levels \subseteq Int
    /\ Periods \subseteq Nat \ {0}
    /\ MaxBars \in Nat
    /\ None \notin Int

VARIABLES
    closes,     \* the close of each bar
    total,      \* rolling_total of each period
    sma, ema    \* the values of simple and exponential_moving_averages

vars == <<closes, total, sma, ema>>

Operand == [type : {"price"}] \cup [type : {"constant"}, value : Levels]
               \cup [type : {"sma", "ema"}, period : Periods]
Crossing == {"crosses_above", "crosses_below"}
Operator == Crossing \cup {"greater_than", "less_than",
                           "greater_than_or_equal", "less_than_or_equal"}
Condition == [left : Operand, operator : Operator, right : Operand]

Init ==
    /\ closes = << >>
    /\ total = [p \in Periods |-> 0]
    /\ sma = [p \in Periods |-> << >>]
    /\ ema = [p \in Periods |-> << >>]

-----------------------------------------------------------------------------
SumOver(seq, from, to) == MapThenSumSet(LAMBDA i : seq[i], from..to)

(* Mutant: the window keeps one close too many. *)
rolling_total_late(p, close) ==
    total[p] + close - (IF Len(closes) > p THEN closes[Len(closes) - p] ELSE 0)

(* rolling_total after the next close. *)
rolling_total(p, close) ==
    total[p] + close - (IF Len(closes) >= p THEN closes[Len(closes) - p + 1] ELSE 0)

simple_moving_averages(p, close) ==
    IF Len(closes) >= p - 1 THEN rolling_total(p, close) \div p ELSE None

(* Seeded with the simple average of the first period. *)
exponential_moving_averages(p, close) ==
    LET n == Len(closes) + 1
    IN  IF n < p THEN None
        ELSE IF n = p THEN SumOver(Append(closes, close), 1, p) \div p
        ELSE ((close - ema[p][n - 1]) * 2) \div (p + 1) + ema[p][n - 1]

NextBar(close) ==
    /\ Len(closes) < MaxBars
    /\ closes' = Append(closes, close)
    /\ total' = [p \in Periods |-> rolling_total(p, close)]
    /\ sma' = [p \in Periods |-> Append(sma[p], simple_moving_averages(p, close))]
    /\ ema' = [p \in Periods |-> Append(ema[p], exponential_moving_averages(p, close))]

Next == \E close \in Closes : NextBar(close)

Spec == Init /\ [][Next]_vars

-----------------------------------------------------------------------------
evaluate_operand(o, i) ==
    CASE o.type = "price"    -> closes[i]
      [] o.type = "constant" -> o.value
      [] o.type = "sma"      -> sma[o.period][i]
      [] o.type = "ema"      -> ema[o.period][i]

compare(left, right, operator) ==
    CASE operator = "greater_than"          -> left > right
      [] operator = "less_than"             -> left < right
      [] operator = "greater_than_or_equal" -> left >= right
      [] operator = "less_than_or_equal"    -> left <= right

Known(c, i) == i >= 1 /\ evaluate_operand(c.left, i) # None
                      /\ evaluate_operand(c.right, i) # None

(* Mutant: a crossing has to start strictly on the other side. *)
evaluate_strict_crossing(c, i) ==
    LET left(k) == evaluate_operand(c.left, k)
        right(k) == evaluate_operand(c.right, k)
    IN  /\ Known(c, i)
        /\ CASE c.operator = "crosses_above" ->
                    Known(c, i - 1) /\ left(i - 1) < right(i - 1) /\ left(i) > right(i)
             [] c.operator = "crosses_below" ->
                    Known(c, i - 1) /\ left(i - 1) > right(i - 1) /\ left(i) < right(i)
             [] OTHER -> compare(left(i), right(i), c.operator)

(* values[i] *)
evaluate_condition(c, i) ==
    LET left(k) == evaluate_operand(c.left, k)
        right(k) == evaluate_operand(c.right, k)
    IN  /\ Known(c, i)
        /\ CASE c.operator = "crosses_above" ->
                    Known(c, i - 1) /\ left(i - 1) <= right(i - 1) /\ left(i) > right(i)
             [] c.operator = "crosses_below" ->
                    Known(c, i - 1) /\ left(i - 1) >= right(i - 1) /\ left(i) < right(i)
             [] OTHER -> compare(left(i), right(i), c.operator)

generate_signals(entry, exit) ==
    {<<i, "buy">> : i \in {k \in DOMAIN closes : evaluate_condition(entry, k)}}
        \cup {<<i, "sell">> : i \in {k \in DOMAIN closes : evaluate_condition(exit, k)}}

operand_first_evaluable_index(o) == IF o.type \in {"sma", "ema"} THEN o.period ELSE 1

(* Mutant: a crossing counts as eligible without a bar before it. *)
eligible_without_previous(c) ==
    Max({operand_first_evaluable_index(c.left), operand_first_evaluable_index(c.right)})

condition_first_eligible_index(c) ==
    Max({operand_first_evaluable_index(c.left), operand_first_evaluable_index(c.right)})
        + (IF c.operator \in Crossing THEN 1 ELSE 0)

(* generate_sma_crossover_signals, the older function beside the compiler. *)
generate_sma_crossover_signals(short, long) ==
    LET Ready(i) == \A k \in {i - 1, i} : sma[short][k] # None /\ sma[long][k] # None
        Above(i) == sma[short][i - 1] <= sma[long][i - 1] /\ sma[short][i] > sma[long][i]
        Below(i) == sma[short][i - 1] >= sma[long][i - 1] /\ sma[short][i] < sma[long][i]
        At == {i \in 2..Len(closes) : Ready(i)}
    IN  {<<i, "buy">> : i \in {k \in At : Above(k)}}
            \cup {<<i, "sell">> : i \in {k \in At : ~Above(k) /\ Below(k)}}

(* run_sma_backtest: what it refuses, and the specification it builds. *)
RunsSmaBacktest(short, long) == short < long /\ Len(closes) > long

sma_specification(short, long) ==
    LET Crosses(operator) == [left |-> [type |-> "sma", period |-> short], operator |-> operator,
                              right |-> [type |-> "sma", period |-> long]]
    IN  [entry |-> Crosses("crosses_above"), exit |-> Crosses("crosses_below")]

-----------------------------------------------------------------------------
(* Running sums and recurrences give the averages they stand for, however *)
(* long the series has become, and nothing during the warm-up.  A simple   *)
(* average is the mean of the last p closes.  In an exponential one, with  *)
(* m = 2 / (p + 1), a close k bars ago weighs m * (1 - m)^k, and the seed, *)
(* the mean of the first p closes, what remains; over one bar it is the    *)
(* close itself.                                                           *)
Power(x, n) ==
    LET pow[k \in 0..n] == IF k = 0 THEN 1 ELSE x * pow[k - 1] IN pow[n]
IsSimpleAverage(p, i) == sma[p][i] * p = SumOver(closes, i - p + 1, i)
IsExponentialAverage(p, i) ==
    LET k == i - p
        Weighted == [j \in (p + 1)..i |-> 2 * closes[j] * Power(p - 1, i - j)
                                                        * Power(p + 1, j - p - 1)]
    IN  IF p = 1 THEN ema[p][i] = closes[i]
        ELSE ema[p][i] * Power(p + 1, k) * p =
                 SumOver(closes, 1, p) * Power(p - 1, k) + p * SumOver(Weighted, p + 1, i)
AveragesAreExact ==
    \A p \in Periods :
        /\ DOMAIN sma[p] = DOMAIN closes /\ DOMAIN ema[p] = DOMAIN closes
        /\ \A i \in DOMAIN closes :
               IF i < p THEN sma[p][i] = None /\ ema[p][i] = None
               ELSE IsSimpleAverage(p, i) /\ IsExponentialAverage(p, i)

(* The index that starts the benchmark and decides whether there is enough *)
(* data is the first at which the condition can be evaluated: a condition  *)
(* is never evaluated before it, and all it compares is known from it on.  *)
EligibleFromTheIndex ==
    \A c \in Condition :
        LET i == Len(closes)
        IN  (Known(c, i) /\ (c.operator \in Crossing => Known(c, i - 1)))
                <=> i >= condition_first_eligible_index(c)

(* The specification of the SMA backtest script signals where the older    *)
(* crossover function does, touching averages included, and the script's   *)
(* own check of the length admits exactly the series that have the bar at  *)
(* which its benchmark starts.                                             *)
CompiledAsCrossover ==
    \A short, long \in Periods : short < long =>
        LET built == sma_specification(short, long) IN
        /\ generate_signals(built.entry, built.exit) = generate_sma_crossover_signals(short, long)
        /\ RunsSmaBacktest(short, long) <=>
               condition_first_eligible_index(built.entry) <= Len(closes)
=============================================================================
