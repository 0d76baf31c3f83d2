--------------------------- MODULE BacktestProofs ---------------------------
(***************************************************************************)
(* Proofs about BacktestEngine, for every set of bars, every starting cash *)
(* and every pair of risk controls.                                        *)
(***************************************************************************)
EXTENDS BacktestEngine, TLAPS

(* What the types leave open: which steps have a bar, that an open         *)
(* position has its details, and what closing at the open implies.         *)
Shape ==
    /\ index >= 0 => bar \in Bars
    /\ pc # "next" => index >= 0
    /\ pc \in {"open", "buy", "sell"} => index >= 1 /\ ~closed
    /\ quantity > 0 <=> entry # None
    /\ closed => quantity = 0

(* The risk levels of an open position are those of its entry price. *)
Levels ==
    entry # None => /\ entry.stop = stop_price(entry.price)
                    /\ entry.take = take_profit_price(entry.price)

TypeInv == TypeOK /\ Shape /\ Levels

-----------------------------------------------------------------------------
(* Whole-share sizing never spends more than there is. *)
LEMMA SharesAffordable ==
    ASSUME NEW c \in Nat, NEW p \in Nat \ {0}
    PROVE  c \div p \in Nat /\ (c \div p) * p <= c
  OBVIOUS

(* The levels of calculate_risk_levels are amounts, or absent. *)
LEMMA LevelsAreAmounts ==
    ASSUME NEW p \in Money
    PROVE  /\ stop_price(p) \in Nat \cup {None}
           /\ take_profit_price(p) \in Nat \cup {None}
<1>1. ASSUME NEW n \in Nat PROVE (p * n) \div 100 \in Nat
  <2>1. p * n \in Nat
    BY DEF Money
  <2> QED BY <2>1
<1>2. stop_price(p) \in Nat \cup {None}
  <2>1. CASE StopLoss = None
    BY <2>1 DEF stop_price
  <2>2. CASE StopLoss # None
    <3>1. 100 - StopLoss \in Nat
      BY <2>2, EngineAssumption
    <3> QED BY <1>1, <2>2, <3>1 DEF stop_price
  <2> QED BY <2>1, <2>2
<1>3. take_profit_price(p) \in Nat \cup {None}
  <2>1. CASE TakeProfit = None
    BY <2>1 DEF take_profit_price
  <2>2. CASE TakeProfit # None
    <3>1. 100 + TakeProfit \in Nat
      BY <2>2, EngineAssumption
    <3> QED BY <1>1, <2>2, <3>1 DEF take_profit_price
  <2> QED BY <2>1, <2>2
<1> QED BY <1>2, <1>3

(* Closing a position for a nonnegative price keeps the types, clears the  *)
(* position, keeps the books balanced and does not overdraw the account.   *)
LEMMA ClosePosition ==
    ASSUME TypeInv, quantity > 0, index \in Nat,
           NEW price \in Nat, NEW reason \in ExitReason,
           NEW exit_signal \in Nat \cup {None},
           close_position(price, reason, exit_signal)
    PROVE  /\ cash' \in Int /\ realized' \in Int
           /\ quantity' = 0 /\ entry' = None
           /\ trades' \in Seq(Trade)
           /\ cash >= 0 => cash' >= 0
           /\ BooksBalance => BooksBalance'
<1>1. entry \in Entry /\ entry # None
  BY DEF TypeInv, TypeOK, Shape
<1>2. quantity \in Money /\ entry.price \in Money
  BY <1>1 DEF TypeInv, TypeOK, Entry, Money
<1>3. quantity * price \in Nat /\ quantity * entry.price \in Nat
  BY <1>2 DEF Money
<1>4. cash' \in Int /\ realized' \in Int /\ (cash >= 0 => cash' >= 0)
  <2>1. cash' = cash + quantity * price
        /\ realized' = realized + (quantity * price - quantity * entry.price)
    BY DEF close_position
  <2>2. cash \in Int /\ realized \in Int
    BY DEF TypeInv, TypeOK
  <2> QED BY <1>3, <2>1, <2>2
<1>5. quantity' = 0 /\ entry' = None
  BY DEF close_position
<1>6. trades' \in Seq(Trade)
  <2> DEFINE t == [signal |-> entry.signal, entry |-> entry.bar, price |-> entry.price,
                   quantity |-> quantity, exit_signal |-> exit_signal, exit |-> index,
                   exit_price |-> price, reason |-> reason]
  <2>1. t \in Trade
    BY <1>1, <1>2 DEF Entry, Trade
  <2>2. trades' = Append(trades, t)
    BY DEF close_position
  <2>3. trades \in Seq(Trade)
    BY DEF TypeInv, TypeOK
  <2> HIDE DEF t
  <2> QED BY <2>1, <2>2, <2>3
<1>7. BooksBalance => BooksBalance'
  <2>1. cash' = cash + quantity * price
        /\ realized' = realized + (quantity * price - quantity * entry.price)
    BY DEF close_position
  <2>2. cash \in Int /\ realized \in Int /\ StartingCash \in Int
    BY EngineAssumption DEF TypeInv, TypeOK, Money
  <2>3. HAVE BooksBalance
  <2>4. cash + quantity * entry.price = StartingCash + realized
    BY <1>1, <2>3 DEF BooksBalance
  <2>5. cash' = StartingCash + realized'
    BY <1>3, <2>1, <2>2, <2>4
  <2> QED BY <1>5, <2>2, <2>5 DEF BooksBalance
<1> QED BY <1>4, <1>5, <1>6, <1>7

(* Which price a position is closed at: an amount, in every case. *)
LEMMA ExitPrices ==
    ASSUME TypeInv, index >= 0
    PROVE  /\ bar.open \in Nat /\ bar.close \in Nat /\ bar.high \in Nat /\ bar.low \in Nat
           /\ entry # None => entry.stop \in Nat \cup {None} /\ entry.take \in Nat \cup {None}
<1>1. bar \in [open : Money, high : Money, low : Money, close : Money]
  BY EngineAssumption DEF TypeInv, Shape
<1>2. ASSUME entry # None
      PROVE  entry.stop \in Nat \cup {None} /\ entry.take \in Nat \cup {None}
  <2>1. entry.price \in Money
    BY <1>2 DEF TypeInv, TypeOK, Entry
  <2> QED BY <1>2, <2>1, LevelsAreAmounts DEF TypeInv, Levels
<1> QED BY <1>1, <1>2 DEF Money

(* Types are preserved.  TypeOK alone is not inductive: the entry details, *)
(* the bar and the index a step uses are only typed when they are there.   *)
LEMMA TypeStep == TypeInv /\ [Next]_vars => TypeInv'
<1> SUFFICES ASSUME TypeInv, [Next]_vars PROVE TypeInv'
  OBVIOUS
<1> USE DEF TypeInv, TypeOK, Shape
<1>1. ASSUME NEW b \in Bars, NEW types \in SUBSET SignalType, NextBar(b, types)
      PROVE  TypeInv'
  <2>1. index' \in Nat /\ index' <= MaxBars /\ index' = index + 1
    BY <1>1, EngineAssumption DEF NextBar
  <2>2. signals' \subseteq Nat \X SignalType
    BY <1>1, <2>1 DEF NextBar
  <2>3. Levels'
    BY <1>1 DEF NextBar, book, Levels, stop_price, take_profit_price
  <2>4. index' \in -1..MaxBars
    BY <2>1, EngineAssumption
  <2>5. closed' \in BOOLEAN /\ closed' = FALSE
    BY <1>1 DEF NextBar
  <2>6. /\ pc' \in {"open", "intraday"} /\ (pc' = "open" => index' >= 1)
        /\ bar' \in Bars
    BY <1>1, <2>1 DEF NextBar
  <2>7. UNCHANGED <<cash, quantity, entry, trades, realized, equity, ignored>>
    BY <1>1 DEF NextBar, book
  <2>8. TypeOK'
    BY <2>2, <2>4, <2>5, <2>6, <2>7
  <2>9. Shape'
    BY <2>1, <2>5, <2>6, <2>7
  <2> QED BY <2>3, <2>8, <2>9
<1>2. CASE OpeningRiskExit
  <2>1. index \in Nat /\ quantity > 0
    BY <1>2 DEF OpeningRiskExit, AtRisk
  <2>2. PICK reason \in ExitReason : close_position(bar.open, reason, None)
    BY <1>2 DEF OpeningRiskExit, ExitReason, RiskReason
  <2>3. bar.open \in Nat
    BY <2>1, ExitPrices
  <2>4. /\ cash' \in Int /\ realized' \in Int
        /\ quantity' = 0 /\ entry' = None
        /\ trades' \in Seq(Trade)
    BY <2>1, <2>2, <2>3, ClosePosition
  <2>5. ignored' \subseteq Nat \X SignalType
    BY <1>2 DEF OpeningRiskExit
  <2>6. Levels'
    BY <2>4 DEF Levels
  <2> QED BY <1>2, <2>1, <2>4, <2>5, <2>6 DEF OpeningRiskExit
<1>3. CASE NoOpeningRiskExit
  BY <1>3 DEF NoOpeningRiskExit, book, Levels, stop_price, take_profit_price
<1>4. CASE ExecuteBuy
  <2>1. index \in Nat /\ index >= 1 /\ index - 1 \in Nat
    BY <1>4 DEF ExecuteBuy
  <2>2. bar.open \in Money
    BY <2>1, EngineAssumption
  <2>3. /\ quantity' = cash \div bar.open /\ quantity' > 0
        /\ cash' = cash - (cash \div bar.open) * bar.open
    BY <1>4 DEF ExecuteBuy, shares_to_buy
  <2>4. quantity' \in Nat /\ cash' \in Int
    BY <2>2, <2>3 DEF Money
  <2>5. /\ stop_price(bar.open) \in Nat \cup {None}
        /\ take_profit_price(bar.open) \in Nat \cup {None}
    BY <2>2, LevelsAreAmounts
  <2>6. entry' \in Entry /\ entry' # None /\ Levels'
    <3>1. entry' = [price |-> bar.open, bar |-> index, signal |-> index - 1,
                    stop |-> stop_price(bar.open), take |-> take_profit_price(bar.open)]
      BY <1>4 DEF ExecuteBuy
    <3>2. entry' \in Entry
      BY <2>1, <2>2, <2>5, <3>1 DEF Entry
    <3>3. entry' # None
      BY <3>2, EngineAssumption
    <3>4. Levels'
      BY <3>1 DEF Levels, stop_price, take_profit_price
    <3> QED BY <3>2, <3>3, <3>4
  <2> QED BY <1>4, <2>1, <2>3, <2>4, <2>6 DEF ExecuteBuy
<1>5. CASE IgnoreBuy
  BY <1>5 DEF IgnoreBuy, book, Levels, stop_price, take_profit_price, SignalType
<1>6. CASE NoBuy
  BY <1>6 DEF NoBuy, book, Levels, stop_price, take_profit_price
<1>7. CASE ExecuteSell
  <2>1. index \in Nat /\ index - 1 \in Nat /\ quantity > 0
    BY <1>7 DEF ExecuteSell
  <2>2. bar.open \in Nat
    BY <2>1, ExitPrices
  <2>3. close_position(bar.open, "strategy_exit", index - 1)
    BY <1>7 DEF ExecuteSell
  <2>4. "strategy_exit" \in ExitReason
    BY DEF ExitReason
  <2>5. /\ cash' \in Int /\ realized' \in Int
        /\ quantity' = 0 /\ entry' = None
        /\ trades' \in Seq(Trade)
    BY <2>1, <2>2, <2>3, <2>4, ClosePosition
  <2>6. Levels'
    BY <2>5 DEF Levels
  <2> QED BY <1>7, <2>1, <2>5, <2>6 DEF ExecuteSell
<1>8. CASE IgnoreSell
  BY <1>8 DEF IgnoreSell, book, Levels, stop_price, take_profit_price, SignalType
<1>9. CASE NoSell
  BY <1>9 DEF NoSell, book, Levels, stop_price, take_profit_price
<1>10. CASE IntradayRiskExit
  <2>1. index \in Nat /\ quantity > 0
    BY <1>10 DEF IntradayRiskExit
  <2>2. PICK price \in Nat, reason \in ExitReason : close_position(price, reason, None)
    <3>1. entry.stop \in Nat \cup {None} /\ entry.take \in Nat \cup {None}
      BY <2>1, ExitPrices
    <3> QED BY <1>10, <3>1 DEF IntradayRiskExit, StopHit, TakeHit, ExitReason, RiskReason
  <2>3. /\ cash' \in Int /\ realized' \in Int
        /\ quantity' = 0 /\ entry' = None
        /\ trades' \in Seq(Trade)
    BY <2>1, <2>2, ClosePosition
  <2>4. Levels'
    BY <2>3 DEF Levels
  <2> QED BY <1>10, <2>1, <2>3, <2>4 DEF IntradayRiskExit
<1>11. CASE NoIntradayRiskExit
  BY <1>11 DEF NoIntradayRiskExit, book, Levels, stop_price, take_profit_price
<1>12. CASE MarkToClose
  <2>1. bar.close \in Nat /\ index \in Nat
    BY <1>12, ExitPrices DEF MarkToClose
  <2>2. equity' \in Int
    BY <1>12, <2>1 DEF MarkToClose
  <2> QED BY <1>12, <2>2 DEF MarkToClose, book, Levels, stop_price, take_profit_price
<1>13. CASE Finish
  <2>1. CASE quantity > 0
    <3>1. index \in Nat /\ bar.close \in Nat
      BY <1>13, ExitPrices DEF Finish
    <3>2. close_position(bar.close, "final_liquidation", None)
      BY <1>13, <2>1 DEF Finish
    <3>3. "final_liquidation" \in ExitReason
      BY DEF ExitReason
    <3>4. /\ cash' \in Int /\ realized' \in Int
          /\ quantity' = 0 /\ entry' = None
          /\ trades' \in Seq(Trade)
      BY <2>1, <3>1, <3>2, <3>3, ClosePosition
    <3>5. Levels'
      BY <3>4 DEF Levels
    <3> QED BY <1>13, <3>1, <3>4, <3>5 DEF Finish
  <2>2. CASE quantity = 0
    BY <1>13, <2>2 DEF Finish, book, Levels, stop_price, take_profit_price
  <2> QED BY <2>1, <2>2
<1>14. CASE UNCHANGED vars
  BY <1>14 DEF vars, Levels, stop_price, take_profit_price
<1> QED
  BY <1>1, <1>2, <1>3, <1>4, <1>5, <1>6, <1>7, <1>8, <1>9, <1>10, <1>11, <1>12,
     <1>13, <1>14 DEF Next

(* The first state, before the first bar, is well typed. *)
LEMMA TypeInit == Init => TypeInv
<1> SUFFICES ASSUME Init PROVE TypeInv
  OBVIOUS
<1>1. TypeOK
  <2>1. index \in -1..MaxBars
    BY EngineAssumption DEF Init
  <2>2. trades \in Seq(Trade)
    BY DEF Init
  <2>3. cash \in Int /\ equity \in Int
    BY EngineAssumption DEF Init, Money
  <2>4. closed \in BOOLEAN
    BY DEF Init
  <2>5. quantity \in Nat /\ realized \in Int /\ entry \in Entry \cup {None}
    BY DEF Init
  <2>6. /\ pc \in {"next", "open", "buy", "sell", "intraday", "mark", "done"}
        /\ bar \in Bars \cup {None}
        /\ signals \subseteq Nat \X SignalType /\ ignored \subseteq Nat \X SignalType
    BY DEF Init
  <2> QED BY <2>1, <2>2, <2>3, <2>4, <2>5, <2>6 DEF TypeOK
<1>2. Shape /\ Levels
  BY DEF Init, Shape, Levels
<1> QED BY <1>1, <1>2 DEF TypeInv

(* The inductive form of type correctness that the other proofs build on. *)
THEOREM TypeInvariant == Spec => []TypeInv
  BY TypeInit, TypeStep, PTL DEF Spec

(* Every variable of the backtest loop keeps its type.                     *)
THEOREM TypeCorrect == Spec => []TypeOK
<1>1. TypeInv => TypeOK
  BY DEF TypeInv
<1> QED BY <1>1, TypeInvariant, PTL

-----------------------------------------------------------------------------
(* Between two bars the last point of the curve is the account's value.    *)
MarkedToClose == pc = "next" /\ index >= 0 => equity = cash + quantity * bar.close

Accounts == /\ BooksBalance /\ NeverOverdrawn
            /\ MarkedToClose /\ FinalValueIsOnTheCurve

(* Closing an open position keeps the books and the account, and moves     *)
(* its value at that price into cash.                                      *)
LEMMA CloseAccounts ==
    ASSUME TypeInv, Accounts, quantity > 0, index \in Nat,
           NEW price \in Nat, NEW reason \in ExitReason,
           NEW exit_signal \in Nat \cup {None},
           close_position(price, reason, exit_signal), equity' = equity
    PROVE  /\ BooksBalance' /\ NeverOverdrawn'
           /\ quantity' = 0 /\ cash' = cash + quantity * price
<1>1. cash' >= 0 /\ BooksBalance' /\ quantity' = 0
  BY ClosePosition DEF Accounts, NeverOverdrawn
<1>2. cash' = cash + quantity * price
  BY DEF close_position
<1> QED BY <1>1, <1>2 DEF Accounts, NeverOverdrawn

(* The accounts stay right over every statement of the loop. *)
LEMMA AccountsStep == TypeInv /\ Accounts /\ [Next]_vars => Accounts'
<1> SUFFICES ASSUME TypeInv, Accounts, [Next]_vars PROVE Accounts'
  OBVIOUS
<1> DEFINE Still == UNCHANGED <<cash, quantity, entry, realized, equity>>
<1>0. ASSUME Still, pc' \notin {"next", "done"} PROVE Accounts'
  BY <1>0 DEF Accounts, BooksBalance, NeverOverdrawn, MarkedToClose,
              FinalValueIsOnTheCurve
<1>1. ASSUME NEW b \in Bars, NEW types \in SUBSET SignalType, NextBar(b, types)
      PROVE  Accounts'
  BY <1>0, <1>1 DEF NextBar, book
<1>2. CASE OpeningRiskExit
  <2>1. index \in Nat /\ quantity > 0 /\ equity' = equity /\ pc' = "mark"
    BY <1>2 DEF OpeningRiskExit, AtRisk, TypeInv, TypeOK, Shape
  <2>2. PICK reason \in ExitReason : close_position(bar.open, reason, None)
    BY <1>2 DEF OpeningRiskExit, ExitReason, RiskReason
  <2>3. bar.open \in Nat
    BY <2>1, ExitPrices
  <2>4. BooksBalance' /\ NeverOverdrawn'
    BY <2>1, <2>2, <2>3, CloseAccounts
  <2> QED BY <2>1, <2>4 DEF Accounts, MarkedToClose, FinalValueIsOnTheCurve
<1>3. CASE NoOpeningRiskExit
  BY <1>0, <1>3 DEF NoOpeningRiskExit, book
<1>4. CASE ExecuteBuy
  <2> DEFINE q == cash \div bar.open
  <2>1. index \in Nat /\ entry = None /\ pc' = "sell"
    BY <1>4 DEF ExecuteBuy, TypeInv, TypeOK, Shape
  <2>2. bar.open \in Nat \ {0}
    BY <2>1, EngineAssumption DEF TypeInv, Shape, Money
  <2>3. cash \in Nat /\ equity >= 0 /\ realized \in Int
    BY DEF Accounts, NeverOverdrawn, TypeInv, TypeOK
  <2>4. q \in Nat /\ q * bar.open <= cash
    BY <2>2, <2>3, SharesAffordable
  <2>5. /\ cash' = cash - q * bar.open /\ quantity' = q
        /\ entry' # None /\ entry'.price = bar.open
        /\ realized' = realized /\ equity' = equity
    <3>1. entry' # None
      BY <1>4, TypeStep DEF ExecuteBuy, Next, TypeInv, Shape, TypeOK
    <3> QED BY <1>4, <3>1 DEF ExecuteBuy, shares_to_buy
  <2>6. q * bar.open \in Nat
    BY <2>2, <2>4
  <2>7. cash = StartingCash + realized /\ StartingCash \in Int
    BY <2>1, <2>3, EngineAssumption DEF Accounts, BooksBalance, Money
  <2> HIDE DEF q
  <2>8. NeverOverdrawn'
    BY <2>3, <2>4, <2>5, <2>6 DEF NeverOverdrawn
  <2>9. BooksBalance'
    <3>1. cash' + q * bar.open = StartingCash + realized
      BY <2>3, <2>5, <2>6, <2>7
    <3> QED BY <2>5, <3>1 DEF BooksBalance
  <2> QED BY <2>1, <2>8, <2>9 DEF Accounts, MarkedToClose, FinalValueIsOnTheCurve
<1>5. CASE IgnoreBuy
  BY <1>0, <1>5 DEF IgnoreBuy, book
<1>6. CASE NoBuy
  BY <1>0, <1>6 DEF NoBuy, book
<1>7. CASE ExecuteSell
  <2>1. index \in Nat /\ index - 1 \in Nat /\ quantity > 0
        /\ equity' = equity /\ pc' = "intraday"
    BY <1>7 DEF ExecuteSell, TypeInv, TypeOK, Shape
  <2>2. close_position(bar.open, "strategy_exit", index - 1)
        /\ "strategy_exit" \in ExitReason
    BY <1>7 DEF ExecuteSell, ExitReason
  <2>3. bar.open \in Nat
    BY <2>1, ExitPrices
  <2>4. BooksBalance' /\ NeverOverdrawn'
    BY <2>1, <2>2, <2>3, CloseAccounts
  <2> QED BY <2>1, <2>4 DEF Accounts, MarkedToClose, FinalValueIsOnTheCurve
<1>8. CASE IgnoreSell
  BY <1>0, <1>8 DEF IgnoreSell, book
<1>9. CASE NoSell
  BY <1>0, <1>9 DEF NoSell, book
<1>10. CASE IntradayRiskExit
  <2>1. index \in Nat /\ quantity > 0 /\ equity' = equity /\ pc' = "mark"
    BY <1>10 DEF IntradayRiskExit, TypeInv, TypeOK, Shape
  <2>2. PICK price \in Nat, reason \in ExitReason : close_position(price, reason, None)
    <3>1. entry.stop \in Nat \cup {None} /\ entry.take \in Nat \cup {None}
      BY <2>1, ExitPrices DEF TypeInv, Shape
    <3> QED BY <1>10, <3>1 DEF IntradayRiskExit, StopHit, TakeHit, ExitReason, RiskReason
  <2>3. BooksBalance' /\ NeverOverdrawn'
    BY <2>1, <2>2, CloseAccounts
  <2> QED BY <2>1, <2>3 DEF Accounts, MarkedToClose, FinalValueIsOnTheCurve
<1>11. CASE NoIntradayRiskExit
  BY <1>0, <1>11 DEF NoIntradayRiskExit, book
<1>12. CASE MarkToClose
  <2>1. /\ equity' = cash + quantity * bar.close /\ pc' = "next"
        /\ UNCHANGED <<index, bar, cash, quantity, entry, realized>>
    BY <1>12 DEF MarkToClose, book
  <2>2. index \in Nat /\ cash \in Nat /\ quantity \in Nat
    BY <1>12 DEF MarkToClose, Accounts, NeverOverdrawn, TypeInv, TypeOK, Shape
  <2>3. bar.close \in Nat
    BY <2>2, ExitPrices
  <2>4. quantity * bar.close \in Nat
    BY <2>2, <2>3
  <2>5. NeverOverdrawn'
    BY <2>1, <2>2, <2>4 DEF NeverOverdrawn
  <2> QED BY <2>1, <2>5 DEF Accounts, BooksBalance, MarkedToClose, FinalValueIsOnTheCurve
<1>13. CASE Finish
  <2>1. index \in Nat /\ equity' = equity /\ pc' = "done"
        /\ equity = cash + quantity * bar.close /\ cash \in Nat
    BY <1>13 DEF Finish, Accounts, MarkedToClose, NeverOverdrawn, TypeInv, TypeOK
  <2>2. bar.close \in Nat
    BY <2>1, ExitPrices
  <2>3. CASE quantity > 0
    <3>1. close_position(bar.close, "final_liquidation", None)
          /\ "final_liquidation" \in ExitReason
      BY <1>13, <2>3 DEF Finish, ExitReason
    <3>2. BooksBalance' /\ NeverOverdrawn' /\ quantity' = 0
          /\ cash' = cash + quantity * bar.close
      BY <2>1, <2>2, <2>3, <3>1, CloseAccounts
    <3> QED BY <2>1, <3>2 DEF Accounts, MarkedToClose, FinalValueIsOnTheCurve
  <2>4. CASE quantity = 0
    <3>1. UNCHANGED <<cash, quantity, entry, realized>>
      BY <1>13, <2>4 DEF Finish, book
    <3>2. cash = equity
      BY <2>1, <2>2, <2>4
    <3> QED BY <2>1, <2>4, <3>1, <3>2
            DEF Accounts, BooksBalance, NeverOverdrawn, MarkedToClose,
                FinalValueIsOnTheCurve
  <2> QED BY <2>3, <2>4 DEF TypeInv, TypeOK
<1>14. CASE UNCHANGED vars
  BY <1>14 DEF vars, Accounts, BooksBalance, NeverOverdrawn, MarkedToClose,
               FinalValueIsOnTheCurve
<1> QED
  BY <1>1, <1>2, <1>3, <1>4, <1>5, <1>6, <1>7, <1>8, <1>9, <1>10, <1>11, <1>12,
     <1>13, <1>14 DEF Next

(* The account before the first bar. *)
LEMMA AccountsInit == Init => Accounts
  BY EngineAssumption
     DEF Init, Accounts, BooksBalance, NeverOverdrawn, MarkedToClose,
         FinalValueIsOnTheCurve, Money

(* The accounts are right throughout every backtest. *)
THEOREM AccountsHold == Spec => []Accounts
  BY AccountsInit, AccountsStep, TypeInvariant, PTL DEF Spec

(* Cash and the cost of the open position are always the starting cash and *)
(* the realized profits of close_position.                                 *)
THEOREM BooksAlwaysBalance == Spec => []BooksBalance
<1>1. Accounts => BooksBalance
  BY DEF Accounts
<1> QED BY <1>1, AccountsHold, PTL

(* execute_buy and close_position never leave negative cash, and no point  *)
(* of the equity curve is negative.                                        *)
THEOREM AccountNeverOverdrawn == Spec => []NeverOverdrawn
<1>1. Accounts => NeverOverdrawn
  BY DEF Accounts
<1> QED BY <1>1, AccountsHold, PTL

(* The final liquidation leaves exactly the value of the last point of the *)
(* equity curve.                                                           *)
THEOREM FinalValue == Spec => []FinalValueIsOnTheCurve
<1>1. Accounts => FinalValueIsOnTheCurve
  BY DEF Accounts
<1> QED BY <1>1, AccountsHold, PTL

-----------------------------------------------------------------------------
(* The risk promise from the moment the last risk check of a bar is over. *)
RiskInv ==
    pc \in {"mark", "next"} /\ quantity > 0 /\ index > entry.bar =>
        ~StopHit(bar.low) /\ ~TakeHit(bar.high)

(* A bar is left with an open position only through the intraday check,    *)
(* which a position closed at the open cannot reach.                       *)
LEMMA RiskStep == TypeInv /\ RiskInv /\ [Next]_vars => RiskInv'
<1> SUFFICES ASSUME TypeInv, RiskInv, [Next]_vars PROVE RiskInv'
  OBVIOUS
<1>1. ASSUME NEW b \in Bars, NEW types \in SUBSET SignalType, NextBar(b, types)
      PROVE  RiskInv'
  BY <1>1 DEF NextBar, RiskInv
<1>2. CASE OpeningRiskExit
  BY <1>2 DEF OpeningRiskExit, close_position, RiskInv
<1>3. CASE NoOpeningRiskExit \/ ExecuteBuy \/ IgnoreBuy \/ NoBuy
           \/ ExecuteSell \/ IgnoreSell \/ NoSell
  BY <1>3 DEF NoOpeningRiskExit, ExecuteBuy, IgnoreBuy, NoBuy, ExecuteSell,
              IgnoreSell, NoSell, RiskInv
<1>4. CASE IntradayRiskExit
  BY <1>4 DEF IntradayRiskExit, close_position, RiskInv
<1>5. CASE NoIntradayRiskExit
  <2>1. UNCHANGED <<index, bar, quantity, entry>>
    BY <1>5 DEF NoIntradayRiskExit, book
  <2>2. ASSUME quantity > 0, index > entry.bar
        PROVE  ~StopHit(bar.low) /\ ~TakeHit(bar.high)
    <3>1. entry # None /\ ~closed
      BY <2>2 DEF TypeInv, Shape, TypeOK
    <3> QED BY <1>5, <2>2, <3>1 DEF NoIntradayRiskExit, AtRisk
  <2> QED BY <2>1, <2>2 DEF RiskInv, StopHit, TakeHit
<1>6. CASE MarkToClose
  BY <1>6 DEF MarkToClose, book, RiskInv, StopHit, TakeHit
<1>7. CASE Finish
  BY <1>7 DEF Finish, RiskInv
<1>8. CASE UNCHANGED vars
  BY <1>8 DEF vars, RiskInv, StopHit, TakeHit
<1> QED
  BY <1>1, <1>2, <1>3, <1>4, <1>5, <1>6, <1>7, <1>8 DEF Next

(* No position is carried past a bar whose range touched its stop or its   *)
(* take-profit level, whatever the signals and the gaps.                   *)
THEOREM RiskAlwaysHonoured == Spec => []RiskHonoured
<1>1. Init => RiskInv
  BY DEF Init, RiskInv
<1>2. RiskInv => RiskHonoured
  BY DEF RiskInv, RiskHonoured
<1> QED BY <1>1, <1>2, RiskStep, TypeInvariant, PTL DEF Spec


-----------------------------------------------------------------------------
(* The list of trades.  The trades and the open position never lie in the  *)
(* future, and a position is only opened on a bar after every exit so far. *)
TradesInv ==
    /\ TradesAreCoherent
    /\ entry # None => entry.bar = entry.signal + 1 /\ entry.bar <= index
    /\ \A i \in DOMAIN trades :
          /\ trades[i].exit <= index
          /\ trades[i].exit_signal # None => trades[i].exit = trades[i].exit_signal + 1
          /\ pc \in {"open", "buy"} => trades[i].exit < index

(* close_position adds one trade at the end. *)
LEMMA ClosedTrade ==
    ASSUME TypeInv, NEW price, NEW reason, NEW exit_signal,
           close_position(price, reason, exit_signal)
    PROVE  LET n == Len(trades) + 1
           IN  /\ DOMAIN trades = 1..Len(trades) /\ DOMAIN trades' = 1..n
               /\ Len(trades) \in Nat /\ Len(trades') = n
               /\ \A i \in DOMAIN trades : trades'[i] = trades[i] /\ i < n /\ i \in 1..n
               /\ \A i \in 1..n : i \in DOMAIN trades \/ i = n
               /\ trades'[n] = [signal |-> entry.signal, entry |-> entry.bar,
                                price |-> entry.price, quantity |-> quantity,
                                exit_signal |-> exit_signal, exit |-> index,
                                exit_price |-> price, reason |-> reason]
<1> DEFINE t == [signal |-> entry.signal, entry |-> entry.bar, price |-> entry.price,
                 quantity |-> quantity, exit_signal |-> exit_signal, exit |-> index,
                 exit_price |-> price, reason |-> reason]
<1>1. trades' = Append(trades, t)
  BY DEF close_position
<1>2. trades \in Seq(Trade)
  BY DEF TypeInv, TypeOK
<1> HIDE DEF t
<1>3. /\ DOMAIN trades = 1..Len(trades) /\ DOMAIN trades' = 1..(Len(trades) + 1)
      /\ Len(trades) \in Nat /\ Len(trades') = Len(trades) + 1
      /\ \A i \in 1..Len(trades) : trades'[i] = trades[i]
      /\ trades'[Len(trades) + 1] = t
  BY <1>1, <1>2
<1> QED
  BY <1>3 DEF t

(* Closing keeps the list coherent if the exit is one the position allows. *)
LEMMA CloseCoherent ==
    ASSUME TypeInv, TradesInv, quantity > 0, index \in Nat,
           NEW price \in Nat, NEW reason \in ExitReason,
           NEW exit_signal \in Nat \cup {None},
           close_position(price, reason, exit_signal), index' = index,
           pc' \notin {"open", "buy"},
           exit_signal # None => index = exit_signal + 1,
           reason = "strategy_exit" => exit_signal # None,
           reason \in RiskReason => entry.bar < index,
           reason = "stop_loss" => price <= stop_price(entry.price),
           reason = "take_profit" => price >= take_profit_price(entry.price)
    PROVE  TradesInv'
<1>1. entry \in Entry /\ entry # None /\ entry' = None
  BY DEF TypeInv, TypeOK, Shape, close_position
<1>2. entry.bar \in Nat /\ entry.signal \in Nat
  BY <1>1 DEF Entry
<1> DEFINE n == Len(trades) + 1
<1>3. /\ DOMAIN trades = 1..Len(trades) /\ DOMAIN trades' = 1..n
      /\ \A i \in DOMAIN trades : trades'[i] = trades[i] /\ i < n
      /\ \A i \in 1..n : i \in DOMAIN trades \/ i = n
      /\ Len(trades) \in Nat
  BY ClosedTrade
<1>4. /\ trades'[n].signal = entry.signal /\ trades'[n].entry = entry.bar
      /\ trades'[n].price = entry.price /\ trades'[n].exit_signal = exit_signal
      /\ trades'[n].exit = index /\ trades'[n].exit_price = price
      /\ trades'[n].reason = reason
  <2>1. trades'[n] = [signal |-> entry.signal, entry |-> entry.bar,
                      price |-> entry.price, quantity |-> quantity,
                      exit_signal |-> exit_signal, exit |-> index,
                      exit_price |-> price, reason |-> reason]
    BY ClosedTrade
  <2> QED
    BY <2>1
<1> HIDE DEF n
<1>5. ASSUME NEW i \in DOMAIN trades'
      PROVE  LET t == trades'[i]
             IN  /\ t.entry = t.signal + 1 /\ t.entry <= t.exit
                 /\ t.reason = "strategy_exit" => t.exit = t.exit_signal + 1
                 /\ t.reason \in RiskReason => t.entry < t.exit
                 /\ t.reason = "stop_loss" => t.exit_price <= stop_price(t.price)
                 /\ t.reason = "take_profit" => t.exit_price >= take_profit_price(t.price)
                 /\ t.exit <= index
                 /\ t.exit_signal # None => t.exit = t.exit_signal + 1
  <2>1. CASE i \in DOMAIN trades
    BY <1>3, <2>1 DEF TradesInv, TradesAreCoherent
  <2>2. CASE i = n
    BY <1>1, <1>2, <1>4, <2>2 DEF TradesInv
  <2> QED
    BY <1>3, <1>5, <2>1, <2>2
<1>6. ASSUME NEW i \in DOMAIN trades', NEW k \in DOMAIN trades', i < k
      PROVE  trades'[i].exit < trades'[k].entry
  <2>1. i \in DOMAIN trades
    BY <1>3, <1>6 DEF n
  <2>2. CASE k \in DOMAIN trades
    BY <1>3, <1>6, <2>1, <2>2 DEF TradesInv, TradesAreCoherent
  <2>3. CASE k = n
    BY <1>1, <1>3, <1>4, <2>1, <2>3 DEF TradesInv, TradesAreCoherent
  <2> QED
    BY <1>3, <1>6, <2>2, <2>3
<1>7. TradesAreCoherent'
  BY <1>1, <1>5, <1>6 DEF TradesAreCoherent, stop_price, take_profit_price
<1> QED
  BY <1>1, <1>5, <1>7 DEF TradesInv

LEMMA TradesStep == TypeInv /\ TypeInv' /\ TradesInv /\ [Next]_vars => TradesInv'
<1> SUFFICES ASSUME TypeInv, TypeInv', TradesInv, [Next]_vars PROVE TradesInv'
  OBVIOUS
<1>0. /\ index \in Int /\ index' \in Int
      /\ \A i \in DOMAIN trades : trades[i] \in Trade
      /\ entry # None => entry \in Entry
  BY EngineAssumption DEF TypeInv, TypeOK
<1>1. ASSUME NEW b \in Bars, NEW types \in SUBSET SignalType, NextBar(b, types)
      PROVE  TradesInv'
  <2>1. index' = index + 1 /\ entry' = entry /\ trades' = trades
    BY <1>1 DEF NextBar, book
  <2>2. \A i \in DOMAIN trades : trades[i].exit \in Int
    BY <1>0 DEF Trade
  <2>3. entry # None => entry.bar \in Int
    BY <1>0 DEF Entry
  <2> QED
    BY <1>0, <2>1, <2>2, <2>3 DEF TradesInv, TradesAreCoherent, stop_price, take_profit_price
<1>2. CASE OpeningRiskExit
  <2>1. /\ quantity > 0 /\ entry # None /\ entry.bar < index /\ index' = index /\ index >= 0
        /\ pc' \notin {"open", "buy"}
    BY <1>0, <1>2 DEF OpeningRiskExit, AtRisk, TypeInv, Shape, Entry
  <2>2. /\ bar.open \in Nat /\ entry.stop = stop_price(entry.price)
        /\ entry.take = take_profit_price(entry.price) /\ index \in Nat
    BY <1>0, <2>1, ExitPrices DEF TypeInv, Levels
  <2>3. CASE StopHit(bar.open) /\ close_position(bar.open, "stop_loss", None)
    BY <2>1, <2>2, <2>3, CloseCoherent DEF StopHit, ExitReason, RiskReason
  <2>4. CASE TakeHit(bar.open) /\ close_position(bar.open, "take_profit", None)
    BY <2>1, <2>2, <2>4, CloseCoherent DEF TakeHit, ExitReason, RiskReason
  <2> QED
    BY <1>2, <2>3, <2>4 DEF OpeningRiskExit
<1>3. CASE ExecuteBuy
  <2>1. /\ entry' = [price |-> bar.open, bar |-> index, signal |-> index - 1,
                     stop |-> stop_price(bar.open), take |-> take_profit_price(bar.open)]
        /\ index' = index /\ trades' = trades /\ pc = "buy" /\ pc' = "sell" /\ entry = None
    BY <1>3 DEF ExecuteBuy, TypeInv, Shape
  <2>2. entry'.bar = index /\ entry'.signal = index - 1
    BY <2>1
  <2> QED
    BY <1>0, <2>1, <2>2 DEF TradesInv, TradesAreCoherent, stop_price, take_profit_price
<1>4. CASE ExecuteSell
  <2>1. /\ quantity > 0 /\ index' = index /\ index >= 1 /\ pc' \notin {"open", "buy"}
        /\ close_position(bar.open, "strategy_exit", index - 1)
    BY <1>4 DEF ExecuteSell, TypeInv, Shape
  <2>2. /\ bar.open \in Nat /\ index \in Nat /\ index - 1 \in Nat /\ index - 1 # None
        /\ index = (index - 1) + 1
    BY <1>0, <2>1, ExitPrices, EngineAssumption
  <2> QED
    BY <2>1, <2>2, CloseCoherent DEF ExitReason, RiskReason
<1>5. CASE IntradayRiskExit
  <2>1. /\ quantity > 0 /\ entry # None /\ entry.bar < index /\ index' = index /\ index >= 0
        /\ pc' \notin {"open", "buy"}
    BY <1>0, <1>5 DEF IntradayRiskExit, AtRisk, TypeInv, Shape, Entry
  <2>2. /\ entry.stop = stop_price(entry.price) /\ entry.take = take_profit_price(entry.price)
        /\ entry.stop \in Nat \cup {None} /\ entry.take \in Nat \cup {None}
        /\ index \in Nat
    BY <1>0, <2>1, ExitPrices DEF TypeInv, Levels
  <2>3. CASE StopHit(bar.low) /\ close_position(entry.stop, "stop_loss", None)
    <3>1. entry.stop \in Nat /\ entry.stop <= stop_price(entry.price)
      BY <2>2, <2>3 DEF StopHit
    <3> QED
      BY <2>1, <2>2, <2>3, <3>1, CloseCoherent DEF ExitReason, RiskReason
  <2>4. CASE TakeHit(bar.high) /\ close_position(entry.take, "take_profit", None)
    <3>1. entry.take \in Nat /\ entry.take >= take_profit_price(entry.price)
      BY <2>2, <2>4 DEF TakeHit
    <3> QED
      BY <2>1, <2>2, <2>4, <3>1, CloseCoherent DEF ExitReason, RiskReason
  <2> QED
    BY <1>5, <2>3, <2>4 DEF IntradayRiskExit
<1>6. CASE Finish
  <2>1. index' = index /\ index >= 0 /\ index \in Nat /\ pc' \notin {"open", "buy"}
    BY <1>0, <1>6 DEF Finish
  <2>2. CASE quantity > 0 /\ close_position(bar.close, "final_liquidation", None)
    <3>1. bar.close \in Nat
      BY <2>1, ExitPrices
    <3> QED
      BY <2>1, <2>2, <3>1, CloseCoherent DEF ExitReason, RiskReason
  <2>3. CASE UNCHANGED book
    BY <2>1, <2>3 DEF book, TradesInv, TradesAreCoherent, stop_price, take_profit_price
  <2> QED
    BY <1>6, <2>2, <2>3 DEF Finish
<1>7. CASE \/ NoOpeningRiskExit \/ IgnoreBuy \/ NoBuy \/ IgnoreSell \/ NoSell
           \/ NoIntradayRiskExit \/ MarkToClose \/ UNCHANGED vars
  <2>1. /\ entry' = entry /\ trades' = trades /\ index' = index
        /\ pc' \in {"open", "buy"} => pc \in {"open", "buy"}
    BY <1>7 DEF NoOpeningRiskExit, IgnoreBuy, NoBuy, IgnoreSell, NoSell,
                NoIntradayRiskExit, MarkToClose, vars, book
  <2> QED
    BY <2>1 DEF TradesInv, TradesAreCoherent, stop_price, take_profit_price
<1> QED
  BY <1>1, <1>2, <1>3, <1>4, <1>5, <1>6, <1>7 DEF Next

(* The trades so far, the open position and the pending signals fit         *)
(* together between any two statements of the loop.                        *)
THEOREM TradesInvariant == Spec => []TradesInv
<1>1. Init => TradesInv
  BY DEF Init, TradesInv, TradesAreCoherent
<1> QED
  BY <1>1, TradesStep, TypeInvariant, PTL DEF Spec

(* Whatever the bars, the signals and the risk controls, every trade of    *)
(* the result was entered on the bar after its signal, left on the bar     *)
(* after its exit signal or by a level it really reached, and trades never *)
(* overlap.                                                                *)
THEOREM TradesAlwaysCoherent == Spec => []TradesAreCoherent
<1>1. TradesInv => TradesAreCoherent
  BY DEF TradesInv
<1> QED
  BY <1>1, TradesInvariant, PTL

-----------------------------------------------------------------------------
(* The signals.  Which ones the loop is done with: those of earlier bars,  *)
(* and of the bar before this one what its opening has dealt with.         *)
Handled(s) ==
    \/ s[1] < index - 1
    \/ s[1] = index - 1 /\ \/ pc \in {"intraday", "mark", "next", "done"}
                           \/ pc = "sell" /\ s[2] = "buy"

(* A signal that is handled was executed or ignored and not both, one that *)
(* is not was neither.                                                     *)
SignalsInv ==
    /\ ignored \subseteq signals
    /\ \A s \in signals : /\ s[1] <= index
                          /\ s \in ignored => Handled(s)
                          /\ Executed(s) => Handled(s) /\ s \notin ignored
                          /\ Handled(s) => s \in ignored \/ Executed(s)

LEMMA SignalTypes ==
    ASSUME TypeInv, NEW s \in signals
    PROVE  s[1] \in Nat /\ s[2] \in SignalType /\ s = <<s[1], s[2]>>
<1>1. s \in Nat \X SignalType
  BY DEF TypeInv, TypeOK
<1> QED
  BY <1>1

(* Closing a position executes its exit signal, if it has one, and leaves  *)
(* the entry signal executed.                                              *)
LEMMA CloseExecutes ==
    ASSUME TypeInv, quantity > 0, NEW price, NEW reason, NEW exit_signal,
           close_position(price, reason, exit_signal), NEW s
    PROVE  Executed(s)' <=> Executed(s) \/ (s[2] # "buy" /\ exit_signal = s[1])
<1>1. entry # None /\ entry' = None
  BY DEF TypeInv, Shape, close_position
<1> DEFINE n == Len(trades) + 1
<1>2. /\ DOMAIN trades' = 1..n /\ n \in 1..n
      /\ \A i \in DOMAIN trades : trades'[i] = trades[i] /\ i \in 1..n
      /\ \A i \in 1..n : i \in DOMAIN trades \/ i = n
  <2>1. /\ DOMAIN trades' = 1..n /\ Len(trades) \in Nat
        /\ \A i \in DOMAIN trades : trades'[i] = trades[i] /\ i \in 1..n
        /\ \A i \in 1..n : i \in DOMAIN trades \/ i = n
    BY ClosedTrade
  <2> QED
    BY <2>1
<1>3. trades'[n].signal = entry.signal /\ trades'[n].exit_signal = exit_signal
  <2>1. trades'[n] = [signal |-> entry.signal, entry |-> entry.bar,
                      price |-> entry.price, quantity |-> quantity,
                      exit_signal |-> exit_signal, exit |-> index,
                      exit_price |-> price, reason |-> reason]
    BY ClosedTrade
  <2> QED
    BY <2>1
<1> HIDE DEF n
<1> QED
  BY <1>1, <1>2, <1>3 DEF Executed

(* Signals are executed on the bar after them. *)
LEMMA ExecutedInThePast ==
    ASSUME TypeInv, TradesInv, NEW n \in Nat, NEW type \in SignalType,
           Executed(<<n, type>>)
    PROVE  n < index
<1>1. index \in Int
  BY EngineAssumption DEF TypeInv, TypeOK
<1>2. CASE entry # None /\ entry.signal = n
  <2>1. entry \in Entry
    BY <1>2 DEF TypeInv, TypeOK
  <2> QED
    BY <1>1, <1>2, <2>1 DEF TradesInv, Entry
<1>3. ASSUME NEW i \in DOMAIN trades, trades[i].signal = n \/ trades[i].exit_signal = n
      PROVE  n < index
  <2>1. trades[i] \in Trade
    BY DEF TypeInv, TypeOK
  <2>2. trades[i].exit \in Nat /\ trades[i].entry \in Nat
    BY <2>1 DEF Trade
  <2>3. trades[i].exit <= index /\ trades[i].entry <= trades[i].exit
        /\ trades[i].entry = trades[i].signal + 1
    BY DEF TradesInv, TradesAreCoherent
  <2>4. CASE trades[i].signal = n
    BY <1>1, <2>2, <2>3, <2>4
  <2>5. CASE trades[i].exit_signal = n
    <3>1. trades[i].exit = n + 1
      BY <2>5, EngineAssumption DEF TradesInv
    <3> QED
      BY <1>1, <2>3, <3>1
  <2> QED
    BY <1>3, <2>4, <2>5
<1> QED
  BY <1>2, <1>3 DEF Executed

LEMMA SignalsStep == TypeInv /\ TradesInv /\ SignalsInv /\ [Next]_vars => SignalsInv'
<1> SUFFICES ASSUME TypeInv, TradesInv, SignalsInv, [Next]_vars PROVE SignalsInv'
  OBVIOUS
<1>0. /\ index \in Int
      /\ \A s \in signals : s[1] \in Nat /\ s[2] \in SignalType /\ s = <<s[1], s[2]>>
  BY SignalTypes, EngineAssumption DEF TypeInv, TypeOK
<1>1. ASSUME NEW b \in Bars, NEW types \in SUBSET SignalType, NextBar(b, types)
      PROVE  SignalsInv'
  <2>1. /\ index' = index + 1 /\ index' \in Nat /\ pc = "next"
        /\ signals' = signals \cup {<<index', type>> : type \in types}
        /\ pc' = IF index' > 0 THEN "open" ELSE "intraday"
        /\ ignored' = ignored /\ entry' = entry /\ trades' = trades
    BY <1>1, EngineAssumption DEF NextBar, book, TypeInv, TypeOK
  <2>2. ASSUME NEW s \in signals
        PROVE  /\ s[1] <= index' /\ (Handled(s)' <=> Handled(s))
               /\ Executed(s)' <=> Executed(s)
    <3>1. s[1] \in Nat /\ s[1] <= index
      BY <1>0, <2>2 DEF SignalsInv
    <3>2. Executed(s)' <=> Executed(s)
      BY <2>1 DEF Executed
    <3>3. CASE index' > 0
      BY <1>0, <2>1, <3>1, <3>2, <3>3 DEF Handled
    <3>4. CASE ~(index' > 0)
      BY <1>0, <2>1, <3>1, <3>4
    <3> QED
      BY <3>3, <3>4
  <2>3. PICK n \in Nat : n = index'
    BY <2>1
  <2>4. ASSUME NEW type \in types
        PROVE  /\ ~Handled(<<n, type>>)' /\ ~Executed(<<n, type>>)'
               /\ <<n, type>> \notin ignored
    <3>1. type \in SignalType
      OBVIOUS
    <3>2. ~Executed(<<n, type>>)
      BY <1>0, <2>1, <2>3, <3>1, ExecutedInThePast
    <3>3. ~Executed(<<n, type>>)'
      BY <2>1, <3>2 DEF Executed
    <3>4. ~Handled(<<n, type>>)'
      BY <2>1, <2>3 DEF Handled
    <3>5. <<n, type>> \notin signals
      BY <1>0, <2>1, <2>3 DEF SignalsInv
    <3> QED
      BY <3>3, <3>4, <3>5 DEF SignalsInv
  <2>5. ASSUME NEW s \in signals', s \notin signals
        PROVE  s[1] <= index' /\ ~Handled(s)' /\ ~Executed(s)' /\ s \notin ignored
    <3>1. PICK type \in types : s = <<n, type>>
      BY <2>1, <2>3, <2>5
    <3> QED
      BY <2>3, <2>4, <3>1
  <2> QED
    BY <2>1, <2>2, <2>5 DEF SignalsInv
<1>2. CASE OpeningRiskExit
  <2>1. /\ pc = "open" /\ pc' = "mark" /\ index' = index /\ signals' = signals
        /\ ignored' = ignored \cup {s \in signals : s[1] = index - 1}
        /\ quantity > 0
    BY <1>2 DEF OpeningRiskExit, AtRisk
  <2>2. \A s \in signals : Executed(s)' <=> Executed(s)
    <3>1. PICK reason \in RiskReason : close_position(bar.open, reason, None)
      BY <1>2 DEF OpeningRiskExit, RiskReason
    <3> QED
      BY <1>0, <2>1, <3>1, CloseExecutes, EngineAssumption
  <2>3. \A s \in signals : Handled(s)' <=> Handled(s) \/ s[1] = index - 1
    BY <1>0, <2>1 DEF Handled
  <2>4. \A s \in signals : s[1] = index - 1 => ~Handled(s)
    BY <1>0, <2>1 DEF Handled
  <2> QED
    BY <2>1, <2>2, <2>3, <2>4 DEF SignalsInv
<1>3. CASE ExecuteBuy
  <2>1. /\ pc = "buy" /\ pc' = "sell" /\ index' = index /\ signals' = signals
        /\ ignored' = ignored /\ entry = None /\ trades' = trades
        /\ entry' # None /\ entry'.signal = index - 1
    <3>1. entry' = [price |-> bar.open, bar |-> index, signal |-> index - 1,
                    stop |-> stop_price(bar.open), take |-> take_profit_price(bar.open)]
      BY <1>3 DEF ExecuteBuy
    <3>2. quantity' > 0 /\ TypeInv'
      BY <1>3, TypeStep DEF ExecuteBuy
    <3> QED
      BY <1>3, <3>1, <3>2 DEF ExecuteBuy, TypeInv, Shape
  <2>2. \A s \in signals : Executed(s)' <=> Executed(s) \/ (s[2] = "buy" /\ s[1] = index - 1)
    BY <2>1 DEF Executed
  <2>3. \A s \in signals : Handled(s)' <=> Handled(s) \/ (s[2] = "buy" /\ s[1] = index - 1)
    BY <1>0, <2>1 DEF Handled
  <2>4. \A s \in signals : s[1] = index - 1 => ~Handled(s)
    BY <1>0, <2>1 DEF Handled
  <2> QED
    BY <2>1, <2>2, <2>3, <2>4 DEF SignalsInv
<1>4. CASE IgnoreBuy
  <2>1. /\ pc = "buy" /\ pc' = "sell" /\ index' = index /\ signals' = signals
        /\ <<index - 1, "buy">> \in signals
        /\ ignored' = ignored \cup {<<index - 1, "buy">>} /\ entry' = entry /\ trades' = trades
    BY <1>4 DEF IgnoreBuy, Pending, book
  <2>2. \A s \in signals : Executed(s)' <=> Executed(s)
    BY <2>1 DEF Executed
  <2>3. \A s \in signals : Handled(s)' <=> Handled(s) \/ (s[2] = "buy" /\ s[1] = index - 1)
    BY <1>0, <2>1 DEF Handled
  <2>4. \A s \in signals : s[1] = index - 1 => ~Handled(s)
    BY <1>0, <2>1 DEF Handled
  <2>5. \A s \in signals : s = <<index - 1, "buy">> <=> s[2] = "buy" /\ s[1] = index - 1
    BY <1>0
  <2> QED
    BY <2>1, <2>2, <2>3, <2>4, <2>5 DEF SignalsInv
<1>5. CASE NoBuy
  <2>1. /\ pc = "buy" /\ pc' = "sell" /\ index' = index /\ signals' = signals
        /\ <<index - 1, "buy">> \notin signals
        /\ ignored' = ignored /\ entry' = entry /\ trades' = trades
    BY <1>5 DEF NoBuy, Pending, book
  <2>2. \A s \in signals : Executed(s)' <=> Executed(s)
    BY <2>1 DEF Executed
  <2>3. \A s \in signals : ~(s[2] = "buy" /\ s[1] = index - 1)
    BY <1>0, <2>1
  <2>4. \A s \in signals : Handled(s)' <=> Handled(s)
    BY <1>0, <2>1, <2>3 DEF Handled
  <2> QED
    BY <2>1, <2>2, <2>4 DEF SignalsInv
<1>6. CASE ExecuteSell
  <2>1. /\ pc = "sell" /\ pc' = "intraday" /\ index' = index /\ signals' = signals
        /\ ignored' = ignored /\ quantity > 0
        /\ close_position(bar.open, "strategy_exit", index - 1)
    BY <1>6 DEF ExecuteSell
  <2>2. \A s \in signals : Executed(s)' <=> Executed(s) \/ (s[2] # "buy" /\ s[1] = index - 1)
    BY <2>1, CloseExecutes
  <2>3. \A s \in signals : Handled(s)' <=> Handled(s) \/ (s[2] # "buy" /\ s[1] = index - 1)
    BY <1>0, <2>1 DEF Handled
  <2>4. \A s \in signals : s[2] # "buy" /\ s[1] = index - 1 => ~Handled(s)
    BY <1>0, <2>1 DEF Handled
  <2> QED
    BY <2>1, <2>2, <2>3, <2>4 DEF SignalsInv
<1>7. CASE IgnoreSell
  <2>1. /\ pc = "sell" /\ pc' = "intraday" /\ index' = index /\ signals' = signals
        /\ <<index - 1, "sell">> \in signals
        /\ ignored' = ignored \cup {<<index - 1, "sell">>} /\ entry' = entry /\ trades' = trades
    BY <1>7 DEF IgnoreSell, Pending, book
  <2>2. \A s \in signals : Executed(s)' <=> Executed(s)
    BY <2>1 DEF Executed
  <2>3. \A s \in signals : Handled(s)' <=> Handled(s) \/ (s[2] # "buy" /\ s[1] = index - 1)
    BY <1>0, <2>1 DEF Handled
  <2>4. \A s \in signals : s[2] # "buy" /\ s[1] = index - 1 => ~Handled(s)
    BY <1>0, <2>1 DEF Handled
  <2>5. \A s \in signals : s = <<index - 1, "sell">> <=> s[2] # "buy" /\ s[1] = index - 1
    BY <1>0 DEF SignalType
  <2> QED
    BY <2>1, <2>2, <2>3, <2>4, <2>5 DEF SignalsInv
<1>8. CASE NoSell
  <2>1. /\ pc = "sell" /\ pc' = "intraday" /\ index' = index /\ signals' = signals
        /\ <<index - 1, "sell">> \notin signals
        /\ ignored' = ignored /\ entry' = entry /\ trades' = trades
    BY <1>8 DEF NoSell, Pending, book
  <2>2. \A s \in signals : Executed(s)' <=> Executed(s)
    BY <2>1 DEF Executed
  <2>3. \A s \in signals : ~(s[2] # "buy" /\ s[1] = index - 1)
    BY <1>0, <2>1 DEF SignalType
  <2>4. \A s \in signals : Handled(s)' <=> Handled(s)
    BY <1>0, <2>1, <2>3 DEF Handled
  <2> QED
    BY <2>1, <2>2, <2>4 DEF SignalsInv
<1>9. CASE IntradayRiskExit \/ Finish
  <2>1. /\ pc \in {"intraday", "next"} /\ pc' \in {"mark", "done"} /\ index' = index
        /\ signals' = signals /\ ignored' = ignored
    BY <1>9 DEF IntradayRiskExit, Finish
  <2>2. \A s \in signals : Executed(s)' <=> Executed(s)
    <3>1. CASE UNCHANGED book
      BY <3>1 DEF book, Executed
    <3>2. ASSUME quantity > 0, NEW price, NEW reason, close_position(price, reason, None)
          PROVE  \A s \in signals : Executed(s)' <=> Executed(s)
      BY <1>0, <3>2, CloseExecutes, EngineAssumption
    <3>3. CASE quantity > 0 /\ ~UNCHANGED book
      <4>1. \E price, reason : close_position(price, reason, None)
        BY <1>9, <3>3 DEF IntradayRiskExit, Finish
      <4> QED
        BY <3>2, <3>3, <4>1
    <3> QED
      BY <1>9, <3>1, <3>3 DEF IntradayRiskExit, Finish
  <2>3. \A s \in signals : Handled(s)' <=> Handled(s)
    BY <2>1 DEF Handled
  <2> QED
    BY <2>1, <2>2, <2>3 DEF SignalsInv
<1>10. CASE NoOpeningRiskExit \/ NoIntradayRiskExit \/ MarkToClose \/ UNCHANGED vars
  <2>1. /\ index' = index /\ signals' = signals /\ ignored' = ignored
        /\ entry' = entry /\ trades' = trades
        /\ \/ pc = "open" /\ pc' = "buy"
           \/ pc \in {"intraday", "mark"} /\ pc' \in {"mark", "next"}
           \/ pc' = pc
    BY <1>10 DEF NoOpeningRiskExit, NoIntradayRiskExit, MarkToClose, vars, book
  <2>2. \A s \in signals : (Executed(s)' <=> Executed(s)) /\ (Handled(s)' <=> Handled(s))
    BY <2>1 DEF Executed, Handled
  <2> QED
    BY <2>1, <2>2 DEF SignalsInv
<1> QED
  BY <1>1, <1>2, <1>3, <1>4, <1>5, <1>6, <1>7, <1>8, <1>9, <1>10 DEF Next

(* The report of a backtest leaves no signal out: each one of a bar that   *)
(* has a successor was executed or is among the ignored ones, never both.  *)
THEOREM EverySignalAccountedFor == Spec => []SignalsAccountedFor
<1>1. Init => SignalsInv
  BY DEF Init, SignalsInv
<1>2. TypeInv /\ SignalsInv => SignalsAccountedFor
  <2> SUFFICES ASSUME TypeInv, SignalsInv, pc = "next", NEW s \in signals, s[1] < index
               PROVE  s \in ignored <=> ~Executed(s)
    BY DEF SignalsAccountedFor, SignalsInv
  <2>1. Handled(s)
    <3>1. s[1] \in Nat /\ index \in Int
      BY SignalTypes, EngineAssumption DEF TypeInv, TypeOK
    <3> QED
      BY <3>1 DEF Handled
  <2> QED
    BY <2>1 DEF SignalsInv
<1> QED
  BY <1>1, <1>2, SignalsStep, TradesInvariant, TypeInvariant, PTL DEF Spec

-----------------------------------------------------------------------------
(* Fills.  A position that was at risk at the open of a bar has passed the *)
(* opening check, so a level the bar reaches later lies in its range.      *)
OpeningInv ==
    pc \in {"buy", "sell", "intraday"} /\ AtRisk =>
        ~StopHit(bar.open) /\ ~TakeHit(bar.open)

LEMMA OpeningStep == TypeInv /\ TradesInv /\ OpeningInv /\ [Next]_vars => OpeningInv'
<1> SUFFICES ASSUME TypeInv, TradesInv, OpeningInv, [Next]_vars PROVE OpeningInv'
  OBVIOUS
<1>1. ASSUME NEW b \in Bars, NEW types \in SUBSET SignalType, NextBar(b, types)
      PROVE  OpeningInv'
  <2>1. /\ index' = index + 1 /\ index \in Int /\ entry' = entry
        /\ pc' = IF index' > 0 THEN "open" ELSE "intraday"
    BY <1>1, EngineAssumption DEF NextBar, book, TypeInv, TypeOK
  <2>2. entry # None => entry.bar \in Nat /\ entry.bar <= index
    BY DEF TypeInv, TypeOK, Entry, TradesInv
  <2> QED
    BY <2>1, <2>2 DEF OpeningInv, AtRisk
<1>2. CASE OpeningRiskExit \/ IntradayRiskExit \/ NoIntradayRiskExit \/ MarkToClose \/ Finish
  BY <1>2 DEF OpeningRiskExit, IntradayRiskExit, NoIntradayRiskExit, MarkToClose, Finish,
              OpeningInv
<1>3. CASE NoOpeningRiskExit
  BY <1>3 DEF NoOpeningRiskExit, book, OpeningInv, AtRisk, StopHit, TakeHit
<1>4. CASE ExecuteBuy
  <2>1. entry' = [price |-> bar.open, bar |-> index, signal |-> index - 1,
                  stop |-> stop_price(bar.open), take |-> take_profit_price(bar.open)]
        /\ index' = index /\ index \in Int
    BY <1>4, EngineAssumption DEF ExecuteBuy, TypeInv, TypeOK
  <2>2. entry'.bar = index
    BY <2>1
  <2> QED
    BY <2>1, <2>2 DEF OpeningInv, AtRisk
<1>5. CASE ExecuteSell
  BY <1>5 DEF ExecuteSell, close_position, OpeningInv, AtRisk
<1>6. CASE IgnoreBuy \/ NoBuy \/ IgnoreSell \/ NoSell \/ UNCHANGED vars
  <2>1. /\ UNCHANGED <<index, bar, quantity, entry>>
        /\ pc' \in {"buy", "sell", "intraday"} => pc \in {"buy", "sell", "intraday"}
    BY <1>6 DEF IgnoreBuy, NoBuy, IgnoreSell, NoSell, vars, book
  <2> QED
    BY <2>1 DEF OpeningInv, AtRisk, StopHit, TakeHit
<1> QED
  BY <1>1, <1>2, <1>3, <1>4, <1>5, <1>6 DEF Next

LEMMA FilledStep ==
    ASSUME TypeInv, OpeningInv, [Next]_vars, Len(trades') > Len(trades)
    PROVE  LET t == trades'[Len(trades')]
           IN  bar.low <= t.exit_price /\ t.exit_price <= bar.high
<1>0. Len(trades) \in Nat
  BY DEF TypeInv, TypeOK
<1>1. ASSUME NEW price, NEW reason, NEW exit_signal,
             close_position(price, reason, exit_signal)
      PROVE  trades'[Len(trades')].exit_price = price
  <2>1. /\ Len(trades') = Len(trades) + 1
        /\ trades'[Len(trades) + 1] = [signal |-> entry.signal, entry |-> entry.bar,
                                price |-> entry.price, quantity |-> quantity,
                                exit_signal |-> exit_signal, exit |-> index,
                                exit_price |-> price, reason |-> reason]
    BY <1>1, ClosedTrade
  <2> QED
    BY <2>1
<1>2. CASE trades' = trades
  BY <1>0, <1>2
<1>3. ASSUME index >= 0
      PROVE  /\ bar.open \in Nat /\ bar.close \in Nat /\ bar.high \in Nat /\ bar.low \in Nat
             /\ bar.low <= bar.open /\ bar.open <= bar.high
             /\ bar.low <= bar.close /\ bar.close <= bar.high
  BY <1>3, ExitPrices, EngineAssumption DEF TypeInv, Shape
<1>4. CASE OpeningRiskExit \/ ExecuteSell
  <2>1. index >= 0 /\ \E reason, exit_signal : close_position(bar.open, reason, exit_signal)
    <3>1. pc # "next"
      BY <1>4 DEF OpeningRiskExit, ExecuteSell
    <3> QED
      BY <1>4, <3>1 DEF OpeningRiskExit, ExecuteSell, TypeInv, Shape
  <2> QED
    BY <1>1, <1>3, <2>1
<1>5. CASE IntradayRiskExit
  <2>1. index >= 0 /\ pc = "intraday" /\ AtRisk /\ entry # None
    BY <1>5 DEF IntradayRiskExit, TypeInv, Shape, AtRisk
  <2>2. /\ ~StopHit(bar.open) /\ ~TakeHit(bar.open)
        /\ entry.stop \in Nat \cup {None} /\ entry.take \in Nat \cup {None}
    BY <2>1, ExitPrices DEF OpeningInv
  <2>3. CASE StopHit(bar.low) /\ close_position(entry.stop, "stop_loss", None)
    BY <1>1, <1>3, <2>1, <2>2, <2>3 DEF StopHit
  <2>4. CASE TakeHit(bar.high) /\ close_position(entry.take, "take_profit", None)
    BY <1>1, <1>3, <2>1, <2>2, <2>4 DEF TakeHit
  <2> QED
    BY <1>5, <2>3, <2>4 DEF IntradayRiskExit
<1>6. CASE Finish
  <2>1. index >= 0 /\ (trades' = trades \/ close_position(bar.close, "final_liquidation", None))
    BY <1>6 DEF Finish, book
  <2> QED
    BY <1>1, <1>2, <1>3, <2>1
<1>7. CASE ~(OpeningRiskExit \/ ExecuteSell \/ IntradayRiskExit \/ Finish)
  <2>1. trades' = trades
    BY <1>7 DEF Next, NextBar, NoOpeningRiskExit, ExecuteBuy, IgnoreBuy, NoBuy, IgnoreSell,
                NoSell, NoIntradayRiskExit, MarkToClose, vars, book
  <2> QED
    BY <1>2, <2>1
<1> QED
  BY <1>4, <1>5, <1>6, <1>7

(* Every trade is closed at a price the market traded at on that bar, be   *)
(* it the open, a level, or the last close.                                *)
THEOREM AlwaysFilledWithinTheBar == Spec => FilledWithinTheBar
<1>1. Init => OpeningInv
  BY DEF Init, OpeningInv
<1>2. TypeInv /\ OpeningInv /\ [Next]_vars =>
        [Len(trades') > Len(trades) =>
            LET t == trades'[Len(trades')]
            IN  bar.low <= t.exit_price /\ t.exit_price <= bar.high]_vars
  BY FilledStep
<1> QED
  BY <1>1, <1>2, OpeningStep, TradesInvariant, TypeInvariant, PTL DEF Spec, FilledWithinTheBar

-----------------------------------------------------------------------------
(* Where trades come from: an entry and a strategy exit from a signal, a   *)
(* profit from a trade, a liquidation from the end of the series.          *)
SourcesInv ==
    /\ entry # None => <<entry.signal, "buy">> \in signals
    /\ \A i \in DOMAIN trades :
          /\ <<trades[i].signal, "buy">> \in signals
          /\ trades[i].reason = "strategy_exit" => <<trades[i].exit_signal, "sell">> \in signals
          /\ trades[i].reason = "final_liquidation" => pc = "done"
    /\ trades = << >> => realized = 0

LEMMA CloseSources ==
    ASSUME TypeInv, SourcesInv, quantity > 0, NEW price, NEW reason, NEW exit_signal,
           close_position(price, reason, exit_signal), signals' = signals, pc # "done",
           reason = "strategy_exit" => <<exit_signal, "sell">> \in signals,
           reason = "final_liquidation" => pc' = "done"
    PROVE  SourcesInv'
<1>1. entry # None /\ entry' = None
  BY DEF TypeInv, Shape, close_position
<1> DEFINE n == Len(trades) + 1
<1>2. /\ DOMAIN trades' = 1..n /\ Len(trades') = n /\ Len(trades) \in Nat
      /\ \A i \in DOMAIN trades : trades'[i] = trades[i]
      /\ \A i \in 1..n : i \in DOMAIN trades \/ i = n
  BY ClosedTrade
<1>3. /\ trades'[n].signal = entry.signal /\ trades'[n].exit_signal = exit_signal
      /\ trades'[n].reason = reason
  <2>1. trades'[n] = [signal |-> entry.signal, entry |-> entry.bar,
                      price |-> entry.price, quantity |-> quantity,
                      exit_signal |-> exit_signal, exit |-> index,
                      exit_price |-> price, reason |-> reason]
    BY ClosedTrade
  <2> QED
    BY <2>1
<1>4. trades' # << >>
  BY <1>2
<1> HIDE DEF n
<1> QED
  BY <1>1, <1>2, <1>3, <1>4 DEF SourcesInv

LEMMA SourcesStep == TypeInv /\ SourcesInv /\ [Next]_vars => SourcesInv'
<1> SUFFICES ASSUME TypeInv, SourcesInv, [Next]_vars PROVE SourcesInv'
  OBVIOUS
<1>1. ASSUME NEW b \in Bars, NEW types \in SUBSET SignalType, NextBar(b, types)
      PROVE  SourcesInv'
  <2>1. /\ signals \subseteq signals' /\ pc # "done"
        /\ entry' = entry /\ trades' = trades /\ realized' = realized
    BY <1>1 DEF NextBar, book
  <2> QED
    BY <2>1 DEF SourcesInv
<1>2. CASE OpeningRiskExit \/ IntradayRiskExit
  <2>1. /\ quantity > 0 /\ signals' = signals /\ pc # "done"
        /\ \E price : \E reason \in RiskReason : close_position(price, reason, None)
    BY <1>2 DEF OpeningRiskExit, IntradayRiskExit, AtRisk, RiskReason
  <2>2. PICK price, reason : reason \in RiskReason /\ close_position(price, reason, None)
    BY <2>1
  <2>3. reason # "strategy_exit" /\ reason # "final_liquidation"
    BY <2>2 DEF RiskReason
  <2> QED
    BY <2>1, <2>2, <2>3, CloseSources
<1>3. CASE ExecuteBuy
  <2>1. /\ entry' = [price |-> bar.open, bar |-> index, signal |-> index - 1,
                     stop |-> stop_price(bar.open), take |-> take_profit_price(bar.open)]
        /\ <<index - 1, "buy">> \in signals /\ pc # "done"
        /\ signals' = signals /\ trades' = trades /\ realized' = realized
    BY <1>3 DEF ExecuteBuy, Pending
  <2>2. entry'.signal = index - 1
    BY <2>1
  <2> QED
    BY <2>1, <2>2 DEF SourcesInv
<1>4. CASE ExecuteSell
  <2>1. /\ quantity > 0 /\ signals' = signals /\ <<index - 1, "sell">> \in signals /\ pc # "done"
        /\ close_position(bar.open, "strategy_exit", index - 1)
    BY <1>4 DEF ExecuteSell, Pending
  <2> QED
    BY <2>1, CloseSources
<1>5. CASE Finish
  <2>1. signals' = signals /\ pc' = "done" /\ pc # "done"
    BY <1>5 DEF Finish
  <2>2. CASE quantity > 0 /\ close_position(bar.close, "final_liquidation", None)
    BY <2>1, <2>2, CloseSources
  <2>3. CASE UNCHANGED book
    BY <2>1, <2>3 DEF book, SourcesInv
  <2> QED
    BY <1>5, <2>2, <2>3 DEF Finish
<1>6. CASE \/ NoOpeningRiskExit \/ IgnoreBuy \/ NoBuy \/ IgnoreSell \/ NoSell
           \/ NoIntradayRiskExit \/ MarkToClose \/ UNCHANGED vars
  <2>1. /\ entry' = entry /\ trades' = trades /\ signals' = signals /\ realized' = realized
        /\ pc = "done" => pc' = "done"
    BY <1>6 DEF NoOpeningRiskExit, IgnoreBuy, NoBuy, IgnoreSell, NoSell,
                NoIntradayRiskExit, MarkToClose, vars, book
  <2> QED
    BY <2>1 DEF SourcesInv
<1> QED
  BY <1>1, <1>2, <1>3, <1>4, <1>5, <1>6 DEF Next

(* Every entry and every strategy exit answers a signal the strategy gave. *)
THEOREM TradesHaveSources == Spec => []SourcesInv
<1>1. Init => SourcesInv
  BY DEF Init, SourcesInv
<1> QED
  BY <1>1, SourcesStep, TypeInvariant, PTL DEF Spec

=============================================================================
