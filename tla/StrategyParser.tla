---------------------------- MODULE StrategyParser ----------------------------
(***************************************************************************)
(* From a description to a specification: OpenAIStrategyParser and its     *)
(* normalisation (services/strategy_parser.py), the checks of              *)
(* services/strategy_semantics.py, and the endpoint that saves what was    *)
(* reviewed (api/routes/strategies.py).  The specification is then         *)
(* evaluated on a growing series by StrategyCompiler.                      *)
(*                                                                         *)
(* A text is a record of what the code's patterns find in it.  A draft is  *)
(* what the provider returns, with None for what it left open; the fields  *)
(* that have only one legal value are either given or not.  A field of the *)
(* review is named by its path.                                            *)
(***************************************************************************)
EXTENDS StrategyCompiler

CONSTANTS
    Texts,          \* the descriptions
    Drafts,         \* what the provider may make of one
    MaxPeriod,      \* the largest period, 1000 in the code
    CrossShort, CrossLong,  \* the periods of a golden or death cross, 50 and 200
    MaxRiskPercent, \* MAX_RISK_PERCENT
    MaxRetries      \* how often RQ retries a provider that timed out

ASSUME ParserAssumption ==
    /\ MaxPeriod \in Nat /\ MaxRetries \in Nat /\ MaxRiskPercent \in Nat
    /\ CrossShort \in 1..MaxPeriod /\ CrossLong \in 1..MaxPeriod
    /\ 1..MaxPeriod \subseteq Periods

VARIABLES
    outcome,    \* "parsing", "parsed", "rejected", "failed", "saved" or "refused"
    text, draft,
    result,     \* ParsedStrategyResult
    attempt

parserVars == <<outcome, text, draft, result, attempt>>
allVars == <<vars, parserVars>>

FixedFields == {"symbol", "interval", "direction", "position_size_percent", "signal_execution"}
Rules == {"entry", "exit"}
Sides == {"left", "right"}

(* What the patterns can find in a text and what the provider's schema     *)
(* admits.  The patterns for a control's percentage contain its phrase.    *)
Control == [values : SUBSET Int, phrase : BOOLEAN]
Text == [blank : BOOLEAN, unsupported : BOOLEAN, ambiguous : BOOLEAN,
         stop_loss : Control, take_profit : Control, moving_average : BOOLEAN,
         days : BOOLEAN, crossover : (Nat \X Nat) \cup {None}, golden : BOOLEAN, death : BOOLEAN]
DraftOperand ==
    [type : {"indicator", "price", "constant"}, name : {"sma", "ema", None},
     source : {"close", None}, period : Int \cup {None}, value : Levels \cup {None}]
DraftCondition ==
    [left : DraftOperand, operator : Operator \cup {None}, right : DraftOperand]
Draft == [given : SUBSET FixedFields, entry : DraftCondition \cup {None},
          exit : DraftCondition \cup {None}]

ASSUME DraftAssumption ==
    /\ Texts \subseteq Text /\ Drafts \subseteq Draft
    /\ \A t \in Texts : \A control \in {t.stop_loss, t.take_profit} :
           control.values # {} => control.phrase
    /\ None \notin {"sma", "ema"} /\ None \notin Operator /\ None \notin DraftCondition

ParserInit ==
    /\ Init
    /\ outcome = "parsing" /\ text \in Texts /\ draft = None /\ result = None /\ attempt = 1

-----------------------------------------------------------------------------
(* strategy_semantics.py *)

validate_risk_percent(value) == value # None => value > 0 /\ value <= MaxRiskPercent

(* The one percentage the text gives for a control, if it gives one. *)
extract_control_percent(control) ==
    IF control.values = {} THEN None ELSE CHOOSE v \in control.values : TRUE

ControlIsClear(control) ==
    /\ control.values = {} => ~control.phrase
    /\ \A v, w \in control.values : v = w
    /\ validate_risk_percent(extract_control_percent(control))

extract_risk_controls(t) == ControlIsClear(t.stop_loss) /\ ControlIsClear(t.take_profit)

has_resolvable_moving_average(t) == t.days \/ t.crossover # None \/ t.golden \/ t.death

validate_strategy_text(t) ==
    /\ ~t.unsupported /\ ~t.ambiguous
    /\ extract_risk_controls(t)
    /\ t.moving_average => has_resolvable_moving_average(t)

find_normalization_hint(t) ==
    CASE t.golden -> [short |-> CrossShort, long |-> CrossLong, bullish |-> TRUE]
      [] t.death /\ ~t.golden -> [short |-> CrossShort, long |-> CrossLong, bullish |-> FALSE]
      [] ~t.death /\ ~t.golden /\ t.crossover # None ->
            [short |-> t.crossover[1], long |-> t.crossover[2], bullish |-> TRUE]
      [] OTHER -> None

validate_operand(o) == o.type \in {"sma", "ema"} => o.period >= 1 /\ o.period <= MaxPeriod

validate_condition(c) == validate_operand(c.left) /\ validate_operand(c.right)

(* The symbol, interval and execution settings are fixed by the schema. *)
validate_strategy_semantics(spec) ==
    /\ validate_condition(spec.entry) /\ validate_condition(spec.exit)
    /\ validate_risk_percent(spec.stop_loss_percent)
    /\ validate_risk_percent(spec.take_profit_percent)

-----------------------------------------------------------------------------
(* strategy_parser.py *)

UnnamedIndicator(period) ==
    [type |-> "indicator", name |-> None, source |-> None, period |-> period, value |-> None]

crossover_draft(hint, operator) ==
    [left |-> UnnamedIndicator(hint.short), operator |-> operator,
     right |-> UnnamedIndicator(hint.long)]

infer_shorthand_pair(hint) ==
    LET bullish == crossover_draft(hint, "crosses_above")
        bearish == crossover_draft(hint, "crosses_below")
    IN  IF hint.bullish THEN [entry |-> bullish, exit |-> bearish]
                        ELSE [entry |-> bearish, exit |-> bullish]

(* Mutant: the operands are exchanged too, which is the same crossing. *)
opposite_exchanged(c) ==
    [left |-> c.right, right |-> c.left,
     operator |-> CHOOSE o \in Crossing : o # c.operator]

opposite_crossover_draft(c) ==
    [c EXCEPT !.operator = CHOOSE o \in Crossing : o # c.operator]

(* Both rules, the missing ones inferred; None where that is impossible. *)
CompletedRules(d, t) ==
    LET hint == find_normalization_hint(t)
        Opposite(c) == IF c.operator \in Crossing THEN opposite_crossover_draft(c) ELSE None
    IN  IF d.entry = None /\ d.exit = None
        THEN IF hint = None THEN [entry |-> None, exit |-> None] ELSE infer_shorthand_pair(hint)
        ELSE [entry |-> IF d.entry = None THEN Opposite(d.exit) ELSE d.entry,
              exit |-> IF d.exit = None THEN Opposite(d.entry) ELSE d.exit]

AssumedRules(d) ==
    IF d.entry = None /\ d.exit = None THEN {<<"entry_and_exit">>}
    ELSE {<<r>> : r \in {x \in Rules : d[x] = None}}

(* normalize_operand: what it refuses, what it returns, what it assumes    *)
(* and what it sets by default.                                            *)
OperandIsComplete(o) ==
    /\ o.type = "indicator" => o.period # None
    /\ o.type = "constant" => o.value # None

normalize_operand(o) ==
    CASE o.type = "indicator" ->
            [type |-> IF o.name = None THEN "sma" ELSE o.name, period |-> o.period]
      [] o.type = "price"     -> [type |-> "price"]
      [] o.type = "constant"  -> [type |-> "constant", value |-> o.value]

AssumedNames(c, rule) ==
    {<<rule, s, "name">> : s \in {x \in Sides : c[x].type = "indicator" /\ c[x].name = None}}

(* Mutant: the source of a price is filled in without saying so. *)
DefaultSourcesOfIndicators(c, rule) ==
    {<<rule, s, "source">> : s \in {x \in Sides : c[x].type = "indicator" /\ c[x].source = None}}

DefaultSources(c, rule) ==
    {<<rule, s, "source">> : s \in {x \in Sides : c[x].type # "constant" /\ c[x].source = None}}

normalize_condition(c) ==
    [left |-> normalize_operand(c.left), operator |-> c.operator,
     right |-> normalize_operand(c.right)]

ConditionIsComplete(c) ==
    c.operator # None /\ OperandIsComplete(c.left) /\ OperandIsComplete(c.right)

(* Mutant: decided before the conditions are normalised. *)
confirmation_of_rules(rules, names) == rules # {}

requires_confirmation(rules, names) == rules \cup names # {}

(* The result, or None for a StrategyValidationError. *)
normalize_strategy_draft(d, t) ==
    LET drafts == CompletedRules(d, t)
        rules == AssumedRules(d)
        names == UNION {AssumedNames(drafts[r], r) : r \in Rules}
        spec == [entry |-> normalize_condition(drafts.entry),
                 exit |-> normalize_condition(drafts.exit),
                 stop_loss_percent |-> extract_control_percent(t.stop_loss),
                 take_profit_percent |-> extract_control_percent(t.take_profit)]
    IN  IF /\ \A r \in Rules : drafts[r] # None /\ ConditionIsComplete(drafts[r])
           /\ extract_risk_controls(t)
           /\ validate_strategy_semantics(spec)
        THEN [specification |-> spec,
              assumptions |-> rules \cup names,
              defaults_applied |-> {<<f>> : f \in FixedFields \ d.given}
                                       \cup UNION {DefaultSources(drafts[r], r) : r \in Rules},
              requires_confirmation |-> requires_confirmation(rules, names)]
        ELSE None

-----------------------------------------------------------------------------
(* run_preview_job's call of parse. *)

RejectText ==
    /\ outcome = "parsing"
    /\ text.blank \/ ~validate_strategy_text(text)
    /\ outcome' = "rejected"
    /\ UNCHANGED <<vars, text, draft, result, attempt>>

(* The provider is asked only about a text that passed. *)
Asked == outcome = "parsing" /\ ~text.blank /\ validate_strategy_text(text)

ProviderAnswers(d) ==
    /\ Asked
    /\ draft' = d
    /\ result' = normalize_strategy_draft(d, text)
    /\ outcome' = IF result' = None THEN "rejected" ELSE "parsed"
    /\ UNCHANGED <<vars, text, attempt>>

(* StrategyProviderTimeoutError is the one failure RQ retries. *)
ProviderTimesOut ==
    /\ Asked
    /\ \/ attempt <= MaxRetries /\ attempt' = attempt + 1 /\ UNCHANGED outcome
       \/ attempt > MaxRetries /\ outcome' = "failed" /\ UNCHANGED attempt
    /\ UNCHANGED <<vars, text, draft, result>>

(* A refusal, malformed output, another error, or no key or model. *)
ProviderFails ==
    /\ Asked
    /\ outcome' = "failed"
    /\ UNCHANGED <<vars, text, draft, result, attempt>>

(* validate_confirmation_metadata and save_confirmed_strategy, on the      *)
(* review the browser was sent and with the box ticked.  The series plays  *)
(* no part in it.                                                          *)
SaveIsAccepted(r) ==
    /\ r.requires_confirmation <=> r.assumptions # {}
    /\ validate_strategy_semantics(r.specification)

save_confirmed_strategy ==
    /\ outcome = "parsed" /\ closes = << >>
    /\ outcome' = IF SaveIsAccepted(result) THEN "saved" ELSE "refused"
    /\ UNCHANGED <<vars, text, draft, result, attempt>>

(* A bar of the series on which the parsed strategy is backtested. *)
Backtest(close) ==
    /\ outcome = "parsed"
    /\ NextBar(close)
    /\ UNCHANGED parserVars

ParserNext ==
    \/ RejectText
    \/ \E d \in Drafts : ProviderAnswers(d)
    \/ ProviderTimesOut \/ ProviderFails
    \/ save_confirmed_strategy
    \/ \E close \in Closes : Backtest(close)

ParserSpec == ParserInit /\ [][ParserNext]_allVars

-----------------------------------------------------------------------------
(* The review tells the user exactly what was not in the draft: a rule or  *)
(* an average type that was inferred is an assumption to be confirmed, any *)
(* other field that was filled in a default, and everything else is as the *)
(* provider said it.  A risk control is in force exactly if the text       *)
(* mentions it, with the only percentage the text gives.                   *)
OperandIsFaithful(rule, side) ==
    LET said == draft[rule][side]
        got == result.specification[rule][side]
    IN  /\ <<rule, side, "name">> \in result.assumptions
               <=> said.type = "indicator" /\ said.name = None
        /\ <<rule, side, "source">> \in result.defaults_applied
               <=> said.type # "constant" /\ said.source = None
        /\ CASE said.type = "indicator" -> /\ got.period = said.period
                                           /\ said.name # None => got.type = said.name
             [] said.type = "constant"  -> got = [type |-> "constant", value |-> said.value]
             [] said.type = "price"     -> got.type = "price"
ControlIsFaithful(control, percent) ==
    IF control.phrase THEN control.values = {percent} ELSE percent = None
DisclosesWhatItInfers ==
    outcome = "parsed" =>
        /\ \A f \in FixedFields : <<f>> \in result.defaults_applied <=> f \notin draft.given
        /\ \A r \in Rules :
              IF draft[r] = None
              THEN result.assumptions \cap {<<r>>, <<"entry_and_exit">>} # {}
              ELSE /\ <<r>> \notin result.assumptions
                   /\ result.specification[r].operator = draft[r].operator
                   /\ \A s \in Sides : OperandIsFaithful(r, s)
        /\ ControlIsFaithful(text.stop_loss, result.specification.stop_loss_percent)
        /\ ControlIsFaithful(text.take_profit, result.specification.take_profit_percent)

(* What was previewed can be saved: the endpoint's checks, which trust     *)
(* nothing the browser sends, accept every review the parser produces.     *)
PreviewedCanBeSaved == outcome # "refused"

(* An inferred rule undoes the one it was inferred from: once that has     *)
(* fired, the inferred one fires at the latest on the bar on which the two *)
(* operands are strictly the other way round, also if they were equal for  *)
(* a while in between.                                                     *)
Undoes(rule, other) ==
    \A i, j \in DOMAIN closes :
        LET left == evaluate_operand(other.left, j)
            right == evaluate_operand(other.right, j)
        IN  /\ i < j /\ evaluate_condition(other, i)
            /\ IF other.operator = "crosses_above" THEN left < right ELSE left > right
            => \E k \in (i + 1)..j : evaluate_condition(rule, k)
InferredRuleUndoes ==
    outcome = "parsed" =>
        /\ draft.exit = None => Undoes(result.specification.exit, result.specification.entry)
        /\ draft.entry = None => Undoes(result.specification.entry, result.specification.exit)
=============================================================================
