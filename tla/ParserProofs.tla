---------------------------- MODULE ParserProofs ----------------------------
(***************************************************************************)
(* Theorems about StrategyParser, for all texts, all drafts the provider's *)
(* schema admits and every series: the review discloses what was inferred, *)
(* it can be saved, and an inferred rule undoes the one it comes from.     *)
(* What is known of the compiler is taken from PreviewProofs.              *)
(***************************************************************************)
EXTENDS StrategyParser, PreviewProofs

-----------------------------------------------------------------------------
(* What normalize_strategy_draft returns. *)

LEMMA OperandNormalized ==
    ASSUME NEW o \in DraftOperand, OperandIsComplete(o), validate_operand(normalize_operand(o))
    PROVE  normalize_operand(o) \in Operand
<1>1. o.type \in {"indicator", "price", "constant"}
  BY DEF DraftOperand
<1>2. CASE o.type = "indicator"
  <2>1. PICK name \in {"sma", "ema"} : name = IF o.name = None THEN "sma" ELSE o.name
    BY DEF DraftOperand
  <2>2. o.period \in Int
    BY <1>2 DEF OperandIsComplete, DraftOperand
  <2>3. normalize_operand(o) = [type |-> name, period |-> o.period]
    BY <1>2, <2>1 DEF normalize_operand
  <2>4. o.period >= 1 /\ o.period <= MaxPeriod
    BY <2>1, <2>3 DEF validate_operand
  <2>5. o.period \in Periods
    BY <2>2, <2>4, ParserAssumption
  <2> QED
    BY <2>1, <2>3, <2>5 DEF Operand
<1>3. CASE o.type = "price"
  BY <1>3 DEF normalize_operand, Operand
<1>4. CASE o.type = "constant"
  <2>1. o.value \in Levels
    BY <1>4 DEF OperandIsComplete, DraftOperand
  <2> QED
    BY <1>4, <2>1 DEF normalize_operand, Operand
<1> QED
  BY <1>1, <1>2, <1>3, <1>4

LEMMA ConditionNormalized ==
    ASSUME NEW c \in DraftCondition, ConditionIsComplete(c),
           validate_condition(normalize_condition(c))
    PROVE  normalize_condition(c) \in Condition
<1>1. c.left \in DraftOperand /\ c.right \in DraftOperand /\ c.operator \in Operator
  BY DEF DraftCondition, ConditionIsComplete
<1>2. PICK l, r : l = normalize_operand(c.left) /\ r = normalize_operand(c.right)
  OBVIOUS
<1>3. normalize_condition(c) = [left |-> l, operator |-> c.operator, right |-> r]
  BY <1>2 DEF normalize_condition
<1>4. validate_operand(l) /\ validate_operand(r)
  BY <1>3 DEF validate_condition
<1>5. l \in Operand /\ r \in Operand
  BY <1>1, <1>2, <1>4, OperandNormalized DEF ConditionIsComplete
<1> QED
  BY <1>1, <1>3, <1>5 DEF Condition

LEMMA HintType ==
    ASSUME NEW t \in Texts, find_normalization_hint(t) # None
    PROVE  find_normalization_hint(t) \in [short : Nat, long : Nat, bullish : BOOLEAN]
<1>1. t \in Text
  BY DraftAssumption
<1>2. CrossShort \in Nat /\ CrossLong \in Nat
  BY ParserAssumption
<1>3. CASE t.golden
  BY <1>2, <1>3 DEF find_normalization_hint
<1>4. CASE t.death /\ ~t.golden
  BY <1>2, <1>4 DEF find_normalization_hint
<1>5. CASE ~t.death /\ ~t.golden /\ t.crossover # None
  <2>1. t.crossover \in Nat \X Nat
    BY <1>1, <1>5 DEF Text
  <2>2. t.crossover[1] \in Nat /\ t.crossover[2] \in Nat
    BY <2>1
  <2> QED
    BY <1>5, <2>2 DEF find_normalization_hint
<1>6. CASE ~t.death /\ ~t.golden /\ t.crossover = None
  BY <1>6 DEF find_normalization_hint
<1> QED
  BY <1>3, <1>4, <1>5, <1>6

(* The other crossing. *)
LEMMA OtherCrossing ==
    /\ (CHOOSE o \in Crossing : o # "crosses_above") = "crosses_below"
    /\ (CHOOSE o \in Crossing : o # "crosses_below") = "crosses_above"
BY DEF Crossing

(* Of two rules with the same operands, one is the opposite crossing of    *)
(* the other.                                                              *)
Opposites(c, e) ==
    /\ c.left = e.left /\ c.right = e.right
    /\ \/ c.operator = "crosses_above" /\ e.operator = "crosses_below"
       \/ c.operator = "crosses_below" /\ e.operator = "crosses_above"

LEMMA OppositeDraft ==
    ASSUME NEW c \in DraftCondition, c.operator \in Crossing
    PROVE  /\ opposite_crossover_draft(c) \in DraftCondition
           /\ Opposites(c, opposite_crossover_draft(c))
           /\ Opposites(opposite_crossover_draft(c), c)
<1>1. PICK o : o = CHOOSE x \in Crossing : x # c.operator
  OBVIOUS
<1>2. \/ c.operator = "crosses_above" /\ o = "crosses_below"
      \/ c.operator = "crosses_below" /\ o = "crosses_above"
  BY <1>1, OtherCrossing DEF Crossing
<1>3. opposite_crossover_draft(c) = [c EXCEPT !.operator = o]
  BY <1>1 DEF opposite_crossover_draft
<1>4. o \in Operator
  BY <1>2 DEF Operator, Crossing
<1> QED
  BY <1>2, <1>3, <1>4 DEF DraftCondition, Opposites

LEMMA ShorthandPair ==
    ASSUME NEW h \in [short : Nat, long : Nat, bullish : BOOLEAN]
    PROVE  /\ infer_shorthand_pair(h).entry \in DraftCondition
           /\ infer_shorthand_pair(h).exit \in DraftCondition
           /\ Opposites(infer_shorthand_pair(h).entry, infer_shorthand_pair(h).exit)
<1>1. ASSUME NEW n \in Nat PROVE UnnamedIndicator(n) \in DraftOperand
  BY DEF UnnamedIndicator, DraftOperand
<1>2. PICK a, b : a = crossover_draft(h, "crosses_above") /\ b = crossover_draft(h, "crosses_below")
  OBVIOUS
<1>3. PICK l \in DraftOperand, r \in DraftOperand :
          l = UnnamedIndicator(h.short) /\ r = UnnamedIndicator(h.long)
  BY <1>1
<1>4. /\ a = [left |-> l, operator |-> "crosses_above", right |-> r]
      /\ b = [left |-> l, operator |-> "crosses_below", right |-> r]
  BY <1>2, <1>3 DEF crossover_draft
<1>5. a \in DraftCondition /\ b \in DraftCondition /\ Opposites(a, b) /\ Opposites(b, a)
  BY <1>4 DEF DraftCondition, Operator, Crossing, Opposites
<1>6. infer_shorthand_pair(h) = IF h.bullish THEN [entry |-> a, exit |-> b]
                                ELSE [entry |-> b, exit |-> a]
  BY <1>2 DEF infer_shorthand_pair
<1> QED
  BY <1>5, <1>6

(* The completed rules: what the draft gives, and for what it leaves open  *)
(* the opposite of the other rule.                                         *)
LEMMA RulesCompleted ==
    ASSUME NEW d \in Drafts, NEW t \in Texts, NEW rules, rules = CompletedRules(d, t),
           rules.entry # None, rules.exit # None
    PROVE  /\ rules.entry \in DraftCondition /\ rules.exit \in DraftCondition
           /\ d.entry # None => rules.entry = d.entry
           /\ d.exit # None => rules.exit = d.exit
           /\ d.entry = None \/ d.exit = None => Opposites(rules.entry, rules.exit)
<1>1. d.entry \in DraftCondition \cup {None} /\ d.exit \in DraftCondition \cup {None}
  BY DraftAssumption DEF Draft
<1>2. CASE d.entry = None /\ d.exit = None
  <2>1. PICK h : h = find_normalization_hint(t)
    OBVIOUS
  <2>2. rules = IF h = None THEN [entry |-> None, exit |-> None] ELSE infer_shorthand_pair(h)
    BY <1>2, <2>1 DEF CompletedRules
  <2>3. h # None
    BY <2>2
  <2>4. h \in [short : Nat, long : Nat, bullish : BOOLEAN]
    BY <2>1, <2>3, HintType
  <2>5. rules = infer_shorthand_pair(h)
    BY <2>2, <2>3
  <2> QED
    BY <1>2, <2>4, <2>5, ShorthandPair
<1>3. CASE d.entry = None /\ d.exit # None
  <2>1. PICK c \in DraftCondition : c = d.exit
    BY <1>1, <1>3
  <2>2. rules.exit = c
        /\ rules.entry = IF c.operator \in Crossing THEN opposite_crossover_draft(c) ELSE None
    BY <1>3, <2>1 DEF CompletedRules
  <2> QED
    BY <1>3, <2>1, <2>2, OppositeDraft
<1>4. CASE d.entry # None /\ d.exit = None
  <2>1. PICK c \in DraftCondition : c = d.entry
    BY <1>1, <1>4
  <2>2. rules.entry = c
        /\ rules.exit = IF c.operator \in Crossing THEN opposite_crossover_draft(c) ELSE None
    BY <1>4, <2>1 DEF CompletedRules
  <2> QED
    BY <1>4, <2>1, <2>2, OppositeDraft
<1>5. CASE d.entry # None /\ d.exit # None
  BY <1>1, <1>5 DEF CompletedRules
<1> QED
  BY <1>2, <1>3, <1>4, <1>5

LEMMA OverRules ==
    ASSUME NEW drafts
    PROVE  /\ UNION {AssumedNames(drafts[r], r) : r \in Rules} =
                  AssumedNames(drafts["entry"], "entry") \cup AssumedNames(drafts["exit"], "exit")
           /\ UNION {DefaultSources(drafts[r], r) : r \in Rules} =
                  DefaultSources(drafts["entry"], "entry") \cup DefaultSources(drafts["exit"], "exit")
BY DEF Rules

(* The review r of a draft d of a text t, if there is one. *)
Review(r, d, t, rules) ==
    /\ rules = CompletedRules(d, t)
    /\ rules.entry \in DraftCondition /\ rules.exit \in DraftCondition
    /\ extract_risk_controls(t) /\ validate_strategy_semantics(r.specification)
    /\ r.specification = [entry |-> normalize_condition(rules.entry),
                          exit |-> normalize_condition(rules.exit),
                          stop_loss_percent |-> extract_control_percent(t.stop_loss),
                          take_profit_percent |-> extract_control_percent(t.take_profit)]
    /\ r.specification.entry \in Condition /\ r.specification.exit \in Condition
    /\ r.assumptions = AssumedRules(d) \cup (AssumedNames(rules.entry, "entry")
                                             \cup AssumedNames(rules.exit, "exit"))
    /\ r.defaults_applied = {<<f>> : f \in FixedFields \ d.given}
                                \cup (DefaultSources(rules.entry, "entry")
                                      \cup DefaultSources(rules.exit, "exit"))
    /\ r.requires_confirmation <=> r.assumptions # {}

LEMMA Reviewed ==
    ASSUME NEW d \in Drafts, NEW t \in Texts, NEW r, r = normalize_strategy_draft(d, t), r # None
    PROVE  \E rules : Review(r, d, t, rules)
<1>1. PICK rules : rules = CompletedRules(d, t)
  OBVIOUS
<1>2. PICK names, sources : /\ names = UNION {AssumedNames(rules[x], x) : x \in Rules}
                            /\ sources = UNION {DefaultSources(rules[x], x) : x \in Rules}
  OBVIOUS
<1>3. PICK fixed : fixed = {<<f>> : f \in FixedFields \ d.given}
  OBVIOUS
<1>4. PICK spc : spc = [entry |-> normalize_condition(rules.entry),
                        exit |-> normalize_condition(rules.exit),
                        stop_loss_percent |-> extract_control_percent(t.stop_loss),
                        take_profit_percent |-> extract_control_percent(t.take_profit)]
  OBVIOUS
<1>5. r = IF /\ \A x \in Rules : rules[x] # None /\ ConditionIsComplete(rules[x])
             /\ extract_risk_controls(t)
             /\ validate_strategy_semantics(spc)
          THEN [specification |-> spc, assumptions |-> AssumedRules(d) \cup names,
                defaults_applied |-> fixed \cup sources,
                requires_confirmation |-> requires_confirmation(AssumedRules(d), names)]
          ELSE None
  BY <1>1, <1>2, <1>3, <1>4 DEF normalize_strategy_draft
<1>6. /\ \A x \in Rules : rules[x] # None /\ ConditionIsComplete(rules[x])
      /\ extract_risk_controls(t) /\ validate_strategy_semantics(spc)
  BY <1>5
<1>7. /\ r.specification = spc /\ r.assumptions = AssumedRules(d) \cup names
      /\ r.defaults_applied = fixed \cup sources
      /\ r.requires_confirmation = requires_confirmation(AssumedRules(d), names)
  BY <1>5, <1>6
<1>8. /\ rules.entry # None /\ rules.exit # None
      /\ ConditionIsComplete(rules.entry) /\ ConditionIsComplete(rules.exit)
  BY <1>6 DEF Rules
<1>9. rules.entry \in DraftCondition /\ rules.exit \in DraftCondition
  BY <1>1, <1>8, RulesCompleted
<1>10. spc.entry = normalize_condition(rules.entry) /\ spc.exit = normalize_condition(rules.exit)
  BY <1>4
<1>11. validate_condition(spc.entry) /\ validate_condition(spc.exit)
  BY <1>6 DEF validate_strategy_semantics
<1>12. spc.entry \in Condition /\ spc.exit \in Condition
  BY <1>8, <1>9, <1>10, <1>11, ConditionNormalized
<1>13. /\ names = AssumedNames(rules.entry, "entry") \cup AssumedNames(rules.exit, "exit")
       /\ sources = DefaultSources(rules.entry, "entry") \cup DefaultSources(rules.exit, "exit")
  BY <1>2, OverRules
<1>14. r.requires_confirmation <=> r.assumptions # {}
  BY <1>7 DEF requires_confirmation
<1> QED
  BY <1>1, <1>3, <1>4, <1>6, <1>7, <1>9, <1>12, <1>13, <1>14 DEF Review

-----------------------------------------------------------------------------
(* What is parsed is the review of a draft. *)
ParserInv ==
    /\ CompilerInv
    /\ text \in Texts
    /\ outcome = "parsed" => draft \in Drafts /\ result = normalize_strategy_draft(draft, text)
                                 /\ result # None
    /\ outcome # "refused"

LEMMA ParserStarts == ParserInit => ParserInv
BY CompilerStarts DEF ParserInit, ParserInv

LEMMA CompilerKept == ASSUME CompilerInv, UNCHANGED vars PROVE CompilerInv'
BY DEF CompilerInv, vars, Warm

LEMMA ParserStep == ParserInv /\ [ParserNext]_allVars => ParserInv'
<1> SUFFICES ASSUME ParserInv, [ParserNext]_allVars PROVE ParserInv'
  OBVIOUS
<1>1. CASE UNCHANGED allVars
  BY <1>1, CompilerKept DEF allVars, parserVars, ParserInv
<1>2. CASE RejectText
  BY <1>2, CompilerKept DEF RejectText, ParserInv
<1>3. ASSUME NEW d \in Drafts, ProviderAnswers(d) PROVE ParserInv'
  BY <1>3, CompilerKept DEF ProviderAnswers, ParserInv
<1>4. CASE ProviderTimesOut
  BY <1>4, CompilerKept DEF ProviderTimesOut, Asked, ParserInv
<1>5. CASE ProviderFails
  BY <1>5, CompilerKept DEF ProviderFails, ParserInv
<1>6. CASE save_confirmed_strategy
  <2>1. PICK rules : Review(result, draft, text, rules)
    BY <1>6, Reviewed DEF save_confirmed_strategy, ParserInv
  <2>2. SaveIsAccepted(result)
    BY <2>1 DEF Review, SaveIsAccepted
  <2> QED
    BY <1>6, <2>2, CompilerKept DEF save_confirmed_strategy, ParserInv
<1>7. ASSUME NEW c \in Closes, Backtest(c) PROVE ParserInv'
  <2>1. CompilerInv'
    BY <1>7, BarAdded DEF Backtest, ParserInv
  <2> QED
    BY <1>7, <2>1 DEF Backtest, parserVars, ParserInv
<1> QED
  BY <1>1, <1>2, <1>3, <1>4, <1>5, <1>6, <1>7 DEF ParserNext

(* What the browser is shown is what normalize_strategy_draft made of the  *)
(* draft, and a save has never been refused.                               *)
THEOREM ParserInvariant == ParserSpec => []ParserInv
<1> QED
  BY ParserStarts, ParserStep, PTL DEF ParserSpec

(* The checks of the save endpoint accept every review the parser makes,   *)
(* so what a user has previewed is never refused.                          *)
THEOREM PreviewedAlwaysSaved == ParserSpec => []PreviewedCanBeSaved
<1>1. ParserInv => PreviewedCanBeSaved
  BY DEF ParserInv, PreviewedCanBeSaved
<1> QED
  BY <1>1, ParserInvariant, PTL

-----------------------------------------------------------------------------
(* Disclosure.  A field of the review is named by its path, and paths of   *)
(* different lengths or endings are different fields.                      *)
LEMMA Paths ==
    /\ \A a, b, c, d : <<a>> # <<b, c, d>>
    /\ \A a, b : <<a>> = <<b>> => a = b
    /\ \A a, b, c, d, e, f : <<a, b, c>> = <<d, e, f>> => a = d /\ b = e /\ c = f
<1>1. ASSUME NEW a, NEW b, NEW c, NEW d PROVE <<a>> # <<b, c, d>>
  <2>1. Len(<<a>>) = 1 /\ Len(<<b, c, d>>) = 3
    OBVIOUS
  <2> QED
    BY <2>1
<1>2. ASSUME NEW a, NEW b, <<a>> = <<b>> PROVE a = b
  <2>1. <<a>>[1] = a /\ <<b>>[1] = b
    OBVIOUS
  <2> QED
    BY <1>2, <2>1
<1>3. ASSUME NEW a, NEW b, NEW c, NEW d, NEW e, NEW f, <<a, b, c>> = <<d, e, f>>
      PROVE  a = d /\ b = e /\ c = f
  <2>1. <<a, b, c>>[1] = a /\ <<a, b, c>>[2] = b /\ <<a, b, c>>[3] = c
    OBVIOUS
  <2>2. <<d, e, f>>[1] = d /\ <<d, e, f>>[2] = e /\ <<d, e, f>>[3] = f
    OBVIOUS
  <2> QED
    BY <1>3, <2>1, <2>2
<1> QED
  BY <1>1, <1>2, <1>3

LEMMA ControlFaithful ==
    ASSUME NEW control \in Control, control.values # {} => control.phrase, ControlIsClear(control)
    PROVE  ControlIsFaithful(control, extract_control_percent(control))
<1>1. CASE control.values = {}
  BY <1>1 DEF ControlIsClear, ControlIsFaithful, extract_control_percent
<1>2. CASE control.values # {}
  <2>1. PICK v : v = extract_control_percent(control)
    OBVIOUS
  <2>2. v \in control.values
    BY <1>2, <2>1 DEF extract_control_percent
  <2>3. control.values = {v}
    BY <2>2 DEF ControlIsClear
  <2> QED
    BY <1>2, <2>1, <2>3 DEF ControlIsFaithful
<1> QED
  BY <1>1, <1>2

(* Which paths are among the assumptions and the defaults. *)
LEMMA NamesOf ==
    ASSUME NEW c, NEW rule, NEW other, NEW side \in Sides
    PROVE  /\ <<rule, side, "name">> \in AssumedNames(c, other)
                  <=> rule = other /\ c[side].type = "indicator" /\ c[side].name = None
           /\ \A f : <<f>> \notin AssumedNames(c, other)
           /\ <<rule, side, "source">> \in DefaultSources(c, other)
                  <=> rule = other /\ c[side].type # "constant" /\ c[side].source = None
           /\ \A f : <<f>> \notin DefaultSources(c, other)
<1>1. ASSUME NEW p
      PROVE  p \in AssumedNames(c, other) <=>
                 \E s \in Sides : /\ c[s].type = "indicator" /\ c[s].name = None
                                  /\ p = <<other, s, "name">>
  BY DEF AssumedNames
<1>2. ASSUME NEW p
      PROVE  p \in DefaultSources(c, other) <=>
                 \E s \in Sides : /\ c[s].type # "constant" /\ c[s].source = None
                                  /\ p = <<other, s, "source">>
  BY DEF DefaultSources
<1>3. \A s : <<rule, side, "name">> = <<other, s, "name">> <=> rule = other /\ side = s
  BY Paths
<1>4. \A s : <<rule, side, "source">> = <<other, s, "source">> <=> rule = other /\ side = s
  BY Paths
<1>5. \A f, s : <<f>> # <<other, s, "name">> /\ <<f>> # <<other, s, "source">>
  BY Paths
<1>6. /\ <<rule, side, "name">> \in AssumedNames(c, other)
             <=> rule = other /\ c[side].type = "indicator" /\ c[side].name = None
      /\ <<rule, side, "source">> \in DefaultSources(c, other)
             <=> rule = other /\ c[side].type # "constant" /\ c[side].source = None
  BY <1>1, <1>2, <1>3, <1>4, Zenon
<1>7. \A f : <<f>> \notin AssumedNames(c, other) /\ <<f>> \notin DefaultSources(c, other)
  BY <1>1, <1>2, <1>5, Zenon
<1> QED
  BY <1>6, <1>7

LEMMA RulesOf ==
    ASSUME NEW d
    PROVE  /\ \A r \in Rules : <<r>> \in AssumedRules(d) =>
                  d[r] = None /\ ~(d.entry = None /\ d.exit = None)
           /\ \A r \in Rules : d[r] = None =>
                  <<r>> \in AssumedRules(d) \/ <<"entry_and_exit">> \in AssumedRules(d)
           /\ \A a, b, c : <<a, b, c>> \notin AssumedRules(d)
<1>1. CASE d.entry = None /\ d.exit = None
  <2>1. AssumedRules(d) = {<<"entry_and_exit">>}
    BY <1>1 DEF AssumedRules
  <2>2. \A r \in Rules : r # "entry_and_exit"
    BY DEF Rules
  <2> QED
    BY <2>1, <2>2, Paths, Zenon
<1>2. CASE ~(d.entry = None /\ d.exit = None)
  <2>1. ASSUME NEW p PROVE p \in AssumedRules(d) <=> \E r \in Rules : d[r] = None /\ p = <<r>>
    BY <1>2 DEF AssumedRules
  <2>2. ASSUME NEW r \in Rules PROVE <<r>> \in AssumedRules(d) <=> d[r] = None
    <3>1. \A x : <<r>> = <<x>> <=> r = x
      BY Paths
    <3>2. <<r>> \in AssumedRules(d) <=> \E x \in Rules : d[x] = None /\ <<r>> = <<x>>
      BY <2>1
    <3> QED
      BY <3>1, <3>2, Zenon
  <2>3. ASSUME NEW a, NEW b, NEW c PROVE <<a, b, c>> \notin AssumedRules(d)
    <3>1. \A x : <<a, b, c>> # <<x>>
      BY Paths
    <3>2. <<a, b, c>> \in AssumedRules(d) <=> \E x \in Rules : d[x] = None /\ <<a, b, c>> = <<x>>
      BY <2>1
    <3> QED
      BY <3>1, <3>2, Zenon
  <2> QED
    BY <1>2, <2>2, <2>3
<1> QED
  BY <1>1, <1>2

LEMMA OperandDisclosed ==
    ASSUME NEW d \in Drafts, NEW t \in Texts, NEW r, NEW rules, Review(r, d, t, rules),
           NEW rule \in Rules, d[rule] # None, NEW side \in Sides
    PROVE  LET said == d[rule][side]
               got == r.specification[rule][side]
           IN  /\ <<rule, side, "name">> \in r.assumptions
                      <=> said.type = "indicator" /\ said.name = None
               /\ <<rule, side, "source">> \in r.defaults_applied
                      <=> said.type # "constant" /\ said.source = None
               /\ got = normalize_operand(said)
               /\ said.type \in {"indicator", "price", "constant"}
<1>0. rules[rule] = d[rule] /\ rules[rule] \in DraftCondition
  <2>1. rules.entry \in DraftCondition /\ rules.exit \in DraftCondition
    BY DEF Review
  <2>2. rules.entry # None /\ rules.exit # None /\ rules = CompletedRules(d, t)
    BY <2>1, DraftAssumption DEF Review
  <2> QED
    BY <2>1, <2>2, RulesCompleted DEF Rules
<1>1. PICK c \in DraftCondition : c = d[rule] /\ c = rules[rule]
  BY <1>0
<1>2. PICK said \in DraftOperand : said = c[side]
  BY DEF DraftCondition, Sides
<1>3. <<rule, side, "name">> \in r.assumptions <=> said.type = "indicator" /\ said.name = None
  <2>1. r.assumptions = AssumedRules(d) \cup (AssumedNames(rules.entry, "entry")
                                              \cup AssumedNames(rules.exit, "exit"))
    BY DEF Review
  <2>2. <<rule, side, "name">> \notin AssumedRules(d)
    BY RulesOf
  <2>3. <<rule, side, "name">> \in AssumedNames(rules.entry, "entry")
            <=> rule = "entry" /\ rules.entry[side].type = "indicator"
                /\ rules.entry[side].name = None
    <3>1. PICK c1 : c1 = rules.entry
      OBVIOUS
    <3> QED
      BY <3>1, NamesOf, ZenonT(60)
  <2>4. <<rule, side, "name">> \in AssumedNames(rules.exit, "exit")
            <=> rule = "exit" /\ rules.exit[side].type = "indicator"
                /\ rules.exit[side].name = None
    <3>1. PICK c1 : c1 = rules.exit
      OBVIOUS
    <3> QED
      BY <3>1, NamesOf, ZenonT(60)
  <2>5. CASE rule = "entry"
    <3>1. rules.entry[side] = said
      BY <1>1, <1>2, <2>5
    <3> QED
      BY <2>1, <2>2, <2>3, <2>4, <2>5, <3>1
  <2>6. CASE rule = "exit"
    <3>1. rules.exit[side] = said
      BY <1>1, <1>2, <2>6
    <3> QED
      BY <2>1, <2>2, <2>3, <2>4, <2>6, <3>1
  <2> QED
    BY <2>5, <2>6 DEF Rules
<1>4. <<rule, side, "source">> \in r.defaults_applied
          <=> said.type # "constant" /\ said.source = None
  <2>1. r.defaults_applied = {<<f>> : f \in FixedFields \ d.given}
                                 \cup (DefaultSources(rules.entry, "entry")
                                       \cup DefaultSources(rules.exit, "exit"))
    BY DEF Review
  <2>2. <<rule, side, "source">> \notin {<<f>> : f \in FixedFields \ d.given}
    BY Paths, Zenon
  <2>3. <<rule, side, "source">> \in DefaultSources(rules.entry, "entry")
            <=> rule = "entry" /\ rules.entry[side].type # "constant"
                /\ rules.entry[side].source = None
    BY NamesOf
  <2>4. <<rule, side, "source">> \in DefaultSources(rules.exit, "exit")
            <=> rule = "exit" /\ rules.exit[side].type # "constant"
                /\ rules.exit[side].source = None
    BY NamesOf
  <2>5. CASE rule = "entry"
    <3>1. rules.entry[side] = said
      BY <1>1, <1>2, <2>5
    <3> QED
      BY <2>1, <2>2, <2>3, <2>4, <2>5, <3>1
  <2>6. CASE rule = "exit"
    <3>1. rules.exit[side] = said
      BY <1>1, <1>2, <2>6
    <3> QED
      BY <2>1, <2>2, <2>3, <2>4, <2>6, <3>1
  <2> QED
    BY <2>5, <2>6 DEF Rules
<1>5. r.specification[rule] = normalize_condition(c)
  BY <1>1 DEF Review, Rules
<1>6. r.specification[rule][side] = normalize_operand(said)
  BY <1>2, <1>5 DEF normalize_condition, Sides
<1>7. said.type \in {"indicator", "price", "constant"}
  BY DEF DraftOperand
<1> QED
  BY <1>1, <1>2, <1>3, <1>4, <1>6, <1>7

LEMMA Discloses == ParserInv => DisclosesWhatItInfers
<1> SUFFICES ASSUME ParserInv, outcome = "parsed"
    PROVE  /\ \A f \in FixedFields : <<f>> \in result.defaults_applied <=> f \notin draft.given
           /\ \A r \in Rules :
                 IF draft[r] = None
                 THEN result.assumptions \cap {<<r>>, <<"entry_and_exit">>} # {}
                 ELSE /\ <<r>> \notin result.assumptions
                      /\ result.specification[r].operator = draft[r].operator
                      /\ \A s \in Sides : OperandIsFaithful(r, s)
           /\ ControlIsFaithful(text.stop_loss, result.specification.stop_loss_percent)
           /\ ControlIsFaithful(text.take_profit, result.specification.take_profit_percent)
  BY DEF DisclosesWhatItInfers
<1>0. draft \in Drafts /\ text \in Texts
  BY DEF ParserInv
<1>1. PICK rules : Review(result, draft, text, rules)
  BY Reviewed DEF ParserInv
<1>2. ASSUME NEW f \in FixedFields
      PROVE  <<f>> \in result.defaults_applied <=> f \notin draft.given
  <2>1. result.defaults_applied = {<<g>> : g \in FixedFields \ draft.given}
                                      \cup (DefaultSources(rules.entry, "entry")
                                            \cup DefaultSources(rules.exit, "exit"))
    BY <1>1 DEF Review
  <2>2. /\ <<f>> \notin DefaultSources(rules.entry, "entry")
        /\ <<f>> \notin DefaultSources(rules.exit, "exit")
    <3>1. PICK side : side \in Sides
      BY DEF Sides
    <3> QED
      BY <3>1, NamesOf
  <2>3. <<f>> \in {<<g>> : g \in FixedFields \ draft.given} <=> f \notin draft.given
    BY Paths, Zenon
  <2> QED
    BY <2>1, <2>2, <2>3
<1>3. result.assumptions = AssumedRules(draft) \cup (AssumedNames(rules.entry, "entry")
                                                     \cup AssumedNames(rules.exit, "exit"))
  BY <1>1 DEF Review
<1>4. ASSUME NEW r \in Rules, draft[r] = None
      PROVE  result.assumptions \cap {<<r>>, <<"entry_and_exit">>} # {}
  BY <1>3, <1>4, RulesOf
<1>5. ASSUME NEW r \in Rules, draft[r] # None
      PROVE  /\ <<r>> \notin result.assumptions
             /\ result.specification[r].operator = draft[r].operator
             /\ \A s \in Sides : OperandIsFaithful(r, s)
  <2>1. <<r>> \notin result.assumptions
    <3>1. <<r>> \notin AssumedRules(draft)
      BY <1>5, RulesOf
    <3>2. PICK side : side \in Sides
      BY DEF Sides
    <3>3. /\ <<r>> \notin AssumedNames(rules.entry, "entry")
          /\ <<r>> \notin AssumedNames(rules.exit, "exit")
      BY <3>2, NamesOf
    <3> QED
      BY <1>3, <3>1, <3>3
  <2>2. result.specification[r].operator = draft[r].operator
    <3>1. rules.entry # None /\ rules.exit # None /\ rules = CompletedRules(draft, text)
      BY <1>1, DraftAssumption DEF Review
    <3>2. rules[r] = draft[r]
      BY <1>0, <1>5, <3>1, RulesCompleted DEF Rules
    <3>3. result.specification[r] = normalize_condition(rules[r])
      BY <1>1 DEF Review, Rules
    <3> QED
      BY <3>2, <3>3 DEF normalize_condition
  <2>3. ASSUME NEW s \in Sides PROVE OperandIsFaithful(r, s)
    <3>1. PICK said, got : said = draft[r][s] /\ got = result.specification[r][s]
      OBVIOUS
    <3>2. /\ <<r, s, "name">> \in result.assumptions
                <=> said.type = "indicator" /\ said.name = None
          /\ <<r, s, "source">> \in result.defaults_applied
                <=> said.type # "constant" /\ said.source = None
          /\ got = normalize_operand(said)
          /\ said.type \in {"indicator", "price", "constant"}
      BY <1>0, <1>1, <1>5, <3>1, OperandDisclosed
    <3>3. CASE said.type = "indicator"
      <4>1. got.period = said.period /\ (said.name # None => got.type = said.name)
        BY <3>2, <3>3 DEF normalize_operand
      <4> QED
        BY <3>1, <3>2, <3>3, <4>1 DEF OperandIsFaithful
    <3>4. CASE said.type = "constant"
      <4>1. got = [type |-> "constant", value |-> said.value]
        BY <3>2, <3>4 DEF normalize_operand
      <4> QED
        BY <3>1, <3>2, <3>4, <4>1 DEF OperandIsFaithful
    <3>5. CASE said.type = "price"
      <4>1. got.type = "price"
        BY <3>2, <3>5 DEF normalize_operand
      <4> QED
        BY <3>1, <3>2, <3>5, <4>1 DEF OperandIsFaithful
    <3> QED
      BY <3>2, <3>3, <3>4, <3>5
  <2> QED
    BY <2>1, <2>2, <2>3
<1>6. /\ ControlIsFaithful(text.stop_loss, result.specification.stop_loss_percent)
      /\ ControlIsFaithful(text.take_profit, result.specification.take_profit_percent)
  <2>1. /\ text.stop_loss \in Control /\ text.take_profit \in Control
        /\ text.stop_loss.values # {} => text.stop_loss.phrase
        /\ text.take_profit.values # {} => text.take_profit.phrase
    BY <1>0, DraftAssumption DEF Text
  <2>2. ControlIsClear(text.stop_loss) /\ ControlIsClear(text.take_profit)
    BY <1>1 DEF Review, extract_risk_controls
  <2>3. /\ result.specification.stop_loss_percent = extract_control_percent(text.stop_loss)
        /\ result.specification.take_profit_percent = extract_control_percent(text.take_profit)
    BY <1>1 DEF Review
  <2> QED
    BY <2>1, <2>2, <2>3, ControlFaithful
<1> QED
  BY <1>2, <1>4, <1>5, <1>6

(* The review discloses exactly what was not in the draft, repeats what    *)
(* was, and has a risk control exactly if the text mentions it.            *)
THEOREM ReviewsDisclose == ParserSpec => []DisclosesWhatItInfers
<1> QED
  BY Discloses, ParserInvariant, PTL

-----------------------------------------------------------------------------
(* An inferred rule undoes the one it was inferred from.  The first bar    *)
(* after the crossing on which the operands are strictly the other way     *)
(* round follows one on which they are not, so it is the crossing back.    *)

(* Both sides of a condition are known from some bar on. *)
LEMMA KnownFrom ==
    ASSUME CompilerInv, NEW c \in Condition, NEW i \in 1..Len(closes), Known(c, i),
           NEW k \in i..Len(closes)
    PROVE  /\ Known(c, k)
           /\ evaluate_operand(c.left, k) \in Int /\ evaluate_operand(c.right, k) \in Int
<1>0. Len(closes) \in Nat
  BY DEF CompilerInv
<1>1. PICK m \in Nat \ {0} : \A x \in 0..Len(closes) : Known(c, x) <=> x >= m
  BY ConditionKnown
<1>2. i \in 0..Len(closes) /\ k \in 0..Len(closes) /\ k \in 1..Len(closes) /\ k >= i
  BY <1>0
<1>3. Known(c, k)
  BY <1>1, <1>2
<1>4. evaluate_operand(c.left, k) # None /\ evaluate_operand(c.right, k) # None
  BY <1>3 DEF Known
<1>5. c.left \in Operand /\ c.right \in Operand
  BY DEF Condition
<1> QED
  BY <1>2, <1>3, <1>4, <1>5, OperandKnown

LEMMA OppositeUndoes ==
    ASSUME CompilerInv, NEW rule \in Condition, NEW other \in Condition, Opposites(other, rule)
    PROVE  Undoes(rule, other)
<1>0. Len(closes) \in Nat /\ DOMAIN closes = 1..Len(closes)
  BY DEF CompilerInv
<1> DEFINE L(k) == evaluate_operand(other.left, k)
           R(k) == evaluate_operand(other.right, k)
           Back(k) == IF other.operator = "crosses_above" THEN L(k) < R(k) ELSE L(k) > R(k)
<1> SUFFICES ASSUME NEW i \in 1..Len(closes), NEW j \in 1..Len(closes), i < j,
                    evaluate_condition(other, i), Back(j)
             PROVE  \E k \in (i + 1)..j : evaluate_condition(rule, k)
  BY <1>0 DEF Undoes
<1>1. Known(other, i) /\ i \in Nat /\ j \in Nat
  BY DEF evaluate_condition
<1>2. \A k \in i..Len(closes) : Known(other, k) /\ L(k) \in Int /\ R(k) \in Int
  BY <1>1, KnownFrom
<1>3. \A k \in i..Len(closes) : Known(rule, k)
  BY <1>2 DEF Opposites, Known
<1>4. ~Back(i)
  <2>1. i \in i..Len(closes)
    BY <1>0
  <2>2. L(i) \in Int /\ R(i) \in Int
    BY <1>2, <2>1
  <2>3. IF other.operator = "crosses_above" THEN L(i) > R(i) ELSE L(i) < R(i)
    BY DEF evaluate_condition, Opposites
  <2> HIDE DEF L, R
  <2> QED
    BY <2>2, <2>3
<1>5. PICK T : T = {k \in (i + 1)..j : Back(k)}
  OBVIOUS
<1>6. T \in SUBSET Nat /\ j \in T
  <2>1. j \in (i + 1)..j
    BY <1>1
  <2> HIDE DEF Back
  <2> QED
    BY <1>1, <1>5, <2>1
<1>7. PICK k \in T : \A y \in T : k <= y
  BY <1>6, NatMin
<1>8. /\ k \in (i + 1)..j /\ Back(k) /\ k - 1 \in i..Len(closes) /\ k \in i..Len(closes)
  <2>1. k \in (i + 1)..j /\ Back(k)
    BY <1>5, <1>7
  <2>2. k - 1 \in i..Len(closes) /\ k \in i..Len(closes)
    BY <1>0, <1>1, <2>1
  <2> QED
    BY <2>1, <2>2
<1>9. ~Back(k - 1)
  <2> HIDE DEF Back
  <2>1. CASE k - 1 = i
    BY <1>4, <2>1
  <2>2. CASE k - 1 # i
    <3>1. k - 1 \in (i + 1)..j /\ ~(k <= k - 1)
      BY <1>1, <1>8, <2>2
    <3> QED
      BY <1>5, <1>7, <3>1
  <2> QED
    BY <2>1, <2>2
<1>10. /\ L(k) \in Int /\ R(k) \in Int /\ L(k - 1) \in Int /\ R(k - 1) \in Int
       /\ Known(rule, k) /\ Known(rule, k - 1)
  BY <1>2, <1>3, <1>8
<1>11. rule.left = other.left /\ rule.right = other.right
  BY DEF Opposites
<1>12. CASE other.operator = "crosses_above"
  <2>1. rule.operator = "crosses_below"
    BY <1>12 DEF Opposites
  <2>2. L(k) < R(k) /\ ~(L(k - 1) < R(k - 1))
    BY <1>8, <1>9, <1>12
  <2>3. L(k - 1) >= R(k - 1)
    <3> HIDE DEF L, R
    <3> QED
      BY <1>10, <2>2
  <2>4. evaluate_condition(rule, k)
    BY <1>10, <1>11, <2>1, <2>2, <2>3 DEF evaluate_condition
  <2> QED
    BY <1>8, <2>4
<1>13. CASE other.operator = "crosses_below"
  <2>1. rule.operator = "crosses_above"
    BY <1>13 DEF Opposites
  <2>2. L(k) > R(k) /\ ~(L(k - 1) > R(k - 1))
    BY <1>8, <1>9, <1>13
  <2>3. L(k - 1) <= R(k - 1)
    <3> HIDE DEF L, R
    <3> QED
      BY <1>10, <2>2
  <2>4. evaluate_condition(rule, k)
    BY <1>10, <1>11, <2>1, <2>2, <2>3 DEF evaluate_condition
  <2> QED
    BY <1>8, <2>4
<1> QED
  BY <1>12, <1>13 DEF Opposites

LEMMA InferredUndoes == ParserInv => InferredRuleUndoes
<1> SUFFICES ASSUME ParserInv, outcome = "parsed", draft.entry = None \/ draft.exit = None
    PROVE  /\ Undoes(result.specification.exit, result.specification.entry)
           /\ Undoes(result.specification.entry, result.specification.exit)
  BY DEF InferredRuleUndoes
<1>1. PICK rules : Review(result, draft, text, rules)
  BY Reviewed DEF ParserInv
<1>2. Opposites(rules.entry, rules.exit)
  <2>1. rules.entry # None /\ rules.exit # None /\ rules = CompletedRules(draft, text)
    BY <1>1, DraftAssumption DEF Review
  <2> QED
    BY <2>1, RulesCompleted DEF ParserInv
<1>3. PICK a \in Condition, b \in Condition :
          a = result.specification.entry /\ b = result.specification.exit
  BY <1>1 DEF Review
<1>4. a = normalize_condition(rules.entry) /\ b = normalize_condition(rules.exit)
  BY <1>1, <1>3 DEF Review
<1>5. Opposites(a, b) /\ Opposites(b, a)
  BY <1>2, <1>4 DEF Opposites, normalize_condition
<1>6. Undoes(b, a) /\ Undoes(a, b)
  BY <1>5, OppositeUndoes DEF ParserInv
<1> QED
  BY <1>3, <1>6

(* However the series goes and for any periods: once a rule has fired, the *)
(* rule that was inferred from it fires by the bar on which the operands   *)
(* are strictly the other way round.                                       *)
THEOREM InferredRulesUndo == ParserSpec => []InferredRuleUndoes
<1> QED
  BY InferredUndoes, ParserInvariant, PTL
=============================================================================
