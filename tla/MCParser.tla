------------------------------ MODULE MCParser ------------------------------
(* Texts with and without shorthands and risk controls; drafts with every  *)
(* kind of operand, given or left open; three closes, in units in which    *)
(* four bars have whole averages.                                          *)
EXTENDS StrategyParser

Nothing == [values |-> {}, phrase |-> FALSE]
Says(values) == [values |-> values, phrase |-> TRUE]
Plain == [blank |-> FALSE, unsupported |-> FALSE, ambiguous |-> FALSE,
          stop_loss |-> Nothing, take_profit |-> Nothing, moving_average |-> FALSE,
          days |-> FALSE, crossover |-> None, golden |-> FALSE, death |-> FALSE]

MCTexts ==
    { Plain, [Plain EXCEPT !.blank = TRUE],
      [Plain EXCEPT !.unsupported = TRUE], [Plain EXCEPT !.ambiguous = TRUE],
      [Plain EXCEPT !.moving_average = TRUE],
      [Plain EXCEPT !.moving_average = TRUE, !.days = TRUE, !.stop_loss = Says({5})],
      [Plain EXCEPT !.golden = TRUE, !.take_profit = Says({50})],
      [Plain EXCEPT !.death = TRUE, !.moving_average = TRUE],
      [Plain EXCEPT !.golden = TRUE, !.death = TRUE] }
        \cup {[Plain EXCEPT !.crossover = c] : c \in {<<1, 2>>, <<2, 1>>, <<0, 2>>, <<2, 3>>}}
        \cup {[Plain EXCEPT !.stop_loss = Says(v)] : v \in {{}, {0}, {5, 6}, {51}}}

Operands ==
    LET O(type, name, source, period, value) ==
            [type |-> type, name |-> name, source |-> source, period |-> period, value |-> value]
    IN  { O("indicator", None, None, 2, None), O("indicator", "ema", "close", 2, None),
          O("indicator", "sma", None, None, None), O("indicator", "sma", "close", 3, None),
          O("price", None, None, None, None), O("price", None, "close", None, None),
          O("constant", None, None, None, 72), O("constant", None, None, None, None) }
Lefts == {o \in Operands : o.type = "price" \/ o.name = None}
Is(left, operator, right) == [left |-> left, operator |-> operator, right |-> right]
Conditions ==
    {Is(l, o, r) : l \in Lefts, r \in Operands,
                   o \in {None, "crosses_above", "crosses_below", "less_than"}}
Simple == {c \in Conditions : /\ c.left.type = "price" /\ c.left.source = None
                              /\ c.right.type = "constant" \/ c.right.name = None}

MCDrafts ==
    [given : {{}}, entry : Conditions \cup {None}, exit : {None}]
        \cup [given : {FixedFields}, entry : {None}, exit : Conditions]
        \cup [given : {FixedFields, {"symbol"}}, entry : Simple,
                  exit : {c \in Simple : c.right.type = "constant"}]
=============================================================================
