------------------------------ MODULE MCImport ------------------------------
(* Two imports: a short file of every kind of row, and longer good files   *)
(* whose timestamps are in either order.                                   *)
EXTENDS MarketImport

CONSTANTS i1, i2

Row(s, price, high, adjusted, volume) ==
    [timestamp |-> s, open |-> price, high |-> high, low |-> price, close |-> price,
     adjusted_close |-> adjusted, volume |-> volume]

Good(s, price) == Row(s, price, price + 4, None, 1)

(* An acceptable row, another price for its timestamp, prices out of       *)
(* order, a missing price, one that rounds to zero, a volume too large.    *)
AnyRow(s) == {Good(s, 6), Good(s, 9), Row(s, 8, 4, None, 1), Row(s, None, 8, None, 1),
              Row(s, 8, 8, 1, 1), Row(s, 8, 8, 8, 3)}

MCFiles ==
    (i1 :> {None, << >>} \cup {<<a>> : a \in AnyRow(1)}
               \cup {<<a, b>> : a \in AnyRow(1), b \in {Good(2, 6), Good(1, 9)}}) @@
    (i2 :> {<<Good(1, 12), Good(2, 12), Good(3, 12)>>, <<Good(3, 16), Good(2, 16), Good(1, 16)>>})
=============================================================================
