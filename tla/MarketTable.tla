----------------------------- MODULE MarketTable -----------------------------
(***************************************************************************)
(* What the import promises to whoever reads market_data (a preview loads  *)
(* the series with one SELECT): the table changes by whole files only, and *)
(* a stored bar is replaced but never removed.                             *)
(***************************************************************************)
CONSTANTS
    Stamps,     \* the timestamps of one symbol and interval
    Updates,    \* what each file means: a bar or None for every timestamp
    None

VARIABLE table

TableInit == table = [s \in Stamps |-> None]

Override(old, update) ==
    [s \in Stamps |-> IF update[s] # None THEN update[s] ELSE old[s]]

FileImported == \E u \in Updates : table' = Override(table, u)

TableSpec == TableInit /\ [][FileImported]_table
=============================================================================
