----------------------------- MODULE MarketImport -----------------------------
(***************************************************************************)
(* import_market_csv (backend/app/scripts/import_market_csv.py): a file of *)
(* daily bars is parsed and upserted, in batches, in one transaction.      *)
(* Several operators, or one and a scheduled job, may run the script at    *)
(* the same time, and run it again after it failed.                        *)
(*                                                                         *)
(* A timestamp is a number.  A price is an integer in quarters of the      *)
(* last decimal of Numeric(18, 8), so that storing it rounds.  A field     *)
(* that is missing or does not convert is None, except that an             *)
(* adjusted_close that does not convert is one that is not positive.  The  *)
(* transactions are PostgreSQL's at READ COMMITTED: a row that another     *)
(* transaction has written and not yet committed makes an upsert wait.     *)
(***************************************************************************)
EXTENDS Integers, FiniteSets, SequencesExt, FiniteSetsExt

CONSTANTS
    Imports,        \* processes that run the script
    Files,          \* the files each of them may be given; None: not a CSV
                    \* with the required columns, or a bad argument
    Stamps,
    BatchSize,
    MaxPrice, MaxVolume,    \* the largest value a column holds
    MaxRuns,        \* bound on how often the script is run
    MaxFaults,      \* bound on the lost connections
    None

Prices == {"open", "high", "low", "close"}

ASSUME ImportAssumption ==
    /\ Stamps \subseteq Nat /\ IsFiniteSet(Stamps) /\ None \notin Stamps
    /\ BatchSize \in Nat \ {0}
    /\ MaxPrice \in Nat /\ MaxVolume \in Nat
    /\ MaxRuns \in Nat /\ MaxFaults \in Nat

(* A line of the file, and a row as the table holds it. *)
RawRow == [timestamp : Stamps \cup {None}, open : Int \cup {None}, high : Int \cup {None},
           low : Int \cup {None}, close : Int \cup {None}, volume : Int \cup {None},
           adjusted_close : Int \cup {None}]
Bar == [open : Int, high : Int, low : Int, close : Int, volume : Int,
        adjusted_close : Int \cup {None}]

ASSUME FileAssumption ==
    /\ None \notin Int /\ None \notin Bar
    /\ \A i \in Imports : \A file \in Files[i] : file = None \/ file \in Seq(RawRow)

VARIABLES
    market_data,    \* the committed rows of the symbol
    written,        \* each transaction's uncommitted rows, which it has locked
    pc,
    rows,           \* the parsed rows of the current run
    summary,        \* ImportSummary
    sent,           \* rows upserted so far
    new,            \* history: the rows of the import that were not stored when it committed
    alone,          \* history: no other import committed during the transaction
    runs, faults

vars == <<market_data, written, pc, rows, summary, sent, new, alone, runs, faults>>

NoRows == [s \in Stamps |-> None]
NoSummary == [total_csv_rows |-> 0, inserted_rows |-> 0, updated_rows |-> 0, skipped |-> 0,
              earliest |-> None, latest |-> None, total_symbol_rows |-> 0]

Init ==
    /\ market_data = NoRows
    /\ written = [i \in Imports |-> NoRows]
    /\ pc = [i \in Imports |-> "idle"]
    /\ rows = [i \in Imports |-> << >>]
    /\ summary = [i \in Imports |-> NoSummary]
    /\ sent = [i \in Imports |-> 0]
    /\ new = [i \in Imports |-> {}] /\ alone = [i \in Imports |-> TRUE]
    /\ runs = 0 /\ faults = 0

-----------------------------------------------------------------------------
(* parse_market_row: the row converts, is positive and has its high and    *)
(* low around the other prices.                                            *)
parse_market_row(raw) ==
    /\ raw.timestamp # None
    /\ \A p \in Prices : raw[p] # None /\ raw[p] > 0
    /\ raw.adjusted_close # None => raw.adjusted_close > 0
    /\ raw.volume # None /\ raw.volume >= 0
    /\ raw.high >= raw.open /\ raw.high >= raw.low /\ raw.high >= raw.close
    /\ raw.low <= raw.open /\ raw.low <= raw.close

(* One turn of the loop of parse_market_csv; acc.rows has seen_timestamps. *)
ReadRow(acc, raw) ==
    IF parse_market_row(raw) /\ ~\E k \in DOMAIN acc.rows : acc.rows[k].timestamp = raw.timestamp
    THEN [acc EXCEPT !.rows = Append(@, raw)]
    ELSE [acc EXCEPT !.skipped = @ + 1]

parse_market_csv(file) == FoldLeft(ReadRow, [rows |-> << >>, skipped |-> 0], file)

(* Mutant: a batch runs to the end of the rows. *)
batchedToTheEnd(i) == SubSeq(rows[i], sent[i] + 1, Len(rows[i]))

batched(i) == SubSeq(rows[i], sent[i] + 1, Min({sent[i] + BatchSize, Len(rows[i])}))

-----------------------------------------------------------------------------
(* Numeric(18, 8) rounds to its last decimal. *)
Rounded(price) == IF price = None THEN None ELSE (price + 2) \div 4

StoredBar(row) ==
    [open |-> Rounded(row.open), high |-> Rounded(row.high), low |-> Rounded(row.low),
     close |-> Rounded(row.close), volume |-> row.volume,
     adjusted_close |-> Rounded(row.adjusted_close)]

(* The column types and check constraints of MarketData. *)
Storable(bar) ==
    /\ \A p \in Prices : bar[p] > 0 /\ bar[p] <= MaxPrice
    /\ bar.adjusted_close # None => bar.adjusted_close > 0 /\ bar.adjusted_close <= MaxPrice
    /\ bar.low <= bar.open /\ bar.open <= bar.high
    /\ bar.low <= bar.close /\ bar.close <= bar.high
    /\ bar.volume >= 0 /\ bar.volume <= MaxVolume

Holder(s) == {i \in Imports : written[i][s] # None}
Stored == {s \in Stamps : market_data[s] # None}
NextRow(i) == rows[i][sent[i] + 1]

(* The transaction i waits for, and the cycle PostgreSQL looks for when a  *)
(* wait exceeds deadlock_timeout.                                          *)
Waits(i, j) == i # j /\ pc[i] = "upserting" /\ j \in Holder(NextRow(i).timestamp)
Deadlocked(i) ==
    \E cycle \in SUBSET Imports :
        i \in cycle /\ \A j \in cycle : \E k \in cycle : Waits(j, k)

-----------------------------------------------------------------------------
InTransaction == {"selecting", "upserting", "committing"}

Goto(i, place) == pc' = [pc EXCEPT ![i] = place]

(* Mutant: rows that do not fill a batch are left out. *)
AfterRowOfFullBatches(i, n) ==
    IF n >= Len(rows[i]) - (Len(rows[i]) % BatchSize) THEN "committing"
    ELSE IF n % BatchSize = 0 THEN "selecting" ELSE "upserting"

AfterRow(i, n) ==
    IF n = Len(rows[i]) THEN "committing"
    ELSE IF n % BatchSize = 0 THEN "selecting" ELSE "upserting"

(* The checks of the arguments and parse_market_csv. *)
Start(i, file) ==
    /\ pc[i] = "idle" /\ runs < MaxRuns
    /\ runs' = runs + 1
    /\ \/ /\ file = None
          /\ Goto(i, "failed")
          /\ UNCHANGED <<rows, summary>>
       \/ /\ file # None
          /\ LET parsed == parse_market_csv(file) IN
             /\ rows' = [rows EXCEPT ![i] = parsed.rows]
             /\ summary' = [summary EXCEPT ![i].total_csv_rows = Len(file),
                                              ![i].skipped = parsed.skipped]
             /\ Goto(i, IF parsed.rows = << >> THEN "committing" ELSE "selecting")
    /\ UNCHANGED <<market_data, written, sent, new, alone, faults>>

(* existing_timestamp_query and the counts of a batch. *)
SelectExisting(i) ==
    /\ pc[i] = "selecting"
    /\ LET batch == batched(i)
           existing == {s \in Stored \cup {t \in Stamps : written[i][t] # None} :
                           \E k \in DOMAIN batch : batch[k].timestamp = s}
       IN summary' = [summary EXCEPT
             ![i].updated_rows = @ + Cardinality(existing),
             ![i].inserted_rows = @ + Len(batch) - Cardinality(existing)]
    /\ Goto(i, "upserting")
    /\ UNCHANGED <<market_data, written, rows, sent, new, alone, runs, faults>>

(* Mutant: the error is raised without the rollback. *)
RaiseOnly(i) ==
    /\ Goto(i, "failed")
    /\ UNCHANGED <<market_data, written, rows, summary, sent, new, alone, runs>>

(* session.rollback(), which releases the locks; main returns 1. *)
Rollback(i) ==
    /\ written' = [written EXCEPT ![i] = NoRows]
    /\ Goto(i, "failed")
    /\ UNCHANGED <<market_data, rows, summary, sent, new, alone, runs>>

(* execute_upsert, row by row: the statement waits for the transaction     *)
(* that holds the row.  It fails on a value the table does not take and on *)
(* a second row for one timestamp.                                         *)
UpsertRow(i) ==
    /\ pc[i] = "upserting"
    /\ Holder(NextRow(i).timestamp) \subseteq {i}
    /\ LET row == NextRow(i)
           twice == \E k \in (sent[i] - (sent[i] % BatchSize) + 1)..sent[i] :
                        rows[i][k].timestamp = row.timestamp
       IN \/ /\ Storable(StoredBar(row)) /\ ~twice
             /\ written' = [written EXCEPT ![i][row.timestamp] = StoredBar(row)]
             /\ sent' = [sent EXCEPT ![i] = @ + 1]
             /\ Goto(i, AfterRow(i, sent[i] + 1))
             /\ UNCHANGED <<market_data, rows, summary, new, alone, runs>>
          \/ /\ ~Storable(StoredBar(row)) \/ twice
             /\ Rollback(i)
    /\ UNCHANGED faults

(* PostgreSQL ends a deadlock by failing one of the statements in it. *)
DeadlockDetected(i) == Deadlocked(i) /\ Rollback(i) /\ UNCHANGED faults

Install(i) ==
    /\ market_data' = [s \in Stamps |-> IF written[i][s] # None THEN written[i][s]
                                        ELSE market_data[s]]
    /\ written' = [written EXCEPT ![i] = NoRows]
    /\ new' = [new EXCEPT ![i] = {s \in Stamps : written[i][s] # None} \ Stored]
    /\ alone' = [j \in Imports |-> alone[j] /\ (j = i \/ pc[j] \notin InTransaction)]

Commit(i) ==
    /\ pc[i] = "committing"
    /\ Install(i)
    /\ Goto(i, "summarising")
    /\ UNCHANGED <<rows, summary, sent, runs, faults>>

(* The three queries after the transaction, each on its own snapshot.  An  *)
(* empty table has neither an earliest nor a latest timestamp.             *)
QueryEarliest(i) ==
    /\ pc[i] = "summarising"
    /\ summary' = [summary EXCEPT ![i].earliest = IF Stored = {} THEN None ELSE Min(Stored)]
    /\ Goto(i, "latest")
    /\ UNCHANGED <<market_data, written, rows, sent, new, alone, runs, faults>>

QueryLatest(i) ==
    /\ pc[i] = "latest"
    /\ summary' = [summary EXCEPT ![i].latest = IF Stored = {} THEN None ELSE Max(Stored)]
    /\ Goto(i, "total")
    /\ UNCHANGED <<market_data, written, rows, sent, new, alone, runs, faults>>

QueryTotal(i) ==
    /\ pc[i] = "total"
    /\ summary' = [summary EXCEPT ![i].total_symbol_rows = Cardinality(Stored)]
    /\ Goto(i, "done")
    /\ UNCHANGED <<market_data, written, rows, sent, new, alone, runs, faults>>

(* A statement or the commit fails because the connection is lost, the     *)
(* latter perhaps after PostgreSQL has committed.                          *)
ConnectionLost(i) ==
    /\ faults < MaxFaults /\ faults' = faults + 1
    /\ pc[i] \notin {"idle", "done", "failed"}
    /\ \/ Rollback(i)
       \/ /\ pc[i] = "committing"
          /\ Install(i)
          /\ Goto(i, "failed")
          /\ UNCHANGED <<rows, summary, sent, runs>>

(* The script is run again, in a process of its own. *)
RunAgain(i) ==
    /\ pc[i] \in {"done", "failed"} /\ runs < MaxRuns
    /\ Goto(i, "idle")
    /\ rows' = [rows EXCEPT ![i] = << >>]
    /\ summary' = [summary EXCEPT ![i] = NoSummary]
    /\ sent' = [sent EXCEPT ![i] = 0]
    /\ new' = [new EXCEPT ![i] = {}] /\ alone' = [alone EXCEPT ![i] = TRUE]
    /\ UNCHANGED <<market_data, written, runs, faults>>

Step(i) ==
    \/ SelectExisting(i) \/ UpsertRow(i) \/ DeadlockDetected(i) \/ Commit(i)
    \/ QueryEarliest(i) \/ QueryLatest(i) \/ QueryTotal(i)

Next ==
    \E i \in Imports :
        \/ \E file \in Files[i] : Start(i, file)
        \/ Step(i) \/ ConnectionLost(i) \/ RunAgain(i)

Spec == Init /\ [][Next]_vars

(* A process that runs goes on, and PostgreSQL looks for deadlocks. *)
FairSpec == Spec /\ \A i \in Imports : WF_vars(Step(i))

-----------------------------------------------------------------------------
(* What a file means: for each timestamp its first acceptable row. *)
Acceptable(file, s) ==
    {k \in DOMAIN file : file[k].timestamp = s /\ parse_market_row(file[k])}
Meaning(file) ==
    [s \in Stamps |-> IF Acceptable(file, s) = {} THEN None
                      ELSE StoredBar(file[Min(Acceptable(file, s))])]

(* Readers never see a part of a file: whatever fails, waits or runs at    *)
(* the same time, market_data changes by the whole meaning of one file,    *)
(* although it is written batch by batch and row by row.                   *)
Table == INSTANCE MarketTable WITH
            table <- market_data,
            Updates <- {Meaning(f) : f \in (UNION {Files[i] : i \in Imports}) \ {None}}
ImportsWholeFiles == Table!TableSpec

(* The summary adds up and covers the file.  Its count of insertions is    *)
(* taken before the rows are written: it is right if no other import       *)
(* committed in the meantime, and never too small if one did.              *)
SummaryIsHonest ==
    \A i \in Imports : pc[i] \in {"summarising", "latest", "total", "done"} =>
        LET got == summary[i] IN
        /\ got.inserted_rows + got.updated_rows + got.skipped = got.total_csv_rows
        /\ got.inserted_rows >= Cardinality(new[i])
        /\ alone[i] => got.inserted_rows = Cardinality(new[i])
        /\ pc[i] = "done" =>
              /\ got.total_symbol_rows >= Len(rows[i])
              /\ \A k \in DOMAIN rows[i] :
                    got.earliest <= rows[i][k].timestamp /\ rows[i][k].timestamp <= got.latest

(* No import waits for ever: whoever holds a row that another one needs    *)
(* ends its transaction, by a commit, an error or as a deadlock's victim.  *)
EveryImportEnds == \A i \in Imports : pc[i] # "idle" ~> pc[i] \in {"done", "failed"}
=============================================================================
