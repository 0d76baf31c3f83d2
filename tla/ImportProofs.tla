---------------------------- MODULE ImportProofs ----------------------------
(***************************************************************************)
(* Theorems about MarketImport, for any number of imports, any files, any  *)
(* batch size and any number of runs and of lost connections: the table    *)
(* changes by whole files, and a summary is true of the file it is about.  *)
(***************************************************************************)
EXTENDS MarketImport, FiniteSetTheorems, WellFoundedInduction, TLAPS

-----------------------------------------------------------------------------
(* What parse_market_csv computes.  Induction over a file is over a set of *)
(* numbers, which the provers can handle, instead of over a predicate.     *)

(* A nonempty set of natural numbers has a least element. *)
LEMMA NatMin == ASSUME NEW T \in SUBSET Nat, T # {} PROVE \E x \in T : \A y \in T : x <= y
<1> DEFINE R == OpToRel(<,Nat)
<1>1. IsWellFoundedOn(R, Nat)
  BY NatLessThanWellFounded
<1>2. \A x, y \in Nat : <<y, x>> \in R <=> y < x
  BY DEF OpToRel
<1> HIDE DEF R
<1>3. PICK x \in T : \A y \in T : ~ (<<y, x>> \in R)
  BY <1>1, WFMin
<1>4. ASSUME NEW y \in T PROVE x <= y
  <2>1. x \in Nat /\ y \in Nat
    OBVIOUS
  <2>2. ~(y < x)
    BY <1>2, <1>3, <2>1
  <2> QED
    BY <2>1, <2>2
<1> QED
  BY <1>4

(* Induction, over a set instead of a predicate. *)
LEMMA NatSet == ASSUME NEW S \in SUBSET Nat, 0 \in S, \A n \in S : n + 1 \in S PROVE S = Nat
<1> SUFFICES ASSUME S # Nat PROVE FALSE
  OBVIOUS
<1>1. PICK x \in Nat \ S : \A y \in Nat \ S : x <= y
  BY NatMin
<1>2. x - 1 \in S /\ x # 0
  BY <1>1
<1> QED BY <1>1, <1>2

LEMMA MaxOfSet ==
    ASSUME NEW N \in Nat, NEW t \in SUBSET (1..N), t # {}
    PROVE  Max(t) \in t /\ \A y \in t : Max(t) >= y
<1>1. PICK T : T = {N - x : x \in t}
  OBVIOUS
<1>2. T \in SUBSET Nat /\ T # {}
  <2>1. \A x \in t : N - x \in Nat
    OBVIOUS
  <2> QED
    BY <1>1, <2>1
<1>3. PICK d \in T : \A y \in T : d <= y
  BY <1>2, NatMin
<1>4. PICK m \in t : d = N - m
  BY <1>1, <1>3
<1>5. ASSUME NEW y \in t PROVE m >= y
  <2>1. N - y \in T /\ d <= N - y
    BY <1>1, <1>3
  <2> QED
    BY <1>4, <2>1
<1>6. \E x \in t : \A y \in t : x >= y
  BY <1>5
<1> QED
  BY <1>6 DEF Max

(* Reading a file row by row: acc[n] is the state of the loop after n rows. *)
IsReading(acc, file) ==
    /\ acc[0] = [rows |-> << >>, skipped |-> 0]
    /\ \A n \in 1..Len(file) : acc[n] = ReadRow(acc[n - 1], file[n])

(* The fold of parse_market_csv is defined on all sets of row numbers. *)
Turn(h, file, n) ==
    [t \in SUBSET (1..n) |-> IF t = {} THEN [rows |-> << >>, skipped |-> 0]
                             ELSE ReadRow(h[t \ {Max(t)}], file[Max(t)])]

LEMMA MaxTop ==
    ASSUME NEW n \in Nat, NEW t \in SUBSET (1..(n + 1)), n + 1 \in t
    PROVE  Max(t) = n + 1 /\ t \ {n + 1} \in SUBSET (1..n)
<1>1. Max(t) \in t /\ \A y \in t : Max(t) >= y
  <2>1. PICK N \in Nat : N = n + 1
    OBVIOUS
  <2> QED
    BY <2>1, MaxOfSet
<1>2. Max(t) \in 1..(n + 1) /\ Max(t) >= n + 1
  BY <1>1
<1> QED
  BY <1>2

LEMMA TurnExists == ASSUME NEW file, NEW n \in Nat PROVE \E h : h = Turn(h, file, n)
<1> DEFINE Good == {m \in Nat : \E h : h = Turn(h, file, m)}
<1>1. 0 \in Good
  <2> DEFINE h == [t \in SUBSET (1..0) |-> [rows |-> << >>, skipped |-> 0]]
  <2>1. \A t \in SUBSET (1..0) : t = {}
    OBVIOUS
  <2>2. h = Turn(h, file, 0)
    BY <2>1 DEF Turn
  <2> QED
    BY <2>2
<1>2. ASSUME NEW m \in Good PROVE m + 1 \in Good
  <2>0. m \in Nat
    OBVIOUS
  <2>1. PICK h : h = Turn(h, file, m)
    OBVIOUS
  <2> DEFINE g == [t \in SUBSET (1..(m + 1)) |->
                      IF t \in SUBSET (1..m) THEN h[t]
                      ELSE ReadRow(h[t \ {Max(t)}], file[Max(t)])]
  <2>2. \A t \in SUBSET (1..m) : t \in SUBSET (1..(m + 1)) /\ g[t] = h[t]
    BY <2>0
  <2>3. {} \in SUBSET (1..m)
    OBVIOUS
  <2>4. ASSUME NEW t \in SUBSET (1..(m + 1)), t # {} PROVE t \ {Max(t)} \in SUBSET (1..m)
    <3>1. CASE m + 1 \in t
      BY <2>0, <3>1, MaxTop
    <3>2. CASE m + 1 \notin t
      <4>1. \A x \in t : x \in 1..(m + 1) /\ x # m + 1
        BY <3>2
      <4>2. \A x \in t : x \in 1..m
        BY <2>0, <4>1
      <4> QED
        BY <4>2
    <3> QED
      BY <3>1, <3>2
  <2>5. ASSUME NEW t \in SUBSET (1..(m + 1))
        PROVE  g[t] = IF t = {} THEN [rows |-> << >>, skipped |-> 0]
                      ELSE ReadRow(g[t \ {Max(t)}], file[Max(t)])
    <3>1. t # {} => g[t \ {Max(t)}] = h[t \ {Max(t)}]
      BY <2>2, <2>4
    <3>2. CASE t \in SUBSET (1..m)
      <4>1. h[t] = IF t = {} THEN [rows |-> << >>, skipped |-> 0]
                   ELSE ReadRow(h[t \ {Max(t)}], file[Max(t)])
        BY <2>1, <3>2 DEF Turn
      <4>2. g[t] = h[t]
        BY <2>2, <3>2
      <4> HIDE DEF g
      <4> QED
        BY <3>1, <4>1, <4>2
    <3>3. CASE t \notin SUBSET (1..m)
      <4>1. g[t] = ReadRow(h[t \ {Max(t)}], file[Max(t)]) /\ t # {}
        BY <2>3, <3>3
      <4> HIDE DEF g
      <4> QED
        BY <3>1, <4>1
    <3> QED
      BY <3>2, <3>3
  <2>6. g = [t \in SUBSET (1..(m + 1)) |-> g[t]]
    OBVIOUS
  <2> HIDE DEF g
  <2>7. g = Turn(g, file, m + 1)
    BY <2>5, <2>6 DEF Turn
  <2> QED
    BY <2>0, <2>7
<1>3. Good \in SUBSET Nat
  OBVIOUS
<1>4. n \in Good
  <2> HIDE DEF Good
  <2> QED
    BY <1>1, <1>2, <1>3, NatSet
<1> QED
  BY <1>4

LEMMA ReadingExists ==
    ASSUME NEW file \in Seq(RawRow)
    PROVE  \E acc : IsReading(acc, file) /\ parse_market_csv(file) = acc[Len(file)]
<1>0. PICK n \in Nat : n = Len(file) /\ DOMAIN file = 1..n
  OBVIOUS
<1>1. PICK base : base = [rows |-> << >>, skipped |-> 0]
  OBVIOUS
<1>2. PICK S : S = 1..n
  OBVIOUS
<1> DEFINE T(f) == [t \in SUBSET S |-> IF t = {} THEN base
                                       ELSE ReadRow(f[t \ {Max(t)}], file[Max(t)])]
<1>3. PICK h : h = T(h)
  <2>1. PICK h : h = Turn(h, file, n)
    BY TurnExists
  <2>2. h = T(h)
    BY <1>1, <1>2, <2>1 DEF Turn
  <2> QED
    BY <2>2
<1>4. FoldLeft(ReadRow, base, file) = (CHOOSE f : f = T(f))[S]
  BY <1>0, <1>2, Zenon DEF FoldLeft, MapThenFoldSet
<1>5. PICK iter : iter = T(iter) /\ FoldLeft(ReadRow, base, file) = iter[S]
  <2> HIDE DEF T
  <2> QED
    BY <1>3, <1>4
<1>6. \A t \in SUBSET S : iter[t] = IF t = {} THEN base
                                    ELSE ReadRow(iter[t \ {Max(t)}], file[Max(t)])
  BY <1>5
<1> HIDE DEF T
<1>7. PICK acc : acc = [k \in 0..n |-> iter[1..k]]
  OBVIOUS
<1>8. acc[0] = base
  <2>1. 1..0 = {} /\ {} \in SUBSET S
    OBVIOUS
  <2> QED
    BY <1>6, <1>7, <2>1
<1>9. ASSUME NEW k \in 1..n PROVE acc[k] = ReadRow(acc[k - 1], file[k])
  <2>1. PICK m \in Nat : k = m + 1
    BY <1>0
  <2>2. PICK t : t = 1..k
    OBVIOUS
  <2>3. t \in SUBSET (1..(m + 1)) /\ m + 1 \in t /\ t # {} /\ t \in SUBSET S
    <3>1. \A x \in 1..k : x \in 1..n
      BY <1>0
    <3>2. k \in t
      BY <1>0, <2>2
    <3> QED
      BY <1>2, <2>1, <2>2, <3>1, <3>2
  <2>4. Max(t) = k
    BY <2>1, <2>3, MaxTop
  <2>5. t \ {k} = 1..m
    BY <2>1, <2>2
  <2>6. acc[k] = iter[t] /\ acc[k - 1] = iter[1..m]
    BY <1>7, <2>1, <2>2
  <2> QED
    BY <1>6, <2>3, <2>4, <2>5, <2>6
<1>10. parse_market_csv(file) = acc[n]
  BY <1>0, <1>1, <1>2, <1>5, <1>7 DEF parse_market_csv
<1> QED
  BY <1>0, <1>1, <1>8, <1>9, <1>10 DEF IsReading

(* What the loop has read after n rows of a file. *)
Accepted == {raw \in RawRow : parse_market_row(raw)}

FirstOf(file, m) ==
    /\ parse_market_row(file[m])
    /\ \A l \in 1..(m - 1) : parse_market_row(file[l]) => file[l].timestamp # file[m].timestamp

Distinct(seq) == \A k, l \in DOMAIN seq : seq[k].timestamp = seq[l].timestamp => k = l

HasRead(acc, file, n) ==
    /\ acc \in [rows : Seq(Accepted), skipped : Nat]
    /\ Len(acc.rows) + acc.skipped = n
    /\ Distinct(acc.rows)
    /\ \A k \in DOMAIN acc.rows : \E m \in 1..n : acc.rows[k] = file[m] /\ FirstOf(file, m)
    /\ \A m \in 1..n : parse_market_row(file[m]) =>
          \E k \in DOMAIN acc.rows : acc.rows[k].timestamp = file[m].timestamp

LEMMA ReadOne ==
    ASSUME NEW file \in Seq(RawRow), NEW n \in Nat, n + 1 \in 1..Len(file),
           NEW acc, HasRead(acc, file, n)
    PROVE  HasRead(ReadRow(acc, file[n + 1]), file, n + 1)
<1>1. PICK raw \in RawRow : raw = file[n + 1]
  OBVIOUS
<1>2. PICK seq \in Seq(Accepted) : seq = acc.rows
  BY DEF HasRead
<1>3. acc = [rows |-> seq, skipped |-> acc.skipped] /\ acc.skipped \in Nat
      /\ Len(seq) + acc.skipped = n /\ Len(seq) \in Nat /\ DOMAIN seq = 1..Len(seq)
  BY <1>2 DEF HasRead
<1>4. 1..(n + 1) = (1..n) \cup {n + 1}
  OBVIOUS
<1>5. CASE parse_market_row(raw) /\ ~\E k \in DOMAIN seq : seq[k].timestamp = raw.timestamp
  <2>1. PICK longer : longer = Append(seq, raw)
    OBVIOUS
  <2>2. raw \in Accepted
    BY <1>5 DEF Accepted
  <2>3. /\ longer \in Seq(Accepted) /\ Len(longer) = Len(seq) + 1
        /\ DOMAIN longer = 1..(Len(seq) + 1)
        /\ \A k \in 1..Len(seq) : longer[k] = seq[k]
        /\ longer[Len(seq) + 1] = raw
    BY <1>3, <2>1, <2>2
  <2>4. ReadRow(acc, raw) = [rows |-> longer, skipped |-> acc.skipped]
    BY <1>2, <1>3, <1>5, <2>1 DEF ReadRow
  <2>5. 1..(Len(seq) + 1) = (1..Len(seq)) \cup {Len(seq) + 1}
    BY <1>3
  <2>6. Distinct(longer)
    <3>1. \A k, l \in 1..Len(seq) : longer[k].timestamp = longer[l].timestamp => k = l
      <4>1. Distinct(seq)
        BY <1>2 DEF HasRead
      <4>2. \A k \in 1..Len(seq) : longer[k].timestamp = seq[k].timestamp
        BY <2>3
      <4> QED
        BY <1>3, <4>1, <4>2 DEF Distinct
    <3>2. \A k \in 1..Len(seq) : longer[k].timestamp # longer[Len(seq) + 1].timestamp
      BY <1>3, <1>5, <2>3
    <3> QED
      BY <2>3, <2>5, <3>1, <3>2 DEF Distinct
  <2>7. ASSUME NEW k \in DOMAIN longer
        PROVE  \E m \in 1..(n + 1) : longer[k] = file[m] /\ FirstOf(file, m)
    <3>1. CASE k \in 1..Len(seq)
      BY <1>2, <1>3, <1>4, <2>3, <3>1 DEF HasRead
    <3>2. CASE k = Len(seq) + 1
      <4>1. FirstOf(file, n + 1)
        <5>1. (n + 1) - 1 = n
          OBVIOUS
        <5>2. \A l \in 1..n : parse_market_row(file[l]) => file[l].timestamp # raw.timestamp
          BY <1>2, <1>5 DEF HasRead
        <5> QED
          BY <1>1, <1>5, <5>1, <5>2 DEF FirstOf
      <4> QED
        BY <1>1, <1>4, <2>3, <3>2, <4>1
    <3> QED
      BY <2>3, <2>5, <3>1, <3>2
  <2>8. ASSUME NEW m \in 1..(n + 1), parse_market_row(file[m])
        PROVE  \E k \in DOMAIN longer : longer[k].timestamp = file[m].timestamp
    <3>1. CASE m \in 1..n
      <4>1. PICK k \in DOMAIN seq : seq[k].timestamp = file[m].timestamp
        BY <1>2, <2>8, <3>1 DEF HasRead
      <4> QED
        BY <1>3, <2>3, <2>5, <4>1
    <3>2. CASE m = n + 1
      BY <1>1, <2>3, <2>5, <3>2
    <3> QED
      BY <1>4, <3>1, <3>2
  <2>9. Len(longer) + acc.skipped = n + 1
    BY <1>3, <2>3
  <2>10. PICK new_acc : new_acc = [rows |-> longer, skipped |-> acc.skipped]
    OBVIOUS
  <2>11. new_acc \in [rows : Seq(Accepted), skipped : Nat] /\ new_acc.rows = longer
         /\ new_acc.skipped = acc.skipped
    BY <1>3, <2>3, <2>10
  <2> QED
    BY <1>1, <2>4, <2>6, <2>7, <2>8, <2>9, <2>10, <2>11 DEF HasRead
<1>6. CASE ~(parse_market_row(raw) /\ ~\E k \in DOMAIN seq : seq[k].timestamp = raw.timestamp)
  <2>1. PICK next : next = [rows |-> seq, skipped |-> acc.skipped + 1]
    OBVIOUS
  <2>2. ReadRow(acc, raw) = next
    BY <1>2, <1>3, <1>6, <2>1 DEF ReadRow
  <2>3. next \in [rows : Seq(Accepted), skipped : Nat] /\ next.rows = seq
        /\ Len(next.rows) + next.skipped = n + 1
    BY <1>3, <2>1
  <2>4. \A m \in 1..(n + 1) : parse_market_row(file[m]) =>
            \E k \in DOMAIN seq : seq[k].timestamp = file[m].timestamp
    BY <1>1, <1>2, <1>4, <1>6 DEF HasRead
  <2>5. \A k \in DOMAIN seq : \E m \in 1..(n + 1) : seq[k] = file[m] /\ FirstOf(file, m)
    BY <1>2, <1>4 DEF HasRead
  <2>6. Distinct(seq)
    BY <1>2 DEF HasRead
  <2> QED
    BY <1>1, <2>2, <2>3, <2>4, <2>5, <2>6 DEF HasRead
<1> QED
  BY <1>5, <1>6

(* parse_market_csv keeps the first acceptable row of each timestamp, and  *)
(* accounts for every row of the file.                                     *)
THEOREM ParseKeepsFirstRows ==
    ASSUME NEW file \in Seq(RawRow)
    PROVE  HasRead(parse_market_csv(file), file, Len(file))
<1>1. PICK acc : IsReading(acc, file) /\ parse_market_csv(file) = acc[Len(file)]
  BY ReadingExists
<1>2. PICK N \in Nat : N = Len(file)
  OBVIOUS
<1> DEFINE Good == {n \in Nat : n <= N => HasRead(acc[n], file, n)}
<1>3. 0 \in Good
  <2>1. PICK a : a = [rows |-> << >>, skipped |-> 0]
    OBVIOUS
  <2>2. a \in [rows : Seq(Accepted), skipped : Nat] /\ a.rows = << >> /\ a.skipped = 0
    BY <2>1
  <2>3. Len(a.rows) + a.skipped = 0 /\ DOMAIN a.rows = {} /\ 1..0 = {}
    BY <2>2
  <2>4. HasRead(a, file, 0)
    BY <2>2, <2>3 DEF HasRead, Distinct
  <2> QED
    BY <1>1, <2>1, <2>4 DEF IsReading
<1>4. ASSUME NEW n \in Good PROVE n + 1 \in Good
  <2>1. n \in Nat /\ n + 1 \in Nat
    OBVIOUS
  <2>2. ASSUME n + 1 <= N PROVE HasRead(acc[n + 1], file, n + 1)
    <3>1. HasRead(acc[n], file, n)
      BY <2>1, <2>2
    <3>2. n + 1 \in 1..Len(file) /\ (n + 1) - 1 = n
      BY <1>2, <2>1, <2>2
    <3>3. acc[n + 1] = ReadRow(acc[n], file[n + 1])
      BY <1>1, <3>2 DEF IsReading
    <3> QED
      BY <2>1, <3>1, <3>2, <3>3, ReadOne
  <2> QED
    BY <2>1, <2>2
<1>5. Good \in SUBSET Nat
  OBVIOUS
<1>6. N \in Good
  <2> HIDE DEF Good
  <2> QED
    BY <1>3, <1>4, <1>5, NatSet
<1> QED
  BY <1>1, <1>2, <1>6

-----------------------------------------------------------------------------
(* What a transaction has written after n of its rows. *)
Upserted(table, seq, n) ==
    /\ table \in [Stamps -> Bar \cup {None}]
    /\ \A s \in Stamps :
          \/ /\ table[s] = None
             /\ \A k \in 1..n : seq[k].timestamp # s
          \/ \E k \in 1..n : seq[k].timestamp = s /\ table[s] = StoredBar(seq[k])

LEMMA AcceptedStored ==
    ASSUME NEW raw \in Accepted
    PROVE  StoredBar(raw) \in Bar /\ raw.timestamp \in Stamps
<1>1. ASSUME NEW p \in Int PROVE Rounded(p) \in Int
  BY FileAssumption DEF Rounded
<1>2. Rounded(None) = None
  BY DEF Rounded
<1>3. /\ raw.timestamp \in Stamps /\ raw.open \in Int /\ raw.high \in Int /\ raw.low \in Int
      /\ raw.close \in Int /\ raw.volume \in Int /\ raw.adjusted_close \in Int \cup {None}
  <2>1. raw.open # None /\ raw.high # None /\ raw.low # None /\ raw.close # None
    <3>1. \A p \in Prices : raw[p] # None
      BY DEF Accepted, parse_market_row
    <3> QED
      BY <3>1 DEF Prices, Accepted, RawRow
  <2> QED
    BY <2>1 DEF Accepted, RawRow, parse_market_row
<1>4. Rounded(raw.adjusted_close) \in Int \cup {None}
  BY <1>1, <1>2, <1>3
<1> QED
  BY <1>1, <1>3, <1>4 DEF StoredBar, Bar

(* A transaction that has written all the rows of a file has written what  *)
(* the file means.                                                         *)
LEMMA AllRowsAreTheMeaning ==
    ASSUME NEW file \in Seq(RawRow), NEW acc, HasRead(acc, file, Len(file)),
           NEW table, Upserted(table, acc.rows, Len(acc.rows))
    PROVE  table = Meaning(file)
<1>1. PICK seq \in Seq(Accepted) : seq = acc.rows
  BY DEF HasRead
<1>2. DOMAIN seq = 1..Len(seq) /\ DOMAIN file = 1..Len(file) /\ Len(file) \in Nat
  OBVIOUS
<1>3. ASSUME NEW s \in Stamps PROVE table[s] = Meaning(file)[s]
  <2>1. Meaning(file)[s] = IF Acceptable(file, s) = {} THEN None
                           ELSE StoredBar(file[Min(Acceptable(file, s))])
    BY DEF Meaning
  <2>2. CASE /\ table[s] = None
             /\ \A k \in 1..Len(seq) : seq[k].timestamp # s
    <3>0. \A m \in 1..Len(file) : parse_market_row(file[m]) => file[m].timestamp # s
      <4>1. \A m \in 1..Len(file) : parse_market_row(file[m]) =>
                \E k \in DOMAIN seq : seq[k].timestamp = file[m].timestamp
        BY <1>1 DEF HasRead
      <4> QED
        BY <1>2, <2>2, <4>1
    <3>1. Acceptable(file, s) = {}
      BY <1>2, <3>0, Zenon DEF Acceptable
    <3> QED
      BY <2>1, <2>2, <3>1
  <2>3. ASSUME NEW k \in 1..Len(seq), seq[k].timestamp = s, table[s] = StoredBar(seq[k])
        PROVE  table[s] = Meaning(file)[s]
    <3>1. PICK m \in 1..Len(file) : seq[k] = file[m] /\ FirstOf(file, m)
      BY <1>1, <1>2 DEF HasRead
    <3>2. m \in Acceptable(file, s)
      BY <1>2, <2>3, <3>1 DEF Acceptable, FirstOf
    <3>3. ASSUME NEW l \in Acceptable(file, s) PROVE m <= l
      <4>1. l \in 1..Len(file) /\ file[l].timestamp = file[m].timestamp /\ parse_market_row(file[l])
        BY <1>2, <2>3, <3>1 DEF Acceptable
      <4>2. l \notin 1..(m - 1)
        BY <3>1, <4>1 DEF FirstOf
      <4> QED
        BY <1>2, <4>1, <4>2
    <3>4. PICK A : A = Acceptable(file, s)
      OBVIOUS
    <3>5. \A l \in A : l \in Int
      BY <1>2, <3>4 DEF Acceptable
    <3>6. Min(A) = m
      <4>1. \E x \in A : \A y \in A : x <= y
        BY <3>2, <3>3, <3>4
      <4>2. Min(A) \in A /\ \A y \in A : Min(A) <= y
        BY <4>1 DEF Min
      <4>3. Min(A) <= m /\ m <= Min(A) /\ Min(A) \in Int /\ m \in Int
        BY <3>2, <3>3, <3>4, <3>5, <4>2
      <4> QED
        BY <4>3
    <3> QED
      BY <2>1, <2>3, <3>1, <3>2, <3>4, <3>6
  <2> QED
    BY <1>1, <2>2, <2>3 DEF Upserted
<1>4. table = [s \in Stamps |-> table[s]] /\ Meaning(file) = [s \in Stamps |-> Meaning(file)[s]]
  BY DEF Upserted, Meaning
<1> QED
  BY <1>3, <1>4

(* One more row. *)
LEMMA UpsertOne ==
    ASSUME NEW seq \in Seq(Accepted), Distinct(seq), NEW n \in Nat, n + 1 \in 1..Len(seq),
           NEW table, Upserted(table, seq, n)
    PROVE  /\ seq[n + 1].timestamp \in Stamps
           /\ Upserted([table EXCEPT ![seq[n + 1].timestamp] = StoredBar(seq[n + 1])], seq, n + 1)
<1>1. PICK row \in Accepted : row = seq[n + 1]
  OBVIOUS
<1>2. StoredBar(row) \in Bar /\ row.timestamp \in Stamps
  BY AcceptedStored
<1>3. PICK after : after = [table EXCEPT ![row.timestamp] = StoredBar(row)]
  OBVIOUS
<1>4. /\ after \in [Stamps -> Bar \cup {None}] /\ after[row.timestamp] = StoredBar(row)
      /\ \A s \in Stamps : s # row.timestamp => after[s] = table[s]
  BY <1>2, <1>3 DEF Upserted
<1>5. 1..(n + 1) = (1..n) \cup {n + 1}
  OBVIOUS
<1>6. ASSUME NEW s \in Stamps
      PROVE  \/ /\ after[s] = None
                /\ \A k \in 1..(n + 1) : seq[k].timestamp # s
             \/ \E k \in 1..(n + 1) : seq[k].timestamp = s /\ after[s] = StoredBar(seq[k])
  <2>1. CASE s = row.timestamp
    BY <1>1, <1>4, <1>5, <2>1
  <2>2. CASE s # row.timestamp
    BY <1>1, <1>4, <1>5, <2>2 DEF Upserted
  <2> QED
    BY <2>1, <2>2
<1> QED
  BY <1>1, <1>2, <1>3, <1>4, <1>6 DEF Upserted

-----------------------------------------------------------------------------
(* Batches: a row is the last one of its batch or in it with the next one. *)
LEMMA DivisionUnique ==
    ASSUME NEW b \in Nat \ {0}, NEW q \in Int, NEW r \in 0..(b - 1),
           NEW p \in Int, NEW t \in 0..(b - 1), b * q + r = b * p + t
    PROVE  r = t
<1>1. b * (q - p) = t - r
  OBVIOUS
<1>2. PICK d \in Int : d = q - p
  OBVIOUS
<1>3. d >= 1 => b * d >= b
  OBVIOUS
<1>4. d <= -1 => b * d <= -b
  OBVIOUS
<1> QED
  BY <1>1, <1>2, <1>3, <1>4

LEMMA Remainder ==
    ASSUME NEW n \in Nat
    PROVE  /\ n % BatchSize \in 0..(BatchSize - 1) /\ n % BatchSize <= n
           /\ \E q \in Int : n = BatchSize * q + (n % BatchSize)
<1>1. BatchSize \in Nat \ {0}
  BY ImportAssumption
<1>2. n % BatchSize \in 0..(BatchSize - 1)
  BY <1>1
<1>3. n = BatchSize * (n \div BatchSize) + (n % BatchSize) /\ n \div BatchSize \in Int
  BY <1>1
<1>4. n % BatchSize <= n
  BY <1>1, <1>2, <1>3
<1> QED
  BY <1>2, <1>3, <1>4

LEMMA NextRemainder ==
    ASSUME NEW n \in Nat
    PROVE  (n + 1) % BatchSize = IF n % BatchSize = BatchSize - 1 THEN 0 ELSE (n % BatchSize) + 1
<1>1. PICK b \in Nat \ {0} : b = BatchSize
  BY ImportAssumption
<1>2. PICK r \in 0..(b - 1), q \in Int : r = n % BatchSize /\ n = b * q + r
  BY <1>1, Remainder
<1>3. PICK t \in 0..(b - 1), p \in Int : t = (n + 1) % BatchSize /\ n + 1 = b * p + t
  <2>1. PICK m \in Nat : m = n + 1
    OBVIOUS
  <2> QED
    BY <1>1, <2>1, Remainder
<1>4. CASE r = b - 1
  <2>1. b * (q + 1) + 0 = b * p + t
    BY <1>2, <1>3, <1>4
  <2>2. 0 = t
    BY <2>1, DivisionUnique
  <2> QED
    BY <1>1, <1>2, <1>3, <1>4, <2>2
<1>5. CASE r # b - 1
  <2>1. b * q + (r + 1) = b * p + t /\ r + 1 \in 0..(b - 1)
    BY <1>2, <1>3, <1>5
  <2>2. r + 1 = t
    BY <2>1, DivisionUnique
  <2> QED
    BY <1>1, <1>2, <1>3, <1>5, <2>2
<1> QED
  BY <1>4, <1>5

LEMMA ZeroRemainder == 0 % BatchSize = 0
BY Remainder

-----------------------------------------------------------------------------
(* The transactions.  Nobody else sees a transaction's rows, which are the *)
(* file's first `sent`; it commits once they are all of them.              *)

Places == InTransaction \cup {"idle", "failed", "summarising", "latest", "total", "done"}

Summary == [total_csv_rows : Nat, inserted_rows : Int, updated_rows : Nat, skipped : Nat,
            earliest : Stamps \cup {None}, latest : Stamps \cup {None}, total_symbol_rows : Nat]

ImportTypeOK ==
    /\ market_data \in [Stamps -> Bar \cup {None}]
    /\ written \in [Imports -> [Stamps -> Bar \cup {None}]]
    /\ pc \in [Imports -> Places]
    /\ rows \in [Imports -> Seq(Accepted)]
    /\ summary \in [Imports -> Summary]
    /\ sent \in [Imports -> Nat]
    /\ new \in [Imports -> SUBSET Stamps]
    /\ alone \in [Imports -> BOOLEAN]

Reads(file, i) ==
    /\ rows[i] = parse_market_csv(file).rows
    /\ summary[i].total_csv_rows = Len(file)
    /\ summary[i].skipped = parse_market_csv(file).skipped

InStep(i) ==
    /\ \E file \in Files[i] \ {None} : Reads(file, i)
    /\ Upserted(written[i], rows[i], sent[i])
    /\ sent[i] <= Len(rows[i])
    /\ pc[i] = "committing" <=> sent[i] = Len(rows[i])
    /\ pc[i] = "selecting" => sent[i] % BatchSize = 0

Trans(i) ==
    /\ pc[i] \in InTransaction => InStep(i)
    /\ pc[i] \notin InTransaction => written[i] = NoRows
    /\ pc[i] = "idle" => sent[i] = 0 /\ summary[i] = NoSummary

TransactionInv == \A i \in Imports : Trans(i)

ImportInv == ImportTypeOK /\ TransactionInv

LEMMA NoRowsEmpty == NoRows \in [Stamps -> Bar \cup {None}] /\ \A seq : Upserted(NoRows, seq, 0)
<1>1. NoRows \in [Stamps -> Bar \cup {None}] /\ \A s \in Stamps : NoRows[s] = None
  BY DEF NoRows
<1>2. \A k \in 1..0 : FALSE
  OBVIOUS
<1> QED
  BY <1>1, <1>2, Zenon DEF Upserted

(* The earliest and the latest of a set of timestamps. *)
LEMMA EarliestOf ==
    ASSUME NEW T \in SUBSET Stamps, T # {}
    PROVE  Min(T) \in T /\ \A y \in T : Min(T) <= y
<1>1. \E x \in T : \A y \in T : x <= y
  BY ImportAssumption, NatMin
<1> QED
  BY <1>1 DEF Min

LEMMA LatestOf ==
    ASSUME NEW T \in SUBSET Stamps, T # {}
    PROVE  Max(T) \in T /\ \A y \in T : Max(T) >= y
<1>0. T \in SUBSET Nat /\ IsFiniteSet(T)
  BY ImportAssumption, FS_Subset
<1>9. PICK n \in Nat : ExistsSurjection(1..n, T)
  BY <1>0, FS_NatSurjection
<1>1. PICK f \in Surjection(1..n, T) : TRUE
  BY <1>9 DEF ExistsSurjection
<1>2. f \in [1..n -> T] /\ \A y \in T : \E k \in 1..n : f[k] = y
  BY <1>1 DEF Surjection
<1> DEFINE Good == {m \in Nat : m = 0 \/ m > n \/ \E x \in 1..m : \A y \in 1..m : f[x] >= f[y]}
<1>3. 0 \in Good
  OBVIOUS
<1>4. ASSUME NEW m \in Good PROVE m + 1 \in Good
  <2>1. m \in Nat /\ 1..(m + 1) = (1..m) \cup {m + 1}
    OBVIOUS
  <2>2. CASE m + 1 > n
    BY <2>1, <2>2
  <2>3. CASE m + 1 <= n
    <3>1. \A x \in 1..(m + 1) : f[x] \in Nat
      <4>1. \A x \in 1..(m + 1) : x \in 1..n
        BY <2>1, <2>3
      <4> QED
        BY <1>0, <1>2, <4>1
    <3>2. CASE m = 0
      BY <2>1, <3>1, <3>2
    <3>3. CASE m # 0
      <4>1. PICK x \in 1..m : \A y \in 1..m : f[x] >= f[y]
        BY <2>1, <2>3, <3>3
      <4>2. \E z \in 1..(m + 1) : \A y \in 1..(m + 1) : f[z] >= f[y]
        <5>1. CASE f[x] >= f[m + 1]
          BY <2>1, <4>1, <5>1
        <5>2. CASE f[m + 1] >= f[x]
          <6>1. \A y \in 1..m : f[m + 1] >= f[y]
            BY <2>1, <3>1, <4>1, <5>2
          <6>2. f[m + 1] >= f[m + 1] /\ m + 1 \in 1..(m + 1)
            BY <2>1, <3>1
          <6> QED
            BY <2>1, <6>1, <6>2
        <5>3. f[x] \in Nat /\ f[m + 1] \in Nat
          BY <2>1, <3>1
        <5>4. \A a, b \in Nat : a >= b \/ b >= a
          OBVIOUS
        <5>5. f[x] >= f[m + 1] \/ f[m + 1] >= f[x]
          BY <5>3, <5>4
        <5> QED
          BY <5>1, <5>2, <5>5
      <4> QED
        BY <2>1, <4>2
    <3> QED
      BY <3>2, <3>3
  <2> QED
    BY <2>1, <2>2, <2>3
<1>5. n \in Good
  <2>1. Good \in SUBSET Nat
    OBVIOUS
  <2> HIDE DEF Good
  <2> QED
    BY <1>3, <1>4, <2>1, NatSet
<1>6. n # 0
  <2>1. 1..0 = {}
    OBVIOUS
  <2> QED
    BY <1>2, <2>1
<1>7. PICK x \in 1..n : \A y \in 1..n : f[x] >= f[y]
  BY <1>5, <1>6
<1>8. f[x] \in T /\ \A y \in T : f[x] >= y
  BY <1>2, <1>7
<1> QED
  BY <1>8 DEF Max

LEMMA ImportInit == Init => ImportInv
<1> SUFFICES ASSUME Init PROVE ImportInv
  OBVIOUS
<1>1. NoSummary \in Summary
  BY DEF NoSummary, Summary
<1>2. ImportTypeOK
  BY <1>1, NoRowsEmpty DEF Init, ImportTypeOK, Places
<1>3. TransactionInv
  BY DEF Init, TransactionInv, Trans, InTransaction
<1> QED
  BY <1>2, <1>3 DEF ImportInv

LEMMA OthersKeep ==
    ASSUME NEW j \in Imports, Trans(j), written'[j] = written[j], pc'[j] = pc[j],
           rows'[j] = rows[j], summary'[j] = summary[j], sent'[j] = sent[j]
    PROVE  Trans(j)'
BY DEF Trans, InStep, Reads

(* What is true of an import in its transaction. *)
LEMMA InsideTransaction ==
    ASSUME ImportInv, NEW i \in Imports, pc[i] \in InTransaction
    PROVE  /\ rows[i] \in Seq(Accepted) /\ Distinct(rows[i])
           /\ sent[i] \in Nat /\ sent[i] <= Len(rows[i])
           /\ (pc[i] # "committing" => sent[i] + 1 \in 1..Len(rows[i]))
           /\ \E file \in Files[i] \ {None} :
                 /\ file \in Seq(RawRow) /\ Reads(file, i)
                 /\ HasRead(parse_market_csv(file), file, Len(file))
<1>1. rows[i] \in Seq(Accepted) /\ sent[i] \in Nat /\ InStep(i)
  BY DEF ImportInv, ImportTypeOK, TransactionInv, Trans
<1>2. PICK file \in Files[i] \ {None} : Reads(file, i)
  BY <1>1 DEF InStep
<1>3. file \in Seq(RawRow)
  BY FileAssumption
<1>4. HasRead(parse_market_csv(file), file, Len(file))
  BY <1>3, ParseKeepsFirstRows
<1>5. Distinct(rows[i])
  BY <1>2, <1>4 DEF Reads, HasRead
<1>6. Len(rows[i]) \in Nat
  BY <1>1
<1>7. pc[i] # "committing" => sent[i] + 1 \in 1..Len(rows[i])
  BY <1>1, <1>6 DEF InStep
<1> QED
  BY <1>1, <1>2, <1>3, <1>4, <1>5, <1>7 DEF InStep

LEMMA StartStep ==
    ASSUME ImportInv, NEW i \in Imports, NEW file \in Files[i], Start(i, file)
    PROVE  ImportInv'
<1>1. ASSUME NEW j \in Imports, j # i PROVE Trans(j)'
  <2>1. /\ written'[j] = written[j] /\ pc'[j] = pc[j] /\ rows'[j] = rows[j]
        /\ summary'[j] = summary[j] /\ sent'[j] = sent[j]
    BY <1>1 DEF Start, Goto, ImportInv, ImportTypeOK
  <2> QED
    BY <2>1, OthersKeep DEF ImportInv, TransactionInv
<1>2. CASE file = None
  <2>1. /\ pc' = [pc EXCEPT ![i] = "failed"] /\ pc[i] = "idle"
        /\ UNCHANGED <<rows, summary, market_data, written, sent, new, alone>>
    BY <1>2 DEF Start, Goto
  <2>2. ImportTypeOK'
    BY <2>1 DEF ImportInv, ImportTypeOK, Places
  <2>3. Trans(i)'
    BY <2>1 DEF ImportInv, ImportTypeOK, TransactionInv, Trans, InTransaction
  <2> QED
    BY <1>1, <2>2, <2>3 DEF ImportInv, TransactionInv
<1>3. CASE file # None
  <2>1. file \in Seq(RawRow)
    BY <1>3, FileAssumption
  <2>2. PICK parsed : parsed = parse_market_csv(file)
    OBVIOUS
  <2>3. HasRead(parsed, file, Len(file))
    BY <2>1, <2>2, ParseKeepsFirstRows
  <2>4. parsed.rows \in Seq(Accepted) /\ parsed.skipped \in Nat /\ Len(file) \in Nat
    BY <2>1, <2>3 DEF HasRead
  <2>5. /\ rows' = [rows EXCEPT ![i] = parsed.rows]
        /\ summary' = [summary EXCEPT ![i].total_csv_rows = Len(file), ![i].skipped = parsed.skipped]
        /\ pc' = [pc EXCEPT ![i] = IF parsed.rows = << >> THEN "committing" ELSE "selecting"]
        /\ pc[i] = "idle" /\ UNCHANGED <<market_data, written, sent, new, alone>>
    BY <1>3, <2>2 DEF Start, Goto
  <2>6. summary' \in [Imports -> Summary]
        /\ summary'[i].total_csv_rows = Len(file) /\ summary'[i].skipped = parsed.skipped
    <3>1. PICK got \in Summary : got = summary[i]
      BY DEF ImportInv, ImportTypeOK
    <3>2. PICK after : after = [got EXCEPT !.total_csv_rows = Len(file), !.skipped = parsed.skipped]
      OBVIOUS
    <3>3. /\ after \in Summary /\ after.total_csv_rows = Len(file)
          /\ after.skipped = parsed.skipped
      BY <2>4, <3>2 DEF Summary
    <3>4. summary' = [summary EXCEPT ![i] = after]
      BY <2>5, <3>1, <3>2 DEF ImportInv, ImportTypeOK
    <3> QED
      BY <3>3, <3>4 DEF ImportInv, ImportTypeOK
  <2>7. ImportTypeOK'
    BY <2>4, <2>5, <2>6 DEF ImportInv, ImportTypeOK, Places, InTransaction
  <2>8. Trans(i)'
    <3>1. /\ rows'[i] = parsed.rows /\ sent'[i] = 0 /\ written'[i] = NoRows
          /\ pc'[i] = IF parsed.rows = << >> THEN "committing" ELSE "selecting"
      BY <2>5 DEF ImportInv, ImportTypeOK, TransactionInv, Trans, InTransaction
    <3>2. Reads(file, i)'
      BY <2>2, <2>6, <3>1 DEF Reads
    <3>3. Upserted(written[i], rows[i], sent[i])'
      BY <3>1, NoRowsEmpty
    <3>4. Len(parsed.rows) \in Nat /\ (Len(parsed.rows) = 0 <=> parsed.rows = << >>)
      BY <2>4
    <3>5. InStep(i)'
      BY <1>3, <3>1, <3>2, <3>3, <3>4, ZeroRemainder DEF InStep
    <3> QED
      BY <3>1, <3>5 DEF Trans, InTransaction
  <2> QED
    BY <1>1, <2>7, <2>8 DEF ImportInv, TransactionInv
<1> QED
  BY <1>2, <1>3

LEMMA MinOfTwo ==
    ASSUME NEW a \in Nat, NEW b \in Nat
    PROVE  Min({a, b}) \in {a, b} /\ Min({a, b}) <= a /\ Min({a, b}) <= b
<1>1. PICK T : T = {a, b}
  OBVIOUS
<1>2. \E x \in T : \A y \in T : x <= y
  BY <1>1, NatMin
<1>3. Min(T) \in T /\ \A y \in T : Min(T) <= y
  BY <1>2 DEF Min
<1> QED
  BY <1>1, <1>3

LEMMA SelectStep ==
    ASSUME ImportInv, NEW i \in Imports, SelectExisting(i)
    PROVE  ImportInv'
<1>1. PICK batch, existing :
          /\ batch = batched(i)
          /\ existing = {s \in Stored \cup {t \in Stamps : written[i][t] # None} :
                            \E k \in DOMAIN batch : batch[k].timestamp = s}
          /\ summary' = [summary EXCEPT
                ![i].updated_rows = @ + Cardinality(existing),
                ![i].inserted_rows = @ + Len(batch) - Cardinality(existing)]
  BY DEF SelectExisting
<1>2. /\ pc[i] = "selecting" /\ pc' = [pc EXCEPT ![i] = "upserting"]
      /\ UNCHANGED <<market_data, written, rows, sent, new, alone>>
  BY DEF SelectExisting, Goto
<1>3. Cardinality(existing) \in Nat
  <2>1. existing \in SUBSET Stamps
    BY <1>1 DEF Stored
  <2> QED
    BY <2>1, ImportAssumption, FS_Subset, FS_CardinalityType
<1>4. Len(batch) \in Nat
  <2>1. rows[i] \in Seq(Accepted) /\ sent[i] \in Nat /\ sent[i] + 1 \in 1..Len(rows[i])
    BY <1>2, InsideTransaction DEF InTransaction
  <2>2. PICK m : m = Min({sent[i] + BatchSize, Len(rows[i])})
    OBVIOUS
  <2>3. m \in {sent[i] + BatchSize, Len(rows[i])} /\ m <= sent[i] + BatchSize /\ m <= Len(rows[i])
    BY <2>1, <2>2, MinOfTwo, ImportAssumption
  <2>4. m \in Nat
    BY <2>1, <2>3, ImportAssumption
  <2>5. batch = SubSeq(rows[i], sent[i] + 1, m)
    BY <1>1, <2>2 DEF batched
  <2>6. batch \in Seq(Accepted)
    BY <2>1, <2>3, <2>4, <2>5
  <2> QED
    BY <2>6
<1>5. PICK got \in Summary : got = summary[i]
  BY DEF ImportInv, ImportTypeOK
<1>6. PICK after : after = [got EXCEPT !.updated_rows = @ + Cardinality(existing),
                                       !.inserted_rows = @ + Len(batch) - Cardinality(existing)]
  OBVIOUS
<1>7. /\ after \in Summary /\ after.total_csv_rows = got.total_csv_rows
      /\ after.skipped = got.skipped
  <2>1. got.updated_rows \in Nat /\ got.inserted_rows \in Int
    BY DEF Summary
  <2>2. PICK u \in Nat : u = got.updated_rows + Cardinality(existing)
    BY <1>3, <2>1
  <2>3. PICK v \in Int : v = got.inserted_rows + Len(batch) - Cardinality(existing)
    BY <1>3, <1>4, <2>1
  <2>4. after = [got EXCEPT !.updated_rows = u, !.inserted_rows = v]
    BY <1>6, <2>2, <2>3
  <2> QED
    BY <2>4 DEF Summary
<1>8. summary' = [summary EXCEPT ![i] = after]
  BY <1>1, <1>5, <1>6 DEF ImportInv, ImportTypeOK
<1>9. ImportTypeOK'
  BY <1>2, <1>7, <1>8 DEF ImportInv, ImportTypeOK, Places, InTransaction
<1>10. ASSUME NEW j \in Imports PROVE Trans(j)'
  <2>1. CASE j # i
    <3>1. /\ written'[j] = written[j] /\ pc'[j] = pc[j] /\ rows'[j] = rows[j]
          /\ summary'[j] = summary[j] /\ sent'[j] = sent[j]
      BY <1>2, <1>8, <2>1 DEF ImportInv, ImportTypeOK
    <3> QED
      BY <3>1, OthersKeep DEF ImportInv, TransactionInv
  <2>2. CASE j = i
    <3>1. /\ written'[i] = written[i] /\ pc'[i] = "upserting" /\ rows'[i] = rows[i]
          /\ summary'[i] = after /\ sent'[i] = sent[i]
      BY <1>2, <1>8 DEF ImportInv, ImportTypeOK
    <3>2. InStep(i) /\ sent[i] # Len(rows[i])
      BY <1>2 DEF ImportInv, TransactionInv, Trans, InTransaction, InStep
    <3>3. PICK file \in Files[i] \ {None} : Reads(file, i)
      BY <3>2 DEF InStep
    <3>4. Reads(file, i)'
      BY <1>5, <1>7, <3>1, <3>3 DEF Reads
    <3>5. InStep(i)'
      BY <3>1, <3>2, <3>4 DEF InStep
    <3> QED
      BY <2>2, <3>1, <3>5 DEF Trans, InTransaction
  <2> QED
    BY <2>1, <2>2
<1> QED
  BY <1>9, <1>10 DEF ImportInv, TransactionInv

LEMMA RollbackStep ==
    ASSUME ImportInv, NEW i \in Imports, Rollback(i)
    PROVE  ImportInv'
<1>1. /\ written' = [written EXCEPT ![i] = NoRows] /\ pc' = [pc EXCEPT ![i] = "failed"]
      /\ UNCHANGED <<market_data, rows, summary, sent, new, alone>>
  BY DEF Rollback, Goto
<1>2. ImportTypeOK'
  BY <1>1, NoRowsEmpty DEF ImportInv, ImportTypeOK, Places
<1>3. ASSUME NEW j \in Imports PROVE Trans(j)'
  <2>1. CASE j # i
    <3>1. /\ written'[j] = written[j] /\ pc'[j] = pc[j] /\ rows'[j] = rows[j]
          /\ summary'[j] = summary[j] /\ sent'[j] = sent[j]
      BY <1>1, <2>1 DEF ImportInv, ImportTypeOK
    <3> QED
      BY <3>1, OthersKeep DEF ImportInv, TransactionInv
  <2>2. CASE j = i
    <3>1. written'[i] = NoRows /\ pc'[i] = "failed"
      BY <1>1 DEF ImportInv, ImportTypeOK
    <3> QED
      BY <2>2, <3>1 DEF Trans, InTransaction
  <2> QED
    BY <2>1, <2>2
<1> QED
  BY <1>2, <1>3 DEF ImportInv, TransactionInv

LEMMA UpsertStep ==
    ASSUME ImportInv, NEW i \in Imports, UpsertRow(i)
    PROVE  ImportInv'
<1>1. pc[i] = "upserting"
  BY DEF UpsertRow
<1>2. PICK seq \in Seq(Accepted) : seq = rows[i]
  BY DEF ImportInv, ImportTypeOK
<1>3. PICK n \in Nat : n = sent[i] /\ n + 1 \in 1..Len(seq) /\ Distinct(seq)
  BY <1>1, <1>2, InsideTransaction DEF InTransaction
<1>4. PICK row : row = NextRow(i)
  OBVIOUS
<1>5. row = seq[n + 1]
  BY <1>2, <1>3, <1>4 DEF NextRow
<1>6. CASE Rollback(i)
  BY <1>6, RollbackStep
<1>7. CASE /\ written' = [written EXCEPT ![i][row.timestamp] = StoredBar(row)]
           /\ sent' = [sent EXCEPT ![i] = @ + 1]
           /\ Goto(i, AfterRow(i, sent[i] + 1))
           /\ UNCHANGED <<market_data, rows, summary, new, alone, runs>>
  <2>1. PICK place : place = AfterRow(i, n + 1)
    OBVIOUS
  <2>2. place = IF n + 1 = Len(seq) THEN "committing"
                ELSE IF (n + 1) % BatchSize = 0 THEN "selecting" ELSE "upserting"
    BY <1>2, <2>1 DEF AfterRow
  <2>3. PICK table : table = written[i]
    OBVIOUS
  <2>4. PICK after : after = [table EXCEPT ![row.timestamp] = StoredBar(row)]
    OBVIOUS
  <2>5. /\ written' = [written EXCEPT ![i] = after]
        /\ sent' = [sent EXCEPT ![i] = n + 1]
        /\ pc' = [pc EXCEPT ![i] = place]
        /\ UNCHANGED <<market_data, rows, summary, new, alone>>
    BY <1>3, <1>7, <2>1, <2>3, <2>4 DEF Goto, ImportInv, ImportTypeOK
  <2>6. InStep(i) /\ Upserted(table, seq, n)
    BY <1>1, <1>2, <1>3, <2>3 DEF ImportInv, TransactionInv, Trans, InTransaction, InStep
  <2>7. Upserted(after, seq, n + 1)
    BY <1>3, <1>5, <2>4, <2>6, UpsertOne
  <2>8. ImportTypeOK'
    <3>1. after \in [Stamps -> Bar \cup {None}]
      BY <2>7 DEF Upserted
    <3>2. place \in Places
      BY <2>2 DEF Places, InTransaction
    <3>3. n + 1 \in Nat
      BY <1>3
    <3> QED
      BY <2>5, <3>1, <3>2, <3>3 DEF ImportInv, ImportTypeOK
  <2>9. ASSUME NEW j \in Imports PROVE Trans(j)'
    <3>1. CASE j # i
      <4>1. /\ written'[j] = written[j] /\ pc'[j] = pc[j] /\ rows'[j] = rows[j]
            /\ summary'[j] = summary[j] /\ sent'[j] = sent[j]
        BY <2>5, <3>1 DEF ImportInv, ImportTypeOK
      <4> QED
        BY <4>1, OthersKeep DEF ImportInv, TransactionInv
    <3>2. CASE j = i
      <4>1. /\ written'[i] = after /\ pc'[i] = place /\ rows'[i] = seq
            /\ summary'[i] = summary[i] /\ sent'[i] = n + 1
        BY <1>2, <2>5 DEF ImportInv, ImportTypeOK
      <4>2. PICK file \in Files[i] \ {None} : Reads(file, i)
        BY <2>6 DEF InStep
      <4>3. Reads(file, i)'
        BY <1>2, <4>1, <4>2 DEF Reads
      <4>4. n + 1 <= Len(seq)
        BY <1>3
      <4>5. InStep(i)'
        BY <2>2, <2>7, <4>1, <4>3, <4>4 DEF InStep
      <4>6. place \in InTransaction /\ place # "idle"
        BY <2>2 DEF InTransaction
      <4> QED
        BY <3>2, <4>1, <4>5, <4>6 DEF Trans
    <3> QED
      BY <3>1, <3>2
  <2> QED
    BY <2>8, <2>9 DEF ImportInv, TransactionInv
<1> QED
  BY <1>4, <1>6, <1>7 DEF UpsertRow

(* Commit, and a commit whose acknowledgement is lost. *)
LEMMA InstallStep ==
    ASSUME ImportInv, NEW i \in Imports, Install(i), UNCHANGED <<rows, summary, sent>>,
           NEW place \in {"summarising", "failed"}, Goto(i, place)
    PROVE  ImportInv'
<1>1. /\ market_data' = [s \in Stamps |-> IF written[i][s] # None THEN written[i][s]
                                          ELSE market_data[s]]
      /\ written' = [written EXCEPT ![i] = NoRows] /\ pc' = [pc EXCEPT ![i] = place]
      /\ new' = [new EXCEPT ![i] = {s \in Stamps : written[i][s] # None} \ Stored]
      /\ alone' = [j \in Imports |-> alone[j] /\ (j = i \/ pc[j] \notin InTransaction)]
      /\ UNCHANGED <<rows, summary, sent>>
  BY DEF Install, Goto
<1>2. ImportTypeOK'
  <2>1. market_data' \in [Stamps -> Bar \cup {None}]
    BY <1>1 DEF ImportInv, ImportTypeOK
  <2>2. new' \in [Imports -> SUBSET Stamps]
    <3>1. ({s \in Stamps : written[i][s] # None} \ Stored) \in SUBSET Stamps
      OBVIOUS
    <3> QED
      BY <1>1, <3>1 DEF ImportInv, ImportTypeOK
  <2>3. alone' \in [Imports -> BOOLEAN]
    BY <1>1, Zenon
  <2>4. pc' \in [Imports -> Places] /\ written' \in [Imports -> [Stamps -> Bar \cup {None}]]
    BY <1>1, NoRowsEmpty DEF ImportInv, ImportTypeOK, Places
  <2> QED
    BY <1>1, <2>1, <2>2, <2>3, <2>4 DEF ImportInv, ImportTypeOK
<1>3. ASSUME NEW j \in Imports PROVE Trans(j)'
  <2>1. CASE j # i
    <3>1. /\ written'[j] = written[j] /\ pc'[j] = pc[j] /\ rows'[j] = rows[j]
          /\ summary'[j] = summary[j] /\ sent'[j] = sent[j]
      BY <1>1, <2>1 DEF ImportInv, ImportTypeOK
    <3> QED
      BY <3>1, OthersKeep DEF ImportInv, TransactionInv
  <2>2. CASE j = i
    <3>1. written'[i] = NoRows /\ pc'[i] = place
      BY <1>1 DEF ImportInv, ImportTypeOK
    <3> QED
      BY <2>2, <3>1 DEF Trans, InTransaction
  <2> QED
    BY <2>1, <2>2
<1> QED
  BY <1>2, <1>3 DEF ImportInv, TransactionInv

(* The three queries. *)
LEMMA QueryStep ==
    ASSUME ImportInv, NEW i \in Imports, QueryEarliest(i) \/ QueryLatest(i) \/ QueryTotal(i)
    PROVE  ImportInv'
<1>1. PICK got \in Summary : got = summary[i]
  BY DEF ImportInv, ImportTypeOK
<1>2. Stored \in SUBSET Stamps /\ Cardinality(Stored) \in Nat
  BY ImportAssumption, FS_Subset, FS_CardinalityType DEF Stored
<1>3. Stored # {} => Min(Stored) \in Stamps /\ Max(Stored) \in Stamps
  BY <1>2, EarliestOf, LatestOf
<1>4. PICK after \in Summary, place \in {"latest", "total", "done"} :
          summary' = [summary EXCEPT ![i] = after] /\ pc' = [pc EXCEPT ![i] = place]
  <2>1. CASE QueryEarliest(i)
    <3>1. PICK e \in Stamps \cup {None} : e = IF Stored = {} THEN None ELSE Min(Stored)
      BY <1>3
    <3>2. PICK after : after = [got EXCEPT !.earliest = e]
      OBVIOUS
    <3>3. after \in Summary
      BY <3>2 DEF Summary
    <3>4. summary' = [summary EXCEPT ![i] = after] /\ pc' = [pc EXCEPT ![i] = "latest"]
      BY <1>1, <2>1, <3>1, <3>2 DEF QueryEarliest, Goto, ImportInv, ImportTypeOK
    <3> QED
      BY <3>3, <3>4
  <2>2. CASE QueryLatest(i)
    <3>1. PICK e \in Stamps \cup {None} : e = IF Stored = {} THEN None ELSE Max(Stored)
      BY <1>3
    <3>2. PICK after : after = [got EXCEPT !.latest = e]
      OBVIOUS
    <3>3. after \in Summary
      BY <3>2 DEF Summary
    <3>4. summary' = [summary EXCEPT ![i] = after] /\ pc' = [pc EXCEPT ![i] = "total"]
      BY <1>1, <2>2, <3>1, <3>2 DEF QueryLatest, Goto, ImportInv, ImportTypeOK
    <3> QED
      BY <3>3, <3>4
  <2>3. CASE QueryTotal(i)
    <3>1. PICK e \in Nat : e = Cardinality(Stored)
      BY <1>2
    <3>2. PICK after : after = [got EXCEPT !.total_symbol_rows = e]
      OBVIOUS
    <3>3. after \in Summary
      BY <3>2 DEF Summary
    <3>4. summary' = [summary EXCEPT ![i] = after] /\ pc' = [pc EXCEPT ![i] = "done"]
      BY <1>1, <2>3, <3>1, <3>2 DEF QueryTotal, Goto, ImportInv, ImportTypeOK
    <3> QED
      BY <3>3, <3>4
  <2> QED
    BY <2>1, <2>2, <2>3
<1>5. UNCHANGED <<market_data, written, rows, sent, new, alone>> /\ pc[i] \notin InTransaction
  BY DEF QueryEarliest, QueryLatest, QueryTotal, InTransaction
<1>6. ImportTypeOK'
  BY <1>4, <1>5 DEF ImportInv, ImportTypeOK, Places
<1>7. ASSUME NEW j \in Imports PROVE Trans(j)'
  <2>1. CASE j # i
    <3>1. /\ written'[j] = written[j] /\ pc'[j] = pc[j] /\ rows'[j] = rows[j]
          /\ summary'[j] = summary[j] /\ sent'[j] = sent[j]
      BY <1>4, <1>5, <2>1 DEF ImportInv, ImportTypeOK
    <3> QED
      BY <3>1, OthersKeep DEF ImportInv, TransactionInv
  <2>2. CASE j = i
    <3>1. written'[i] = NoRows /\ pc'[i] = place
      BY <1>4, <1>5 DEF ImportInv, ImportTypeOK, TransactionInv, Trans
    <3> QED
      BY <2>2, <3>1 DEF Trans, InTransaction
  <2> QED
    BY <2>1, <2>2
<1> QED
  BY <1>6, <1>7 DEF ImportInv, TransactionInv

LEMMA RunAgainStep ==
    ASSUME ImportInv, NEW i \in Imports, RunAgain(i)
    PROVE  ImportInv'
<1>1. /\ pc' = [pc EXCEPT ![i] = "idle"] /\ rows' = [rows EXCEPT ![i] = << >>]
      /\ summary' = [summary EXCEPT ![i] = NoSummary] /\ sent' = [sent EXCEPT ![i] = 0]
      /\ new' = [new EXCEPT ![i] = {}] /\ alone' = [alone EXCEPT ![i] = TRUE]
      /\ UNCHANGED <<market_data, written>> /\ pc[i] \notin InTransaction
  BY DEF RunAgain, Goto, InTransaction
<1>2. NoSummary \in Summary /\ << >> \in Seq(Accepted)
  BY DEF NoSummary, Summary
<1>3. ImportTypeOK'
  BY <1>1, <1>2 DEF ImportInv, ImportTypeOK, Places
<1>4. ASSUME NEW j \in Imports PROVE Trans(j)'
  <2>1. CASE j # i
    <3>1. /\ written'[j] = written[j] /\ pc'[j] = pc[j] /\ rows'[j] = rows[j]
          /\ summary'[j] = summary[j] /\ sent'[j] = sent[j]
      BY <1>1, <2>1 DEF ImportInv, ImportTypeOK
    <3> QED
      BY <3>1, OthersKeep DEF ImportInv, TransactionInv
  <2>2. CASE j = i
    <3>1. written'[i] = NoRows /\ pc'[i] = "idle" /\ summary'[i] = NoSummary /\ sent'[i] = 0
      BY <1>1 DEF ImportInv, ImportTypeOK, TransactionInv, Trans
    <3> QED
      BY <2>2, <3>1 DEF Trans, InTransaction
  <2> QED
    BY <2>1, <2>2
<1> QED
  BY <1>3, <1>4 DEF ImportInv, TransactionInv

LEMMA ImportNext == ImportInv /\ [Next]_vars => ImportInv'
<1> SUFFICES ASSUME ImportInv, [Next]_vars PROVE ImportInv'
  OBVIOUS
<1>1. CASE UNCHANGED vars
  BY <1>1 DEF vars, ImportInv, ImportTypeOK, TransactionInv, Trans, InStep, Reads
<1>2. ASSUME NEW i \in Imports, NEW file \in Files[i], Start(i, file) PROVE ImportInv'
  BY <1>2, StartStep
<1>3. ASSUME NEW i \in Imports, Step(i) PROVE ImportInv'
  <2>1. CASE SelectExisting(i)
    BY <2>1, SelectStep
  <2>2. CASE UpsertRow(i)
    BY <2>2, UpsertStep
  <2>3. CASE DeadlockDetected(i)
    BY <2>3, RollbackStep DEF DeadlockDetected
  <2>4. CASE Commit(i)
    BY <2>4, InstallStep DEF Commit
  <2>5. CASE QueryEarliest(i) \/ QueryLatest(i) \/ QueryTotal(i)
    BY <2>5, QueryStep
  <2> QED
    BY <1>3, <2>1, <2>2, <2>3, <2>4, <2>5 DEF Step
<1>4. ASSUME NEW i \in Imports, ConnectionLost(i) PROVE ImportInv'
  BY <1>4, RollbackStep, InstallStep DEF ConnectionLost
<1>5. ASSUME NEW i \in Imports, RunAgain(i) PROVE ImportInv'
  BY <1>5, RunAgainStep
<1> QED
  BY <1>1, <1>2, <1>3, <1>4, <1>5 DEF Next

(* The types of the import's state, and what its transactions hold. *)
THEOREM ImportInvariant == Spec => []ImportInv
<1> QED
  BY ImportInit, ImportNext, PTL DEF Spec

-----------------------------------------------------------------------------
(* The table changes by whole files. *)
LEMMA InstallsAFile ==
    ASSUME ImportInv, NEW i \in Imports, pc[i] = "committing", Install(i)
    PROVE  Table!FileImported
<1>1. PICK file \in Files[i] \ {None} :
          /\ file \in Seq(RawRow) /\ Reads(file, i)
          /\ HasRead(parse_market_csv(file), file, Len(file))
  BY InsideTransaction DEF InTransaction
<1>2. InStep(i)
  BY DEF ImportInv, TransactionInv, Trans, InTransaction
<1>3. Upserted(written[i], parse_market_csv(file).rows, Len(parse_market_csv(file).rows))
  BY <1>1, <1>2 DEF InStep, Reads
<1>4. written[i] = Meaning(file)
  BY <1>1, <1>3, AllRowsAreTheMeaning
<1>5. market_data' = Table!Override(market_data, written[i])
  BY DEF Install, Table!Override
<1>6. file \in (UNION {Files[k] : k \in Imports}) \ {None}
  BY <1>1
<1> QED
  BY <1>4, <1>5, <1>6 DEF Table!FileImported

LEMMA TableStep == ImportInv /\ [Next]_vars => [Table!FileImported]_market_data
<1> SUFFICES ASSUME ImportInv, [Next]_vars, market_data' # market_data PROVE Table!FileImported
  OBVIOUS
<1>1. PICK i \in Imports : pc[i] = "committing" /\ Install(i)
  BY DEF Next, vars, Start, Step, SelectExisting, UpsertRow, DeadlockDetected, Rollback, Commit,
         QueryEarliest, QueryLatest, QueryTotal, ConnectionLost, RunAgain
<1> QED
  BY <1>1, InstallsAFile

(* Whatever fails, waits or runs at the same time, and however often the   *)
(* script is run again, market_data changes by the whole meaning of one    *)
(* file: the import implements MarketTable.                                *)
THEOREM ImportsRefineTable == Spec => ImportsWholeFiles
<1>1. Init => Table!TableInit
  BY DEF Init, Table!TableInit, NoRows
<1> QED
  BY <1>1, ImportInvariant, TableStep, PTL DEF Spec, ImportsWholeFiles, Table!TableSpec

-----------------------------------------------------------------------------
(* The summary.  A batch is counted before it is written, so the counts    *)
(* are those of the batches up to the current one.                         *)
Counted(i) ==
    CASE pc[i] = "selecting" -> sent[i]
      [] pc[i] = "upserting" -> Min({sent[i] - (sent[i] % BatchSize) + BatchSize, Len(rows[i])})
      [] OTHER -> Len(rows[i])

StampsOf(seq, I) == {seq[k].timestamp : k \in I}

Counts(i) ==
    /\ summary[i].inserted_rows + summary[i].updated_rows = Counted(i)
    /\ summary[i].inserted_rows >= Cardinality(StampsOf(rows[i], 1..Counted(i)) \ Stored)
    /\ alone[i] =>
          summary[i].inserted_rows = Cardinality(StampsOf(rows[i], 1..Counted(i)) \ Stored)

Covers(i) ==
    LET got == summary[i] IN
    /\ got.inserted_rows + got.updated_rows + got.skipped = got.total_csv_rows
    /\ got.inserted_rows >= Cardinality(new[i])
    /\ alone[i] => got.inserted_rows = Cardinality(new[i])
    /\ Distinct(rows[i])
    /\ StampsOf(rows[i], 1..Len(rows[i])) \subseteq Stored
    /\ \A k \in DOMAIN rows[i] :
          /\ pc[i] # "summarising" => got.earliest <= rows[i][k].timestamp /\ got.earliest # None
          /\ pc[i] \in {"total", "done"} =>
                rows[i][k].timestamp <= got.latest /\ got.latest # None
    /\ pc[i] = "done" => got.total_symbol_rows >= Len(rows[i])

Finished == {"summarising", "latest", "total", "done"}

Accounts(i) ==
    /\ pc[i] \in InTransaction => Counts(i)
    /\ pc[i] \in Finished => Covers(i)

SummaryInv == \A i \in Imports : Accounts(i)

LEMMA StampsOfRows ==
    ASSUME NEW seq \in Seq(Accepted), NEW I \in SUBSET (1..Len(seq))
    PROVE  StampsOf(seq, I) \in SUBSET Stamps /\ IsFiniteSet(StampsOf(seq, I))
<1>1. \A k \in I : seq[k].timestamp \in Stamps
  BY AcceptedStored
<1>2. StampsOf(seq, I) \in SUBSET Stamps
  BY <1>1 DEF StampsOf
<1> QED
  BY <1>2, ImportAssumption, FS_Subset

(* Distinct rows have as many timestamps as there are rows. *)
LEMMA CountRows ==
    ASSUME NEW seq \in Seq(Accepted), Distinct(seq), NEW n \in Nat, NEW m \in Nat,
           n <= m, m <= Len(seq)
    PROVE  /\ Cardinality(StampsOf(seq, (n + 1)..m)) = m - n
           /\ StampsOf(seq, 1..m) = StampsOf(seq, 1..n) \cup StampsOf(seq, (n + 1)..m)
           /\ StampsOf(seq, 1..n) \cap StampsOf(seq, (n + 1)..m) = {}
<1>1. PICK I, J : I = (n + 1)..m /\ J = 1..n
  OBVIOUS
<1>2. 1..m = J \cup I /\ J \cap I = {}
  BY <1>1
<1>3. DOMAIN seq = 1..Len(seq) /\ Len(seq) \in Nat
  OBVIOUS
<1>4. \A k \in 1..m : k \in DOMAIN seq
  BY <1>3
<1>5. \A k, l \in 1..m : seq[k].timestamp = seq[l].timestamp => k = l
  BY <1>4 DEF Distinct
<1>6. PICK T : T = StampsOf(seq, I)
  OBVIOUS
<1>7. Cardinality(T) = m - n
  <2>1. PICK f : f = [k \in I |-> seq[k].timestamp]
    OBVIOUS
  <2>2. f \in Bijection(I, T)
    BY <1>2, <1>5, <1>6, <2>1 DEF Bijection, Injection, Surjection, IsInjective, StampsOf
  <2>3. IsFiniteSet(I) /\ Cardinality(I) = m - n
    <3>1. PICK a \in Int, b \in Int : a = n + 1 /\ b = m
      OBVIOUS
    <3>2. IsFiniteSet(a..b) /\ Cardinality(a..b) = IF a > b THEN 0 ELSE b - a + 1
      BY FS_Interval
    <3> QED
      BY <1>1, <3>1, <3>2
  <2> QED
    BY <2>2, <2>3, FS_Bijection DEF ExistsBijection
<1>8. StampsOf(seq, 1..m) = StampsOf(seq, 1..n) \cup T
  BY <1>1, <1>2, <1>6 DEF StampsOf
<1>9. StampsOf(seq, 1..n) \cap T = {}
  BY <1>1, <1>2, <1>5, <1>6 DEF StampsOf
<1> QED
  BY <1>1, <1>6, <1>7, <1>8, <1>9

LEMMA StoredFinite == Stored \in SUBSET Stamps /\ IsFiniteSet(Stored) /\ Cardinality(Stored) \in Nat
BY ImportAssumption, FS_Subset, FS_CardinalityType DEF Stored

LEMMA CountedIn ==
    ASSUME ImportInv, NEW i \in Imports, pc[i] \in InTransaction
    PROVE  Counted(i) \in Nat /\ sent[i] <= Counted(i) /\ Counted(i) <= Len(rows[i])
<1>1. /\ rows[i] \in Seq(Accepted) /\ sent[i] \in Nat /\ sent[i] <= Len(rows[i])
      /\ Len(rows[i]) \in Nat
  BY InsideTransaction
<1>2. CASE pc[i] = "selecting"
  BY <1>1, <1>2 DEF Counted
<1>3. CASE pc[i] = "upserting"
  <2>1. PICK a \in Nat : a = sent[i] - (sent[i] % BatchSize) + BatchSize /\ a >= sent[i]
    <3>1. PICK n \in Nat, r \in 0..(BatchSize - 1) :
              n = sent[i] /\ r = sent[i] % BatchSize /\ r <= n
      BY <1>1, Remainder
    <3>2. n - r + BatchSize \in Nat /\ n - r + BatchSize >= n
      BY <3>1, ImportAssumption
    <3> QED
      BY <3>1, <3>2
  <2>2. Counted(i) = Min({a, Len(rows[i])})
    BY <1>3, <2>1 DEF Counted
  <2>3. /\ Min({a, Len(rows[i])}) \in {a, Len(rows[i])} /\ Min({a, Len(rows[i])}) <= a
        /\ Min({a, Len(rows[i])}) <= Len(rows[i])
    BY <1>1, <2>1, MinOfTwo
  <2> QED
    BY <1>1, <2>1, <2>2, <2>3
<1>4. CASE pc[i] = "committing"
  BY <1>1, <1>4 DEF Counted
<1> QED
  BY <1>2, <1>3, <1>4 DEF InTransaction

(* What an import's accounts say stays true while other imports take their *)
(* steps, the commit of one included.                                      *)
LEMMA AccountsKeep ==
    ASSUME ImportInv, NEW j \in Imports, Accounts(j), pc'[j] = pc[j], rows'[j] = rows[j],
           summary'[j] = summary[j], sent'[j] = sent[j], new'[j] = new[j],
           Stored \subseteq Stored', alone'[j] => alone[j],
           pc[j] \in InTransaction /\ alone'[j] => Stored' = Stored
    PROVE  Accounts(j)'
<1>1. CASE pc[j] \in InTransaction
  <2>1. Counted(j)' = Counted(j) /\ Counted(j) \in Nat /\ Counted(j) <= Len(rows[j])
    BY <1>1, CountedIn DEF Counted
  <2>2. PICK T : T = StampsOf(rows[j], 1..Counted(j))
    OBVIOUS
  <2>3. IsFiniteSet(T)
    <3>1. PICK seq \in Seq(Accepted) : seq = rows[j]
      BY DEF ImportInv, ImportTypeOK
    <3>2. PICK b \in Nat : b = Counted(j) /\ b <= Len(seq)
      BY <2>1, <3>1
    <3>3. 1..b \in SUBSET (1..Len(seq))
      BY <3>1, <3>2
    <3> QED
      BY <2>2, <3>1, <3>2, <3>3, StampsOfRows
  <2>4. T \ Stored' \subseteq T \ Stored /\ IsFiniteSet(T \ Stored)
    BY <2>3, FS_Difference
  <2>5. /\ Cardinality(T \ Stored') <= Cardinality(T \ Stored)
        /\ Cardinality(T \ Stored') \in Nat /\ Cardinality(T \ Stored) \in Nat
    BY <2>4, FS_Subset, FS_CardinalityType
  <2>6. Counts(j)
    BY <1>1 DEF Accounts
  <2>7. summary[j].inserted_rows \in Int
    BY DEF ImportInv, ImportTypeOK, Summary
  <2>8. summary[j].inserted_rows >= Cardinality(T \ Stored')
    <3>1. summary[j].inserted_rows >= Cardinality(T \ Stored)
      BY <2>2, <2>6 DEF Counts
    <3> QED
      BY <2>5, <2>7, <3>1
  <2>9. alone'[j] => summary[j].inserted_rows = Cardinality(T \ Stored')
    BY <1>1, <2>2, <2>6 DEF Counts
  <2>10. Counts(j)'
    BY <2>1, <2>2, <2>6, <2>8, <2>9 DEF Counts
  <2> QED
    BY <1>1, <2>10 DEF Accounts, InTransaction, Finished
<1>2. CASE pc[j] \in Finished
  <2>1. Covers(j)
    BY <1>2 DEF Accounts
  <2>2. Covers(j)'
    BY <2>1 DEF Covers
  <2> QED
    BY <1>2, <2>2 DEF Accounts, InTransaction, Finished
<1>3. CASE pc[j] \notin InTransaction \cup Finished
  BY <1>3 DEF Accounts
<1> QED
  BY <1>1, <1>2, <1>3

LEMMA SummaryStart ==
    ASSUME ImportInv, SummaryInv, NEW i \in Imports, NEW file \in Files[i], Start(i, file)
    PROVE  Accounts(i)'
<1>1. CASE file = None
  <2>1. pc'[i] = "failed"
    BY <1>1 DEF Start, Goto, ImportInv, ImportTypeOK
  <2> QED
    BY <2>1 DEF Accounts, InTransaction, Finished
<1>2. CASE file # None
  <2>1. PICK parsed : parsed = parse_market_csv(file)
    OBVIOUS
  <2>2. parsed.rows \in Seq(Accepted)
    BY <1>2, <2>1, FileAssumption, ParseKeepsFirstRows DEF HasRead
  <2>3. /\ rows'[i] = parsed.rows /\ sent'[i] = 0
        /\ pc'[i] = IF parsed.rows = << >> THEN "committing" ELSE "selecting"
        /\ summary'[i].inserted_rows = 0 /\ summary'[i].updated_rows = 0
    <3>1. pc[i] = "idle" /\ summary[i] = NoSummary /\ sent[i] = 0
      BY DEF Start, ImportInv, TransactionInv, Trans
    <3>2. /\ rows' = [rows EXCEPT ![i] = parsed.rows]
          /\ summary' = [summary EXCEPT ![i].total_csv_rows = Len(file),
                                        ![i].skipped = parsed.skipped]
          /\ pc' = [pc EXCEPT ![i] = IF parsed.rows = << >> THEN "committing" ELSE "selecting"]
          /\ sent' = sent
      BY <1>2, <2>1 DEF Start, Goto
    <3>3. summary'[i] = [NoSummary EXCEPT !.total_csv_rows = Len(file), !.skipped = parsed.skipped]
      BY <3>1, <3>2 DEF ImportInv, ImportTypeOK
    <3> QED
      BY <3>1, <3>2, <3>3 DEF ImportInv, ImportTypeOK, NoSummary
  <2>4. Counted(i)' = 0
    BY <2>2, <2>3 DEF Counted
  <2>5. StampsOf(rows[i], 1..Counted(i))' = {}
    <3>1. 1..0 = {}
      OBVIOUS
    <3> QED
      BY <2>4, <3>1 DEF StampsOf
  <2>6. Cardinality({} \ Stored') = 0
    <3>1. {} \ Stored' = {}
      OBVIOUS
    <3> QED
      BY <3>1, FS_EmptySet
  <2>7. Cardinality(StampsOf(rows[i], 1..Counted(i)) \ Stored)' = 0
    BY <2>5, <2>6
  <2>8. Counts(i)'
    <3> HIDE DEF Counted
    <3> QED
      BY <2>3, <2>4, <2>7 DEF Counts
  <2> QED
    BY <2>3, <2>8 DEF Accounts, InTransaction, Finished
<1> QED
  BY <1>1, <1>2

LEMMA DisjointUnion ==
    ASSUME NEW A, NEW B, IsFiniteSet(A), IsFiniteSet(B), A \cap B = {}
    PROVE  Cardinality(A \cup B) = Cardinality(A) + Cardinality(B)
<1>1. PICK a \in Nat, b \in Nat : a = Cardinality(A) /\ b = Cardinality(B)
  BY FS_CardinalityType
<1>2. Cardinality(A \cup B) = a + b - Cardinality(A \cap B)
  BY <1>1, FS_Union
<1>3. Cardinality(A \cap B) = 0
  BY FS_EmptySet
<1> QED
  BY <1>1, <1>2, <1>3

(* A batch is counted.  Its timestamps are new to the transaction, so the  *)
(* ones found to exist are those that are stored.                          *)
LEMMA SummarySelect ==
    ASSUME ImportInv, SummaryInv, NEW i \in Imports, SelectExisting(i)
    PROVE  Accounts(i)'
<1>0. pc[i] = "selecting" /\ pc[i] \in InTransaction
  BY DEF SelectExisting, InTransaction
<1>1. PICK seq \in Seq(Accepted) : seq = rows[i] /\ Distinct(seq)
  BY <1>0, InsideTransaction
<1>2. PICK n \in Nat : n = sent[i] /\ n < Len(seq) /\ n % BatchSize = 0
  <2>1. sent[i] \in Nat /\ sent[i] + 1 \in 1..Len(seq)
    BY <1>0, <1>1, InsideTransaction
  <2>2. sent[i] % BatchSize = 0
    BY <1>0 DEF ImportInv, TransactionInv, Trans, InStep
  <2> QED
    BY <1>1, <2>1, <2>2
<1>3. Len(seq) \in Nat /\ BatchSize \in Nat \ {0}
  BY ImportAssumption
<1>4. PICK m \in Nat : m = Min({n + BatchSize, Len(seq)}) /\ n < m /\ m <= Len(seq)
  <2>1. PICK a \in Nat : a = n + BatchSize
    BY <1>3
  <2>2. Min({a, Len(seq)}) \in {a, Len(seq)} /\ Min({a, Len(seq)}) <= Len(seq)
    BY <1>3, MinOfTwo
  <2> QED
    BY <1>2, <1>3, <2>1, <2>2
<1>5. PICK T : T = StampsOf(seq, (n + 1)..m)
  OBVIOUS
<1>6. PICK before : before = StampsOf(seq, 1..n)
  OBVIOUS
<1>7. /\ Cardinality(T) = m - n /\ StampsOf(seq, 1..m) = before \cup T /\ before \cap T = {}
  <2>1. n <= m /\ m <= Len(seq) /\ Distinct(seq)
    BY <1>1, <1>4
  <2>2. /\ Cardinality(StampsOf(seq, (n + 1)..m)) = m - n
        /\ StampsOf(seq, 1..m) = StampsOf(seq, 1..n) \cup StampsOf(seq, (n + 1)..m)
        /\ StampsOf(seq, 1..n) \cap StampsOf(seq, (n + 1)..m) = {}
    BY <2>1, CountRows, Zenon
  <2> QED
    BY <1>5, <1>6, <2>2
<1>8. T \in SUBSET Stamps /\ IsFiniteSet(T) /\ before \in SUBSET Stamps /\ IsFiniteSet(before)
  <2>1. 1..n \in SUBSET (1..Len(seq)) /\ (n + 1)..m \in SUBSET (1..Len(seq))
    BY <1>2, <1>3, <1>4
  <2> QED
    BY <1>5, <1>6, <2>1, StampsOfRows
<1>9. PICK batch : batch = SubSeq(seq, n + 1, m)
  OBVIOUS
<1>10. /\ batch = batched(i) /\ Len(batch) = m - n /\ DOMAIN batch = 1..(m - n)
       /\ \A k \in 1..(m - n) : batch[k] = seq[n + k]
  <2>1. batch = batched(i)
    BY <1>1, <1>2, <1>4, <1>9 DEF batched
  <2>2. n + 1 \in 1..Len(seq) /\ m \in (n + 1)..Len(seq)
    BY <1>2, <1>3, <1>4
  <2>3. m - (n + 1) + 1 = m - n /\ \A k \in 1..(m - n) : (n + 1) + k - 1 = n + k
    BY <1>4
  <2> QED
    BY <1>9, <2>1, <2>2, <2>3
<1>11. \A s : (\E k \in DOMAIN batch : batch[k].timestamp = s) <=> s \in T
  <2>1. ASSUME NEW k \in 1..(m - n) PROVE batch[k].timestamp \in T
    <3>1. n + k \in (n + 1)..m
      BY <1>4
    <3> QED
      BY <1>5, <1>10, <3>1 DEF StampsOf
  <2>2. ASSUME NEW l \in (n + 1)..m PROVE \E k \in 1..(m - n) : batch[k].timestamp = seq[l].timestamp
    <3>1. l - n \in 1..(m - n) /\ n + (l - n) = l
      BY <1>4
    <3> QED
      BY <1>10, <3>1
  <2>3. ASSUME NEW s \in T PROVE \E k \in DOMAIN batch : batch[k].timestamp = s
    <3>1. PICK l \in (n + 1)..m : s = seq[l].timestamp
      BY <1>5 DEF StampsOf
    <3> QED
      BY <1>10, <2>2, <3>1
  <2> QED
    BY <1>10, <2>1, <2>3
<1>12. \A s \in Stamps : written[i][s] # None => s \in before
  <2>1. Upserted(written[i], seq, n)
    BY <1>0, <1>1, <1>2 DEF ImportInv, TransactionInv, Trans, InStep
  <2> QED
    BY <1>6, <2>1 DEF Upserted, StampsOf
<1>13. PICK existing : existing = T \cap Stored
  OBVIOUS
<1>14. existing = {s \in Stored \cup {t \in Stamps : written[i][t] # None} :
                      \E k \in DOMAIN batch : batch[k].timestamp = s}
  BY <1>7, <1>11, <1>12, <1>13
<1>15. PICK e \in Nat : e = Cardinality(existing)
  BY <1>8, <1>13, FS_Subset, FS_CardinalityType
<1>16. PICK got \in Summary : got = summary[i]
  BY DEF ImportInv, ImportTypeOK
<1>17. got.inserted_rows \in Int /\ got.updated_rows \in Nat
  BY DEF Summary
<1>18. /\ summary'[i].inserted_rows = got.inserted_rows + (m - n) - e
       /\ summary'[i].updated_rows = got.updated_rows + e
  <2>1. summary' = [summary EXCEPT ![i].updated_rows = @ + Cardinality(existing),
                        ![i].inserted_rows = @ + Len(batch) - Cardinality(existing)]
    BY <1>10, <1>14 DEF SelectExisting
  <2>2. summary'[i] = [got EXCEPT !.updated_rows = @ + e,
                        !.inserted_rows = @ + (m - n) - e]
    BY <1>10, <1>15, <1>16, <2>1 DEF ImportInv, ImportTypeOK
  <2> QED
    BY <2>2 DEF Summary
<1>19. /\ pc'[i] = "upserting" /\ rows'[i] = seq /\ sent'[i] = n /\ Stored' = Stored
       /\ alone'[i] = alone[i]
  <2>1. UNCHANGED <<market_data, rows, sent, alone>> /\ pc' = [pc EXCEPT ![i] = "upserting"]
    BY DEF SelectExisting, Goto
  <2>2. Stored' = Stored
    BY <2>1 DEF Stored
  <2> QED
    BY <1>1, <1>2, <2>1, <2>2 DEF ImportInv, ImportTypeOK
<1>20. Counted(i) = n /\ Counted(i)' = m
  <2>1. n - 0 + BatchSize = n + BatchSize
    BY <1>3
  <2>2. Counted(i)' = Min({n - (n % BatchSize) + BatchSize, Len(seq)})
    BY <1>19 DEF Counted
  <2> QED
    BY <1>0, <1>2, <1>4, <2>1, <2>2 DEF Counted
<1>21. Cardinality((before \cup T) \ Stored) = Cardinality(before \ Stored) + (m - n) - e
       /\ Cardinality(before \ Stored) \in Nat
  <2>1. PICK A, B : A = before \ Stored /\ B = T \ Stored
    OBVIOUS
  <2>2. (before \cup T) \ Stored = A \cup B /\ A \cap B = {} /\ T = existing \cup B
        /\ existing \cap B = {}
    BY <1>7, <1>13, <2>1
  <2>3. IsFiniteSet(A) /\ IsFiniteSet(B) /\ IsFiniteSet(existing)
    BY <1>8, <1>13, <2>1, FS_Subset, FS_Difference
  <2>4. Cardinality(A \cup B) = Cardinality(A) + Cardinality(B)
    BY <2>2, <2>3, DisjointUnion
  <2>5. Cardinality(T) = Cardinality(existing) + Cardinality(B)
    BY <2>2, <2>3, DisjointUnion
  <2>6. PICK a \in Nat, b \in Nat : a = Cardinality(A) /\ b = Cardinality(B)
    BY <2>3, FS_CardinalityType
  <2>7. m - n = e + b
    BY <1>7, <1>15, <2>5, <2>6
  <2>8. Cardinality(A \cup B) = a + (m - n) - e
    BY <1>4, <1>15, <2>4, <2>6, <2>7
  <2> QED
    BY <2>1, <2>2, <2>6, <2>8
<1>22. Counts(i)
  BY <1>0 DEF SummaryInv, Accounts
<1>23. PICK c \in Nat : c = Cardinality(before \ Stored)
  BY <1>21
<1>24. /\ got.inserted_rows + got.updated_rows = n /\ got.inserted_rows >= c
       /\ alone[i] => got.inserted_rows = c
  BY <1>1, <1>6, <1>16, <1>20, <1>22, <1>23 DEF Counts
<1>25. Cardinality(StampsOf(rows[i], 1..Counted(i)) \ Stored)' = c + (m - n) - e
  BY <1>7, <1>19, <1>20, <1>21, <1>23
<1>26. /\ summary'[i].inserted_rows + summary'[i].updated_rows = m
       /\ summary'[i].inserted_rows >= c + (m - n) - e
       /\ alone[i] => summary'[i].inserted_rows = c + (m - n) - e
  BY <1>17, <1>18, <1>24, SMTT(30)
<1>27. Counts(i)'
  BY <1>19, <1>20, <1>25, <1>26 DEF Counts
<1> QED
  BY <1>19, <1>27 DEF Accounts, InTransaction, Finished

(* A row is written: it is the last one of the batch that was counted, or  *)
(* another one follows it there.                                           *)
LEMMA SummaryUpsert ==
    ASSUME ImportInv, SummaryInv, NEW i \in Imports, UpsertRow(i)
    PROVE  Accounts(i)'
<1>0. pc[i] = "upserting" /\ pc[i] \in InTransaction
  BY DEF UpsertRow, InTransaction
<1>1. CASE Rollback(i)
  <2>1. pc'[i] = "failed"
    BY <1>1 DEF Rollback, Goto, ImportInv, ImportTypeOK
  <2> QED
    BY <2>1 DEF Accounts, InTransaction, Finished
<1>2. CASE ~Rollback(i)
  <2>1. PICK n \in Nat, len \in Nat : n = sent[i] /\ len = Len(rows[i]) /\ n + 1 <= len
    <3>1. /\ rows[i] \in Seq(Accepted) /\ sent[i] \in Nat
          /\ sent[i] + 1 \in 1..Len(rows[i])
      BY <1>0, InsideTransaction
    <3> QED
      BY <3>1
  <2>2. /\ sent' = [sent EXCEPT ![i] = @ + 1] /\ Goto(i, AfterRow(i, sent[i] + 1))
        /\ UNCHANGED <<market_data, rows, summary, new, alone, runs>>
    BY <1>2 DEF UpsertRow
  <2>3. /\ sent'[i] = n + 1 /\ rows'[i] = rows[i] /\ summary'[i] = summary[i]
        /\ alone'[i] = alone[i] /\ Stored' = Stored
        /\ pc'[i] = IF n + 1 = len THEN "committing"
                    ELSE IF (n + 1) % BatchSize = 0 THEN "selecting" ELSE "upserting"
    BY <2>1, <2>2 DEF Goto, AfterRow, Stored, ImportInv, ImportTypeOK
  <2>4. PICK b \in Nat \ {0}, r \in Nat :
            b = BatchSize /\ r = n % BatchSize /\ r <= b - 1 /\ r <= n
    <3>1. n % BatchSize \in 0..(BatchSize - 1) /\ n % BatchSize <= n
      BY Remainder
    <3>2. BatchSize \in Nat \ {0}
      BY ImportAssumption
    <3>3. n % BatchSize \in Nat /\ n % BatchSize <= BatchSize - 1
      BY <3>1, <3>2
    <3> QED
      BY <3>1, <3>2, <3>3
  <2>5. (n + 1) % BatchSize = IF r = b - 1 THEN 0 ELSE r + 1
    BY <2>4, NextRemainder
  <2>6. PICK a \in Nat : a = n - r + b /\ n + 1 <= a
    <3>1. n - r + b \in Nat /\ n + 1 <= n - r + b
      BY <2>4
    <3> QED
      BY <3>1
  <2>7. Counted(i) = Min({a, len})
    BY <1>0, <2>1, <2>4, <2>6 DEF Counted
  <2>8. Min({a, len}) \in {a, len} /\ Min({a, len}) <= a /\ Min({a, len}) <= len
    BY MinOfTwo
  <2>9. Counted(i)' = Counted(i)
    <3>1. CASE n + 1 = len
      <4>1. Counted(i)' = len
        BY <2>1, <2>3, <3>1 DEF Counted
      <4>2. Min({a, len}) = len
        BY <2>6, <2>8, <3>1
      <4> QED
        BY <2>7, <4>1, <4>2
    <3>2. CASE n + 1 # len /\ r = b - 1
      <4>1. Counted(i)' = n + 1
        BY <2>3, <2>4, <2>5, <3>2 DEF Counted
      <4>2. a = n + 1 /\ n + 1 < len
        BY <2>1, <2>4, <2>6, <3>2, SMTT(30)
      <4>3. Min({a, len}) = n + 1
        BY <2>8, <4>2
      <4> QED
        BY <2>7, <4>1, <4>3
    <3>3. CASE n + 1 # len /\ r # b - 1
      <4>1. (n + 1) % BatchSize = r + 1 /\ r + 1 # 0
        BY <2>4, <2>5, <3>3
      <4>2. pc'[i] = "upserting"
        BY <2>3, <3>3, <4>1
      <4>3. Counted(i)' = Min({(n + 1) - (r + 1) + b, len})
        BY <2>1, <2>3, <2>4, <4>1, <4>2 DEF Counted
      <4>4. (n + 1) - (r + 1) + b = a
        BY <2>4, <2>6
      <4> QED
        BY <2>7, <4>3, <4>4
    <3> QED
      BY <3>1, <3>2, <3>3
  <2>10. Counts(i)
    BY <1>0 DEF SummaryInv, Accounts
  <2>11. Counts(i)'
    BY <2>3, <2>9, <2>10 DEF Counts
  <2>12. pc'[i] \in InTransaction /\ pc'[i] \notin Finished
    BY <2>3 DEF InTransaction, Finished
  <2> QED
    BY <2>11, <2>12 DEF Accounts
<1> QED
  BY <1>1, <1>2

(* The commit.  The import's own rows are now stored; another transaction  *)
(* may have counted as new a row that is no longer, and has lost `alone`.  *)
LEMMA StoredAfterInstall ==
    ASSUME ImportInv, NEW i \in Imports, Install(i)
    PROVE  Stored' = Stored \cup {s \in Stamps : written[i][s] # None}
BY DEF Install, Stored

LEMMA SummaryInstall ==
    ASSUME ImportInv, SummaryInv, NEW i \in Imports, pc[i] = "committing", Install(i),
           UNCHANGED <<rows, summary, sent>>, NEW place \in {"summarising", "failed"},
           Goto(i, place)
    PROVE  SummaryInv'
<1>0. /\ new' = [new EXCEPT ![i] = {s \in Stamps : written[i][s] # None} \ Stored]
      /\ alone' = [j \in Imports |-> alone[j] /\ (j = i \/ pc[j] \notin InTransaction)]
      /\ pc' = [pc EXCEPT ![i] = place]
  BY DEF Install, Goto
<1>1. Stored' = Stored \cup {s \in Stamps : written[i][s] # None}
  BY StoredAfterInstall
<1>2. ASSUME NEW j \in Imports, j # i PROVE Accounts(j)'
  <2>1. pc'[j] = pc[j] /\ new'[j] = new[j]
    BY <1>0, <1>2 DEF ImportInv, ImportTypeOK
  <2>2. (alone'[j] => alone[j]) /\ (pc[j] \in InTransaction => ~alone'[j])
    BY <1>0, <1>2
  <2> QED
    BY <1>1, <2>1, <2>2, AccountsKeep DEF SummaryInv
<1>3. Accounts(i)'
  <2>1. CASE place = "failed"
    <3>1. pc'[i] = "failed"
      BY <1>0, <2>1 DEF ImportInv, ImportTypeOK
    <3> QED
      BY <3>1 DEF Accounts, InTransaction, Finished
  <2>2. CASE place = "summarising"
    <3>1. pc'[i] = "summarising" /\ new'[i] = {s \in Stamps : written[i][s] # None} \ Stored
          /\ alone'[i] = alone[i]
      BY <1>0, <2>2 DEF ImportInv, ImportTypeOK
    <3>2. PICK seq \in Seq(Accepted) : seq = rows[i] /\ Distinct(seq)
      BY InsideTransaction DEF InTransaction
    <3>3. PICK n \in Nat : n = Len(seq) /\ DOMAIN seq = 1..n
      OBVIOUS
    <3>4. Upserted(written[i], seq, n)
      BY <3>2, <3>3 DEF ImportInv, TransactionInv, Trans, InTransaction, InStep
    <3>5. {s \in Stamps : written[i][s] # None} = StampsOf(seq, 1..n)
      <4>1. StampsOf(seq, 1..n) \in SUBSET Stamps
        BY <3>3, StampsOfRows
      <4>2. ASSUME NEW s \in Stamps PROVE written[i][s] # None <=> s \in StampsOf(seq, 1..n)
        <5>1. CASE /\ written[i][s] = None
                   /\ \A k \in 1..n : seq[k].timestamp # s
          BY <5>1 DEF StampsOf
        <5>2. ASSUME NEW k \in 1..n, seq[k].timestamp = s, written[i][s] = StoredBar(seq[k])
              PROVE  written[i][s] # None /\ s \in StampsOf(seq, 1..n)
          <6>1. seq[k] \in Accepted
            BY <3>3
          <6>2. StoredBar(seq[k]) \in Bar
            BY <6>1, AcceptedStored
          <6> QED
            BY <5>2, <6>2, FileAssumption DEF StampsOf
        <5> QED
          BY <3>4, <5>1, <5>2 DEF Upserted
      <4> QED
        BY <4>1, <4>2
    <3>6. Counted(i) = n
      BY <3>2, <3>3 DEF Counted
    <3>7. Counts(i)
      BY DEF SummaryInv, Accounts, InTransaction
    <3>8. PICK file \in Files[i] \ {None} :
              /\ file \in Seq(RawRow) /\ Reads(file, i)
              /\ HasRead(parse_market_csv(file), file, Len(file))
      BY InsideTransaction DEF InTransaction
    <3>9. PICK got \in Summary : got = summary[i] /\ summary'[i] = got
      BY DEF ImportInv, ImportTypeOK
    <3>10. n + got.skipped = got.total_csv_rows
      BY <3>2, <3>3, <3>8, <3>9 DEF Reads, HasRead
    <3>11. got.inserted_rows \in Int /\ got.updated_rows \in Nat /\ got.skipped \in Nat
      BY DEF Summary
    <3>12. /\ got.inserted_rows + got.updated_rows = n
           /\ got.inserted_rows >= Cardinality(new'[i])
           /\ alone[i] => got.inserted_rows = Cardinality(new'[i])
      BY <3>1, <3>2, <3>5, <3>6, <3>7, <3>9 DEF Counts
    <3>13. got.inserted_rows + got.updated_rows + got.skipped = got.total_csv_rows
      BY <3>10, <3>11, <3>12
    <3>14. StampsOf(seq, 1..n) \subseteq Stored'
      BY <1>1, <3>5
    <3>15. rows'[i] = seq
      BY <3>2
    <3>16. Covers(i)'
      BY <3>1, <3>2, <3>3, <3>9, <3>12, <3>13, <3>14, <3>15 DEF Covers
    <3> QED
      BY <3>1, <3>16 DEF Accounts, InTransaction, Finished
  <2> QED
    BY <2>1, <2>2
<1> QED
  BY <1>2, <1>3 DEF SummaryInv

(* The queries see the import's own rows. *)
LEMMA SummaryQuery ==
    ASSUME ImportInv, SummaryInv, NEW i \in Imports,
           QueryEarliest(i) \/ QueryLatest(i) \/ QueryTotal(i)
    PROVE  Accounts(i)'
<1>1. PICK got \in Summary : got = summary[i]
  BY DEF ImportInv, ImportTypeOK
<1>2. PICK seq \in Seq(Accepted) : seq = rows[i]
  BY DEF ImportInv, ImportTypeOK
<1>3. /\ UNCHANGED <<market_data, rows, new, alone>>
      /\ rows'[i] = seq /\ Stored' = Stored /\ new'[i] = new[i] /\ alone'[i] = alone[i]
  BY <1>2 DEF QueryEarliest, QueryLatest, QueryTotal, Stored
<1>4. Covers(i)
  BY DEF QueryEarliest, QueryLatest, QueryTotal, SummaryInv, Accounts, Finished
<1>5. DOMAIN seq = 1..Len(seq) /\ Len(seq) \in Nat /\ Distinct(seq)
      /\ StampsOf(seq, 1..Len(seq)) \subseteq Stored
  BY <1>2, <1>4 DEF Covers
<1>6. \A k \in DOMAIN seq : seq[k].timestamp \in Stored
  BY <1>5 DEF StampsOf
<1>7. Stored \in SUBSET Stamps /\ IsFiniteSet(Stored) /\ Cardinality(Stored) \in Nat
      /\ None \notin Stamps /\ Stamps \subseteq Nat
  BY StoredFinite, ImportAssumption
<1>8. CASE QueryEarliest(i)
  <2>1. PICK e : e = IF Stored = {} THEN None ELSE Min(Stored)
    OBVIOUS
  <2>2. summary'[i] = [got EXCEPT !.earliest = e] /\ pc'[i] = "latest"
    BY <1>1, <1>8, <2>1 DEF QueryEarliest, Goto, ImportInv, ImportTypeOK
  <2>3. PICK after : after = [got EXCEPT !.earliest = e]
    OBVIOUS
  <2>4. /\ after.inserted_rows = got.inserted_rows /\ after.updated_rows = got.updated_rows
        /\ after.skipped = got.skipped /\ after.total_csv_rows = got.total_csv_rows
        /\ after.earliest = e
    BY <2>3 DEF Summary
  <2>5. ASSUME NEW k \in DOMAIN seq PROVE e <= seq[k].timestamp /\ e # None
    <3>1. Stored # {} /\ seq[k].timestamp \in Stored
      BY <1>6
    <3>2. Min(Stored) \in Stored /\ Min(Stored) <= seq[k].timestamp
      BY <1>7, <3>1, EarliestOf
    <3> QED
      BY <1>7, <2>1, <3>1, <3>2
  <2>6. Covers(i)'
    BY <1>1, <1>2, <1>3, <1>4, <2>2, <2>3, <2>4, <2>5 DEF Covers
  <2> QED
    BY <2>2, <2>6 DEF Accounts, InTransaction, Finished
<1>9. CASE QueryLatest(i)
  <2>1. PICK e : e = IF Stored = {} THEN None ELSE Max(Stored)
    OBVIOUS
  <2>2. summary'[i] = [got EXCEPT !.latest = e] /\ pc'[i] = "total" /\ pc[i] = "latest"
    BY <1>1, <1>9, <2>1 DEF QueryLatest, Goto, ImportInv, ImportTypeOK
  <2>3. PICK after : after = [got EXCEPT !.latest = e]
    OBVIOUS
  <2>4. /\ after.inserted_rows = got.inserted_rows /\ after.updated_rows = got.updated_rows
        /\ after.skipped = got.skipped /\ after.total_csv_rows = got.total_csv_rows
        /\ after.earliest = got.earliest /\ after.latest = e
    BY <2>3 DEF Summary
  <2>5. ASSUME NEW k \in DOMAIN seq PROVE seq[k].timestamp <= e /\ e # None
    <3>1. Stored # {} /\ seq[k].timestamp \in Stored
      BY <1>6
    <3>2. Max(Stored) \in Stored /\ Max(Stored) >= seq[k].timestamp
      BY <1>7, <3>1, LatestOf
    <3>3. Max(Stored) \in Nat /\ seq[k].timestamp \in Nat /\ Max(Stored) # None
      BY <1>7, <3>1, <3>2
    <3> QED
      BY <2>1, <3>1, <3>2, <3>3
  <2>6. Covers(i)'
    BY <1>1, <1>2, <1>3, <1>4, <2>2, <2>3, <2>4, <2>5 DEF Covers
  <2> QED
    BY <2>2, <2>6 DEF Accounts, InTransaction, Finished
<1>10. CASE QueryTotal(i)
  <2>1. PICK e : e = Cardinality(Stored)
    OBVIOUS
  <2>2. summary'[i] = [got EXCEPT !.total_symbol_rows = e] /\ pc'[i] = "done" /\ pc[i] = "total"
    BY <1>1, <1>10, <2>1 DEF QueryTotal, Goto, ImportInv, ImportTypeOK
  <2>3. PICK after : after = [got EXCEPT !.total_symbol_rows = e]
    OBVIOUS
  <2>4. /\ after.inserted_rows = got.inserted_rows /\ after.updated_rows = got.updated_rows
        /\ after.skipped = got.skipped /\ after.total_csv_rows = got.total_csv_rows
        /\ after.earliest = got.earliest /\ after.latest = got.latest
        /\ after.total_symbol_rows = e
    BY <2>3 DEF Summary
  <2>5. e >= Len(seq)
    <3>1. PICK n \in Nat, m \in Nat : n = 0 /\ m = Len(seq)
      BY <1>5
    <3>2. n <= m /\ m <= Len(seq) /\ Distinct(seq)
      BY <1>5, <3>1
    <3>3. Cardinality(StampsOf(seq, (n + 1)..m)) = m - n
      BY <3>2, CountRows, Zenon
    <3>4. (n + 1)..m = 1..Len(seq) /\ m - n = Len(seq)
      BY <3>1
    <3>5. Cardinality(StampsOf(seq, 1..Len(seq))) = Len(seq)
      BY <3>3, <3>4
    <3>6. Cardinality(StampsOf(seq, 1..Len(seq))) <= Cardinality(Stored)
      BY <1>5, <1>7, FS_Subset
    <3> QED
      BY <1>5, <1>7, <2>1, <3>5, <3>6
  <2>6. Covers(i)'
    BY <1>1, <1>2, <1>3, <1>4, <2>2, <2>3, <2>4, <2>5 DEF Covers
  <2> QED
    BY <2>2, <2>6 DEF Accounts, InTransaction, Finished
<1> QED
  BY <1>8, <1>9, <1>10

(* A step of one import that commits nothing leaves the others' accounts. *)
LEMMA OtherAccounts ==
    ASSUME ImportInv, SummaryInv, NEW i \in Imports, NEW j \in Imports, j # i,
           \/ \E file \in Files[i] : Start(i, file)
           \/ SelectExisting(i) \/ UpsertRow(i) \/ Rollback(i)
           \/ QueryEarliest(i) \/ QueryLatest(i) \/ QueryTotal(i) \/ RunAgain(i)
    PROVE  Accounts(j)'
<1>1. market_data' = market_data
  BY DEF Start, SelectExisting, UpsertRow, Rollback, QueryEarliest, QueryLatest, QueryTotal, RunAgain
<1>2. pc'[j] = pc[j] /\ rows'[j] = rows[j] /\ sent'[j] = sent[j]
  BY DEF Start, SelectExisting, UpsertRow, Rollback, QueryEarliest, QueryLatest, QueryTotal, RunAgain,
         Goto, ImportInv, ImportTypeOK
<1>3. summary'[j] = summary[j]
  BY DEF Start, SelectExisting, UpsertRow, Rollback, QueryEarliest, QueryLatest, QueryTotal, RunAgain,
         ImportInv, ImportTypeOK
<1>4. new'[j] = new[j] /\ alone'[j] = alone[j]
  BY DEF Start, SelectExisting, UpsertRow, Rollback, QueryEarliest, QueryLatest, QueryTotal, RunAgain,
         ImportInv, ImportTypeOK
<1>5. Stored' = Stored
  BY <1>1 DEF Stored
<1> QED
  BY <1>2, <1>3, <1>4, <1>5, AccountsKeep DEF SummaryInv

LEMMA SummaryNext == ImportInv /\ SummaryInv /\ [Next]_vars => SummaryInv'
<1> SUFFICES ASSUME ImportInv, SummaryInv, [Next]_vars PROVE SummaryInv'
  OBVIOUS
<1>0. ASSUME NEW i \in Imports, Rollback(i) PROVE SummaryInv'
  <2>1. pc'[i] = "failed"
    BY <1>0 DEF Rollback, Goto, ImportInv, ImportTypeOK
  <2>2. Accounts(i)'
    BY <2>1 DEF Accounts, InTransaction, Finished
  <2> QED
    BY <1>0, <2>2, OtherAccounts DEF SummaryInv
<1>1. CASE UNCHANGED vars
  <2>1. Stored' = Stored
    BY <1>1 DEF vars, Stored
  <2>2. ASSUME NEW j \in Imports PROVE Accounts(j)'
    BY <1>1, <2>1, AccountsKeep DEF vars, SummaryInv
  <2> QED
    BY <2>2 DEF SummaryInv
<1>2. ASSUME NEW i \in Imports, NEW file \in Files[i], Start(i, file) PROVE SummaryInv'
  BY <1>2, SummaryStart, OtherAccounts DEF SummaryInv
<1>3. ASSUME NEW i \in Imports, Step(i) PROVE SummaryInv'
  <2>1. CASE SelectExisting(i)
    BY <2>1, SummarySelect, OtherAccounts DEF SummaryInv
  <2>2. CASE UpsertRow(i)
    BY <2>2, SummaryUpsert, OtherAccounts DEF SummaryInv
  <2>3. CASE DeadlockDetected(i)
    BY <1>0, <2>3 DEF DeadlockDetected
  <2>4. CASE Commit(i)
    BY <2>4, SummaryInstall DEF Commit
  <2>5. CASE QueryEarliest(i) \/ QueryLatest(i) \/ QueryTotal(i)
    BY <2>5, SummaryQuery, OtherAccounts DEF SummaryInv
  <2> QED
    BY <1>3, <2>1, <2>2, <2>3, <2>4, <2>5 DEF Step
<1>4. ASSUME NEW i \in Imports, ConnectionLost(i) PROVE SummaryInv'
  BY <1>0, <1>4, SummaryInstall DEF ConnectionLost
<1>5. ASSUME NEW i \in Imports, RunAgain(i) PROVE SummaryInv'
  <2>1. pc'[i] = "idle"
    BY <1>5 DEF RunAgain, Goto, ImportInv, ImportTypeOK
  <2>2. Accounts(i)'
    BY <2>1 DEF Accounts, InTransaction, Finished
  <2> QED
    BY <1>5, <2>2, OtherAccounts DEF SummaryInv
<1> QED
  BY <1>1, <1>2, <1>3, <1>4, <1>5 DEF Next

(* The summary an operator reads adds up to the file, counts at least the  *)
(* rows that were new, exactly those if no other import committed in the   *)
(* meantime, and its range and total cover the rows of the file.           *)
THEOREM SummariesAreHonest == Spec => []SummaryIsHonest
<1>1. Init => SummaryInv
  <2> SUFFICES ASSUME Init, NEW i \in Imports PROVE Accounts(i)
    BY DEF SummaryInv
  <2>1. pc[i] = "idle"
    BY DEF Init
  <2> QED
    BY <2>1 DEF Accounts, InTransaction, Finished
<1>2. ImportInv /\ SummaryInv => SummaryIsHonest
  <2> SUFFICES ASSUME SummaryInv, NEW i \in Imports, pc[i] \in Finished
      PROVE  LET got == summary[i] IN
             /\ got.inserted_rows + got.updated_rows + got.skipped = got.total_csv_rows
             /\ got.inserted_rows >= Cardinality(new[i])
             /\ alone[i] => got.inserted_rows = Cardinality(new[i])
             /\ pc[i] = "done" =>
                   /\ got.total_symbol_rows >= Len(rows[i])
                   /\ \A k \in DOMAIN rows[i] :
                         /\ got.earliest <= rows[i][k].timestamp
                         /\ rows[i][k].timestamp <= got.latest
    BY DEF SummaryIsHonest, Finished
  <2>1. Covers(i)
    BY DEF SummaryInv, Accounts
  <2> QED
    BY <2>1 DEF Covers
<1> QED
  BY <1>1, <1>2, ImportInvariant, SummaryNext, PTL DEF Spec
=============================================================================
