---------------------------- MODULE PreviewProofs ----------------------------
(***************************************************************************)
(* Proofs about StrategyPreview and the StrategyCompiler it extends, for   *)
(* every series, every specification and every pair of risk controls.      *)
(* What is known of the engine is taken from BacktestProofs.               *)
(***************************************************************************)
EXTENDS StrategyPreview, FiniteSetTheorems, WellFoundedInduction, TLAPS

EP == INSTANCE BacktestProofs

-----------------------------------------------------------------------------
(* Recursion over data.  The provers cannot instantiate an induction       *)
(* theorem's predicate, but they can a set: so the steps below are stated  *)
(* with sets and functions.                                                *)

(* A nonempty set of natural numbers has a least element. *)
LEMMA NatMin == ASSUME NEW T \in SUBSET Nat, T # {} PROVE \E x \in T : \A y \in T : x <= y
<1> DEFINE R == OpToRel(<,Nat)
<1>1. IsWellFoundedOn(R, Nat)
  BY NatLessThanWellFounded
<1>2. \A x, y \in Nat : <<y, x>> \in R <=> y < x
  BY DEF OpToRel
<1> HIDE DEF R
<1>3. PICK x \in T : \A y \in T : ~ (<<y, x>> \in R)
  BY <1>1, WFMin
<1>4. ASSUME NEW y \in T PROVE x <= y
  <2>1. x \in Nat /\ y \in Nat
    OBVIOUS
  <2>2. ~(y < x)
    BY <1>2, <1>3, <2>1
  <2> QED
    BY <2>1, <2>2
<1> QED
  BY <1>4

(* Induction, over a set instead of a predicate. *)
LEMMA NatSet == ASSUME NEW S \in SUBSET Nat, 0 \in S, \A n \in S : n + 1 \in S PROVE S = Nat
<1> SUFFICES ASSUME S # Nat PROVE FALSE
  OBVIOUS
<1>1. PICK x \in Nat \ S : \A y \in Nat \ S : x <= y
  BY NatMin
<1>2. x - 1 \in S /\ x # 0
  BY <1>1
<1> QED BY <1>1, <1>2

(* ch takes an element of every subset of S. *)
Chooses(ch, S) == IsFiniteSet(S) /\ \A s \in SUBSET S : s # {} => ch[s] \in s

(* G gives, for each subset, a function of V into V. *)
Turns(G, S, V) == \A s \in SUBSET S : \A v \in V : s # {} => G[s][v] \in V

(* h is the fold that takes ch[s] away from s at each turn. *)
IsFold(h, S, V, base, ch, G) ==
    /\ h \in [SUBSET S -> V]
    /\ \A s \in SUBSET S : h[s] = IF s = {} THEN base ELSE G[s][h[s \ {ch[s]}]]

(* {} is in P, and what P holds of s without ch[s] it holds of s. *)
Inductive(P, S, ch) ==
    {} \in P /\ \A s \in SUBSET S : s # {} /\ s \ {ch[s]} \in P => s \in P

(* A fold over a finite set is well defined. *)
LEMMA FoldExists ==
    ASSUME NEW S, NEW V, NEW base \in V, NEW ch, Chooses(ch, S), NEW G, Turns(G, S, V)
    PROVE  \E h : IsFold(h, S, V, base, ch, G)
<1> USE DEF Chooses, Turns, IsFold
<1> DEFINE Small(n) == {s \in SUBSET S : Cardinality(s) <= n}
           Good == {n \in Nat : \E h \in [Small(n) -> V] :
                       \A s \in Small(n) :
                          h[s] = IF s = {} THEN base ELSE G[s][h[s \ {ch[s]}]]}
<1>0. \A s \in SUBSET S : IsFiniteSet(s) /\ Cardinality(s) \in Nat
  BY FS_Subset, FS_CardinalityType
<1>1. ASSUME NEW s \in SUBSET S, s # {}
      PROVE  /\ s \ {ch[s]} \in SUBSET S
             /\ Cardinality(s \ {ch[s]}) = Cardinality(s) - 1
  BY <1>0, <1>1, FS_RemoveElement
<1>2. 0 \in Good
  <2> DEFINE h == [s \in Small(0) |-> base]
  <2>1. \A s \in Small(0) : s = {}
    BY <1>0, FS_EmptySet
  <2>2. h \in [Small(0) -> V]
    OBVIOUS
  <2>3. \A s \in Small(0) : h[s] = IF s = {} THEN base ELSE G[s][h[s \ {ch[s]}]]
    BY <2>1
  <2> HIDE DEF h
  <2> QED
    BY <2>2, <2>3
<1>3. ASSUME NEW n \in Good PROVE n + 1 \in Good
  <2>1. n \in Nat
    OBVIOUS
  <2>2. PICK h \in [Small(n) -> V] :
            \A s \in Small(n) : h[s] = IF s = {} THEN base ELSE G[s][h[s \ {ch[s]}]]
    OBVIOUS
  <2> DEFINE g == [s \in Small(n + 1) |-> IF s \in Small(n) THEN h[s]
                                          ELSE G[s][h[s \ {ch[s]}]]]
  <2>3. \A s \in Small(n) : s \in Small(n + 1)
    BY <1>0, <2>1
  <2>4. ASSUME NEW s \in Small(n + 1), s # {}
        PROVE  s \ {ch[s]} \in Small(n)
    BY <1>0, <1>1, <2>1, <2>4
  <2>5. {} \in Small(n)
    BY <2>1, FS_EmptySet
  <2> HIDE DEF Small, Good
  <2>6. g \in [Small(n + 1) -> V]
    <3>1. ASSUME NEW s \in Small(n + 1) PROVE g[s] \in V
      <4>1. CASE s \in Small(n)
        BY <2>2, <4>1
      <4>2. CASE s \notin Small(n)
        <5>1. s # {} /\ s \in SUBSET S
          BY <2>5, <4>2 DEF Small
        <5> QED
          BY <2>2, <2>4, <4>2, <5>1
      <4> QED BY <4>1, <4>2
    <3> QED
      BY <3>1
  <2>7. ASSUME NEW s \in Small(n + 1)
        PROVE  g[s] = IF s = {} THEN base ELSE G[s][g[s \ {ch[s]}]]
    <3>1. s # {} => s \ {ch[s]} \in Small(n) /\ g[s \ {ch[s]}] = h[s \ {ch[s]}]
      BY <2>3, <2>4
    <3>2. CASE s \in Small(n)
      BY <2>2, <3>1, <3>2
    <3>3. CASE s \notin Small(n)
      BY <2>5, <3>1, <3>3
    <3> QED
      BY <3>2, <3>3
  <2> HIDE DEF g
  <2>8. \E f \in [Small(n + 1) -> V] :
            \A s \in Small(n + 1) : f[s] = IF s = {} THEN base ELSE G[s][f[s \ {ch[s]}]]
    BY <2>6, <2>7
  <2>9. n + 1 \in Nat
    BY <2>1
  <2> QED
    BY <2>8, <2>9, Zenon DEF Good
<1>4. Good = Nat
  <2>1. Good \in SUBSET Nat
    OBVIOUS
  <2> HIDE DEF Good
  <2> QED
    BY <1>2, <1>3, <2>1, NatSet
<1>5. Cardinality(S) \in Good
  BY <1>0, <1>4
<1>6. Small(Cardinality(S)) = SUBSET S
  BY FS_Subset
<1> HIDE DEF Small
<1> QED
  BY <1>5, <1>6

(* ... and what holds of {} and is handed up by each turn holds of every   *)
(* subset.                                                                 *)
LEMMA FoldInduction ==
    ASSUME NEW S, NEW ch, Chooses(ch, S), NEW P, Inductive(P, S, ch)
    PROVE  S \in P
<1> USE DEF Chooses, Inductive
<1> DEFINE Good == {n \in Nat : \A s \in SUBSET S : Cardinality(s) = n => s \in P}
<1>0. \A s \in SUBSET S : IsFiniteSet(s) /\ Cardinality(s) \in Nat
  BY FS_Subset, FS_CardinalityType
<1>1. 0 \in Good
  BY <1>0, FS_EmptySet
<1>2. ASSUME NEW n \in Good PROVE n + 1 \in Good
  <2>1. n \in Nat /\ \A s \in SUBSET S : Cardinality(s) = n => s \in P
    OBVIOUS
  <2> HIDE DEF Good
  <2>2. ASSUME NEW s \in SUBSET S, Cardinality(s) = n + 1 PROVE s \in P
    <3>1. s # {}
      BY <1>0, <2>1, <2>2, FS_EmptySet
    <3>2. PICK x \in s : x = ch[s]
      BY <3>1
    <3>3. Cardinality(s \ {x}) = n
      BY <1>0, <2>1, <2>2, FS_RemoveElement
    <3> QED
      BY <2>1, <3>1, <3>2, <3>3
  <2> QED
    BY <2>1, <2>2 DEF Good
<1>3. Good = Nat
  <2>1. Good \in SUBSET Nat
    OBVIOUS
  <2> HIDE DEF Good
  <2> QED
    BY <1>1, <1>2, <2>1, NatSet
<1> QED
  BY <1>0, <1>3

(* Sums of whole numbers over a finite set of positions. *)
Sigma(f, T) == MapThenSumSet(LAMBDA i : f[i], T)
Pick(s) == CHOOSE x \in s : TRUE

(* g[s] is the sum of f over s, for every subset s of T. *)
IsSum(g, f, T) ==
    \A s \in SUBSET T : /\ g[s] \in Int
                        /\ g[s] = IF s = {} THEN 0 ELSE f[Pick(s)] + g[s \ {Pick(s)}]

LEMMA PickChooses ==
    ASSUME NEW T, IsFiniteSet(T)
    PROVE  \E ch : Chooses(ch, T) /\ \A s \in SUBSET T : ch[s] = Pick(s)
<1>1. PICK ch : ch = [s \in SUBSET T |-> Pick(s)]
  OBVIOUS
<1>2. \A s \in SUBSET T : ch[s] = Pick(s) /\ (s # {} => Pick(s) \in s)
  BY <1>1 DEF Pick
<1> QED
  BY <1>2 DEF Chooses

LEMMA SumExists ==
    ASSUME NEW f, NEW T, IsFiniteSet(T), \A i \in T : f[i] \in Int
    PROVE  \E g : IsSum(g, f, T) /\ Sigma(f, T) = g[T]
<1>1. PICK ch : Chooses(ch, T) /\ \A s \in SUBSET T : ch[s] = Pick(s)
  BY PickChooses
<1>2. PICK G : G = [s \in SUBSET T |-> [v \in Int |-> f[ch[s]] + v]]
  OBVIOUS
<1>3. \A s \in SUBSET T : s # {} => f[ch[s]] \in Int
  BY <1>1 DEF Chooses
<1>4. PICK h \in [SUBSET T -> Int] :
          \A s \in SUBSET T : h[s] = IF s = {} THEN 0 ELSE G[s][h[s \ {ch[s]}]]
  <2>1. PICK V, base : V = Int /\ base = 0
    OBVIOUS
  <2>2. \A s \in SUBSET T : \A v \in V : s # {} => G[s][v] \in V
    BY <1>2, <1>3, <2>1
  <2>3. base \in V
    BY <2>1
  <2>4. Turns(G, T, V)
    BY <2>2 DEF Turns
  <2>5. \E h : IsFold(h, T, V, base, ch, G)
    BY <1>1, <2>3, <2>4, FoldExists
  <2> QED
    BY <2>1, <2>5 DEF IsFold
<1> DEFINE Turn(g) == [s \in SUBSET T |-> IF s = {} THEN 0
                          ELSE f[CHOOSE x \in s : TRUE] + g[s \ {CHOOSE x \in s : TRUE}]]
<1>5. PICK g : g = Turn(g) /\ Sigma(f, T) = g[T]
  <2>1. \A s \in SUBSET T : s # {} => G[s][h[s \ {ch[s]}]] = f[Pick(s)] + h[s \ {Pick(s)}]
    BY <1>1, <1>2, <1>4
  <2>2. h = Turn(h)
    BY <1>4, <2>1 DEF Pick
  <2>3. Sigma(f, T) = (CHOOSE g : g = Turn(g))[T]
    BY DEF Sigma, MapThenSumSet, MapThenFoldSet
  <2> HIDE DEF Turn
  <2> QED
    BY <2>2, <2>3
<1>6. \A s \in SUBSET T : g[s] = IF s = {} THEN 0 ELSE f[Pick(s)] + g[s \ {Pick(s)}]
  BY <1>5 DEF Pick
<1> HIDE DEF Turn
<1>7. ASSUME NEW U \in SUBSET T PROVE g[U] \in Int
  <2>0. PICK c : Chooses(c, U) /\ \A s \in SUBSET U : c[s] = Pick(s)
    BY PickChooses, FS_Subset
  <2>1. PICK P : P = {s \in SUBSET U : g[s] \in Int}
    OBVIOUS
  <2>2. {} \in P
    <3>1. {} \in SUBSET T /\ g[{}] = 0
      BY <1>6
    <3> QED
      BY <2>1, <3>1
  <2>3. ASSUME NEW s \in SUBSET U, s # {}, s \ {c[s]} \in P PROVE s \in P
    <3>1. g[s \ {c[s]}] \in Int
      BY <2>1, <2>3
    <3>2. g[s] = f[c[s]] + g[s \ {c[s]}]
      BY <1>6, <2>0, <2>3
    <3>3. f[c[s]] \in Int
      BY <2>0, <2>3 DEF Chooses
    <3> QED
      BY <2>1, <3>1, <3>2, <3>3
  <2>4. Inductive(P, U, c)
    BY <2>2, <2>3 DEF Inductive
  <2>5. U \in P
    BY <2>0, <2>4, FoldInduction
  <2> QED
    BY <2>1, <2>5
<1> QED
  BY <1>5, <1>6, <1>7 DEF IsSum

(* Two functions that agree on a set have the same sum over it. *)
LEMMA SumUnique ==
    ASSUME NEW T, IsFiniteSet(T), NEW f1, NEW f2, NEW g, NEW h,
           IsSum(g, f1, T), IsSum(h, f2, T), \A i \in T : f1[i] = f2[i]
    PROVE  g[T] = h[T]
<1>1. PICK ch : Chooses(ch, T) /\ \A s \in SUBSET T : ch[s] = Pick(s)
  BY PickChooses
<1>2. PICK P : P = {s \in SUBSET T : g[s] = h[s]}
  OBVIOUS
<1>3. {} \in P
  BY <1>2 DEF IsSum
<1>4. ASSUME NEW s \in SUBSET T, s # {}, s \ {ch[s]} \in P PROVE s \in P
  <2>1. g[s \ {ch[s]}] = h[s \ {ch[s]}]
    BY <1>2, <1>4
  <2>2. g[s] = f1[ch[s]] + g[s \ {ch[s]}] /\ h[s] = f2[ch[s]] + h[s \ {ch[s]}]
    BY <1>1, <1>4 DEF IsSum
  <2>3. f1[ch[s]] = f2[ch[s]]
    BY <1>1, <1>4 DEF Chooses
  <2> QED
    BY <1>2, <2>1, <2>2, <2>3
<1>5. Inductive(P, T, ch)
  BY <1>3, <1>4 DEF Inductive
<1>6. T \in P
  BY <1>1, <1>5, FoldInduction
<1> QED
  BY <1>2, <1>6

LEMMA SumCongruent ==
    ASSUME NEW T, IsFiniteSet(T), NEW f1, NEW f2,
           \A i \in T : f1[i] \in Int /\ f1[i] = f2[i]
    PROVE  Sigma(f1, T) = Sigma(f2, T)
<1>1. PICK g : IsSum(g, f1, T) /\ Sigma(f1, T) = g[T]
  BY SumExists
<1>2. \A i \in T : f2[i] \in Int
  OBVIOUS
<1>3. PICK h : IsSum(h, f2, T) /\ Sigma(f2, T) = h[T]
  BY <1>2, SumExists
<1>4. g[T] = h[T]
  BY <1>1, <1>3, SumUnique
<1> QED
  BY <1>1, <1>3, <1>4

LEMMA SumOfSubset ==
    ASSUME NEW T, IsFiniteSet(T), NEW f, NEW g, IsSum(g, f, T), \A i \in T : f[i] \in Int,
           NEW U \in SUBSET T
    PROVE  Sigma(f, U) = g[U]
<1>1. IsFiniteSet(U) /\ \A i \in U : f[i] \in Int
  BY FS_Subset
<1>2. PICK h : IsSum(h, f, U) /\ Sigma(f, U) = h[U]
  BY <1>1, SumExists
<1>3. IsSum(g, f, U)
  BY DEF IsSum
<1>4. h[U] = g[U]
  BY <1>1, <1>2, <1>3, SumUnique
<1> QED
  BY <1>2, <1>4

(* The order of summation does not matter: any element can be split off.   *)
LEMMA SumRemove ==
    ASSUME NEW T, IsFiniteSet(T), NEW f, \A i \in T : f[i] \in Int, NEW x \in T
    PROVE  Sigma(f, T) = f[x] + Sigma(f, T \ {x})
<1>1. PICK g : IsSum(g, f, T) /\ Sigma(f, T) = g[T]
  BY SumExists
<1>2. \A s \in SUBSET T : IsFiniteSet(s) /\ Cardinality(s) \in Nat
  BY FS_Subset, FS_CardinalityType
<1>3. PICK Good : Good = {n \in Nat : \A s \in SUBSET T : Cardinality(s) = n =>
                                        \A y \in s : g[s] = f[y] + g[s \ {y}]}
  OBVIOUS
<1>4. 0 \in Good
  <2>1. \A s \in SUBSET T : Cardinality(s) = 0 => s = {}
    BY <1>2, FS_EmptySet
  <2> QED
    BY <1>3, <2>1
<1>5. ASSUME NEW n \in Good PROVE n + 1 \in Good
  <2>1. n \in Nat /\ \A s \in SUBSET T : Cardinality(s) = n =>
                                             \A y \in s : g[s] = f[y] + g[s \ {y}]
    BY <1>3
  <2>2. ASSUME NEW s \in SUBSET T, Cardinality(s) = n + 1, NEW y \in s
        PROVE  g[s] = f[y] + g[s \ {y}]
    <3>1. PICK c \in s : c = Pick(s)
      BY DEF Pick
    <3>2. g[s] = f[c] + g[s \ {c}]
      BY <1>1, <3>1 DEF IsSum
    <3>3. CASE c = y
      BY <3>2, <3>3
    <3>4. CASE c # y
      <4>1. Cardinality(s \ {c}) = n /\ Cardinality(s \ {y}) = n
        <5>1. ASSUME NEW z \in s PROVE Cardinality(s \ {z}) = n
          <6>1. IsFiniteSet(s)
            BY <1>2
          <6>2. Cardinality(s \ {z}) = Cardinality(s) - 1
            BY <6>1, FS_RemoveElement
          <6> QED
            BY <2>1, <2>2, <6>2
        <5> QED
          BY <5>1
      <4>2. g[s \ {c}] = f[y] + g[(s \ {c}) \ {y}]
        BY <2>1, <3>4, <4>1
      <4>3. g[s \ {y}] = f[c] + g[(s \ {y}) \ {c}]
        BY <2>1, <3>4, <4>1
      <4>4. (s \ {c}) \ {y} = (s \ {y}) \ {c}
        OBVIOUS
      <4>5. PICK a, b, r : a = f[c] /\ b = f[y] /\ r = g[(s \ {c}) \ {y}]
        OBVIOUS
      <4>6. a \in Int /\ b \in Int /\ r \in Int
        BY <1>1, <4>5 DEF IsSum
      <4>7. g[s] = a + (b + r) /\ g[s \ {y}] = a + r
        BY <3>2, <4>2, <4>3, <4>4, <4>5
      <4>8. a + (b + r) = b + (a + r)
        BY <4>6
      <4> QED
        BY <4>5, <4>7, <4>8
    <3> QED
      BY <3>3, <3>4
  <2>3. n + 1 \in Nat
    BY <2>1
  <2> QED
    BY <1>3, <2>2, <2>3
<1>6. Good = Nat
  <2>1. Good \in SUBSET Nat
    BY <1>3
  <2> QED
    BY <1>4, <1>5, <2>1, NatSet
<1>7. g[T] = f[x] + g[T \ {x}]
  BY <1>2, <1>3, <1>6
<1>8. Sigma(f, T \ {x}) = g[T \ {x}]
  BY <1>1, SumOfSubset
<1> QED
  BY <1>1, <1>7, <1>8

(* The sum of multiples of p is a multiple of p. *)
Multiples(f, T, p) == \A i \in T : \E k \in Int : f[i] = k * p

LEMMA SumOfMultiples ==
    ASSUME NEW T, IsFiniteSet(T), NEW f, NEW p \in Int, Multiples(f, T, p)
    PROVE  \E k \in Int : Sigma(f, T) = k * p
<1> USE DEF Multiples
<1>1. \A i \in T : f[i] \in Int
  OBVIOUS
<1>2. PICK g : IsSum(g, f, T) /\ Sigma(f, T) = g[T]
  BY <1>1, SumExists
<1>3. PICK ch : Chooses(ch, T) /\ \A s \in SUBSET T : ch[s] = Pick(s)
  BY PickChooses
<1>4. PICK P : P = {s \in SUBSET T : \E k \in Int : g[s] = k * p}
  OBVIOUS
<1>5. {} \in P
  <2>1. g[{}] = 0
    BY <1>2 DEF IsSum
  <2>2. 0 = 0 * p
    OBVIOUS
  <2> QED
    BY <1>4, <2>1, <2>2
<1>6. ASSUME NEW s \in SUBSET T, s # {}, s \ {ch[s]} \in P PROVE s \in P
  <2>1. PICK k1 \in Int : g[s \ {ch[s]}] = k1 * p
    BY <1>4, <1>6
  <2>2. PICK k2 \in Int : f[ch[s]] = k2 * p
    BY <1>3, <1>6 DEF Chooses
  <2>3. g[s] = f[ch[s]] + g[s \ {ch[s]}]
    BY <1>2, <1>3, <1>6 DEF IsSum
  <2>4. g[s] = (k2 + k1) * p /\ k2 + k1 \in Int
    BY <2>1, <2>2, <2>3
  <2> QED
    BY <1>4, <2>4
<1>7. Inductive(P, T, ch)
  BY <1>5, <1>6 DEF Inductive
<1>8. T \in P
  BY <1>3, <1>7, FoldInduction
<1> QED
  BY <1>2, <1>4, <1>8

(* What the averages use of all this. *)
Whole(seq, a, b) == \A i \in a..b : seq[i] \in Int
Alike(s1, s2, a, b) == \A i \in a..b : s1[i] = s2[i]

LEMMA SumIsWhole ==
    ASSUME NEW seq, NEW a \in Int, NEW b \in Int, Whole(seq, a, b)
    PROVE  SumOver(seq, a, b) \in Int
<1> USE DEF Whole
<1>1. PICK T : T = a..b
  OBVIOUS
<1>2. IsFiniteSet(T) /\ \A i \in T : seq[i] \in Int
  BY <1>1, FS_Interval
<1>3. PICK g : IsSum(g, seq, T) /\ Sigma(seq, T) = g[T]
  BY <1>2, SumExists
<1>4. g[T] \in Int
  BY <1>3 DEF IsSum
<1> QED
  BY <1>1, <1>3, <1>4 DEF SumOver, Sigma

LEMMA SumFirst ==
    ASSUME NEW seq, NEW a \in Int, NEW b \in Int, a <= b, Whole(seq, a, b)
    PROVE  SumOver(seq, a, b) = seq[a] + SumOver(seq, a + 1, b)
<1> USE DEF Whole
<1>1. PICK T : T = a..b
  OBVIOUS
<1>2. IsFiniteSet(T) /\ a \in T /\ T \ {a} = (a + 1)..b
  <2>1. IsFiniteSet(a..b)
    BY FS_Interval
  <2>2. a \in a..b /\ (a..b) \ {a} = (a + 1)..b
    OBVIOUS
  <2> QED
    BY <1>1, <2>1, <2>2
<1>3. \A i \in T : seq[i] \in Int
  BY <1>1
<1>4. Sigma(seq, T) = seq[a] + Sigma(seq, T \ {a})
  BY <1>2, <1>3, SumRemove
<1> QED
  BY <1>1, <1>2, <1>4 DEF SumOver, Sigma

LEMMA SumLast ==
    ASSUME NEW seq, NEW a \in Int, NEW n \in Int, a <= n + 1, Whole(seq, a, n + 1)
    PROVE  SumOver(seq, a, n + 1) = seq[n + 1] + SumOver(seq, a, n)
<1>1. PICK T, b : T = a..b /\ b = n + 1
  OBVIOUS
<1>2. IsFiniteSet(T) /\ b \in T /\ T \ {b} = a..n
  <2>1. IsFiniteSet(a..b)
    BY <1>1, FS_Interval
  <2>2. b \in a..b /\ (a..b) \ {b} = a..n
    BY <1>1
  <2> QED
    BY <1>1, <2>1, <2>2
<1>3. \A i \in T : seq[i] \in Int
  BY <1>1 DEF Whole
<1>4. Sigma(seq, T) = seq[b] + Sigma(seq, T \ {b})
  BY <1>2, <1>3, SumRemove
<1> QED
  BY <1>1, <1>2, <1>4 DEF SumOver, Sigma

LEMMA SumAgrees ==
    ASSUME NEW s1, NEW s2, NEW a \in Int, NEW b \in Int, Whole(s1, a, b), Alike(s1, s2, a, b)
    PROVE  SumOver(s1, a, b) = SumOver(s2, a, b)
<1> USE DEF Whole, Alike
<1>1. PICK T : T = a..b
  OBVIOUS
<1>2. IsFiniteSet(T) /\ \A i \in T : s1[i] \in Int /\ s1[i] = s2[i]
  BY <1>1, FS_Interval
<1>3. Sigma(s1, T) = Sigma(s2, T)
  BY <1>2, SumCongruent
<1> QED
  BY <1>1, <1>3 DEF SumOver, Sigma

-----------------------------------------------------------------------------
(* The compiler. *)

LEMMA MaxOfTwo ==
    ASSUME NEW a \in Int, NEW b \in Int
    PROVE  Max({a, b}) = IF a >= b THEN a ELSE b
<1>1. PICK m : m = IF a >= b THEN a ELSE b
  OBVIOUS
<1>2. m \in {a, b} /\ \A y \in {a, b} : m >= y
  BY <1>1
<1>3. \A x \in {a, b} : (\A y \in {a, b} : x >= y) => x = m
  BY <1>1
<1>4. Max({a, b}) \in {a, b} /\ \A y \in {a, b} : Max({a, b}) >= y
  BY <1>2 DEF Max
<1> QED
  BY <1>1, <1>3, <1>4

(* The values of an indicator of period p over n bars: nothing before the  *)
(* period is full, a number from then on.                                  *)
Warm(p, values, n) ==
    /\ values \in Seq(Int \cup {None}) /\ Len(values) = n
    /\ \A i \in 1..n : IF i < p THEN values[i] = None ELSE values[i] \in Int

CompilerInv ==
    /\ closes \in Seq(Closes)
    /\ total \in [Periods -> Int]
    /\ \A p \in Periods : Warm(p, sma[p], Len(closes)) /\ Warm(p, ema[p], Len(closes))

LEMMA WarmAppend ==
    ASSUME NEW p \in Int, NEW values, NEW n \in Nat, Warm(p, values, n),
           NEW v, IF n + 1 < p THEN v = None ELSE v \in Int
    PROVE  Warm(p, Append(values, v), n + 1)
<1>1. v \in Int \cup {None}
  OBVIOUS
<1>2. PICK f : f = Append(values, v)
  OBVIOUS
<1>3. f \in Seq(Int \cup {None}) /\ Len(f) = n + 1 /\ f[n + 1] = v
  BY <1>1, <1>2 DEF Warm
<1>4. \A i \in 1..n : f[i] = values[i]
  BY <1>1, <1>2 DEF Warm
<1>5. ASSUME NEW i \in 1..(n + 1) PROVE IF i < p THEN f[i] = None ELSE f[i] \in Int
  <2>1. CASE i \in 1..n
    BY <1>4, <2>1 DEF Warm
  <2>2. CASE i = n + 1
    BY <1>3, <2>2
  <2> QED
    BY <2>1, <2>2
<1> QED
  BY <1>2, <1>3, <1>5 DEF Warm

LEMMA CompilerStarts == Init => CompilerInv
BY CompilerAssumption DEF Init, CompilerInv, Warm

LEMMA BarAdded == ASSUME CompilerInv, NEW c \in Closes, NextBar(c) PROVE CompilerInv'
<1>1. c \in Int /\ \A i \in 1..Len(closes) : closes[i] \in Int
  <2>1. closes \in Seq(Closes) /\ \A x \in Closes : x \in Int
    BY CompilerAssumption DEF CompilerInv
  <2> QED
    BY <2>1
<1>2. closes' \in Seq(Closes) /\ Len(closes') = Len(closes) + 1 /\ Len(closes) \in Nat
  BY DEF NextBar, CompilerInv
<1>3. ASSUME NEW p \in Periods PROVE rolling_total(p, c) \in Int
  <2>1. p \in Nat /\ p > 0 /\ total[p] \in Int
    BY CompilerAssumption DEF CompilerInv
  <2>2. CASE Len(closes) >= p
    <3>1. Len(closes) - p + 1 \in 1..Len(closes)
      BY <1>2, <2>1, <2>2
    <3> QED
      BY <1>1, <2>1, <2>2, <3>1 DEF rolling_total
  <2>3. CASE ~(Len(closes) >= p)
    BY <1>1, <2>1, <2>3 DEF rolling_total
  <2> QED
    BY <2>2, <2>3
<1>4. total' \in [Periods -> Int]
  BY <1>3 DEF NextBar
<1>5. ASSUME NEW p \in Periods PROVE Warm(p, sma'[p], Len(closes'))
  <2>1. p \in Nat /\ p > 0
    BY CompilerAssumption
  <2>2. PICK v : v = simple_moving_averages(p, c)
    OBVIOUS
  <2>3. PICK r \in Int : r = rolling_total(p, c)
    BY <1>3
  <2>4. IF Len(closes) + 1 < p THEN v = None ELSE v \in Int
    BY <1>2, <2>1, <2>2, <2>3 DEF simple_moving_averages
  <2>5. sma'[p] = Append(sma[p], v)
    BY <2>2 DEF NextBar
  <2>6. PICK f, n : f = sma[p] /\ n = Len(closes)
    OBVIOUS
  <2>7. Warm(p, Append(f, v), n + 1)
    BY <1>2, <2>1, <2>4, <2>6, WarmAppend DEF CompilerInv
  <2> QED
    BY <1>2, <2>5, <2>6, <2>7
<1>6. ASSUME NEW p \in Periods PROVE Warm(p, ema'[p], Len(closes'))
  <2>1. p \in Nat /\ p > 0
    BY CompilerAssumption
  <2>2. PICK v : v = exponential_moving_averages(p, c)
    OBVIOUS
  <2>3. PICK n \in Nat : n = Len(closes)
    BY <1>2
  <2>4. IF n + 1 < p THEN v = None ELSE v \in Int
    <3>1. CASE n + 1 < p
      BY <2>2, <2>3, <3>1 DEF exponential_moving_averages
    <3>2. CASE n + 1 = p
      <4>1. PICK longer : longer = Append(closes, c)
        OBVIOUS
      <4>2. Whole(longer, 1, p)
        BY <1>1, <2>3, <3>2, <4>1 DEF CompilerInv, Whole
      <4>3. PICK t \in Int : t = SumOver(longer, 1, p)
        BY <2>1, <4>2, SumIsWhole
      <4>4. v = t \div p
        BY <2>1, <2>2, <2>3, <3>2, <4>1, <4>3 DEF exponential_moving_averages
      <4> QED
        BY <2>1, <3>2, <4>3, <4>4
    <3>3. CASE n + 1 > p
      <4>1. n \in 1..Len(closes) /\ ~(n < p)
        BY <2>1, <2>3, <3>3
      <4>2. PICK e \in Int : e = ema[p][n]
        BY <2>3, <4>1 DEF CompilerInv, Warm
      <4>3. v = ((c - e) * 2) \div (p + 1) + e
        BY <2>1, <2>2, <2>3, <3>3, <4>2 DEF exponential_moving_averages
      <4> QED
        BY <1>1, <2>1, <3>3, <4>2, <4>3
    <3> QED
      BY <2>1, <3>1, <3>2, <3>3
  <2>5. ema'[p] = Append(ema[p], v)
    BY <2>2 DEF NextBar
  <2>6. PICK f : f = ema[p]
    OBVIOUS
  <2>7. Warm(p, Append(f, v), n + 1)
    BY <2>1, <2>3, <2>4, <2>6, WarmAppend DEF CompilerInv
  <2> QED
    BY <1>2, <2>3, <2>5, <2>6, <2>7
<1> QED
  BY <1>2, <1>4, <1>5, <1>6 DEF CompilerInv

(* The value of an operand is known from its index on. *)
LEMMA OperandKnown ==
    ASSUME CompilerInv, NEW o \in Operand, NEW i \in 1..Len(closes)
    PROVE  /\ operand_first_evaluable_index(o) \in Nat \ {0}
           /\ IF i < operand_first_evaluable_index(o) THEN evaluate_operand(o, i) = None
              ELSE evaluate_operand(o, i) \in Int
<1>1. CASE o \in [type : {"price"}]
  <2>1. o.type = "price"
    BY <1>1
  <2>2. closes[i] \in Int /\ i \in Nat /\ i >= 1
    <3>1. closes \in Seq(Closes) /\ \A x \in Closes : x \in Int
      BY CompilerAssumption DEF CompilerInv
    <3> QED
      BY <3>1
  <2> QED
    BY <2>1, <2>2 DEF evaluate_operand, operand_first_evaluable_index
<1>2. CASE o \in [type : {"constant"}, value : Levels]
  <2>1. o.type = "constant" /\ o.value \in Int
    BY <1>2, CompilerAssumption
  <2>2. i \in Nat /\ i >= 1
    OBVIOUS
  <2> QED
    BY <2>1, <2>2 DEF evaluate_operand, operand_first_evaluable_index
<1>3. CASE o \in [type : {"sma", "ema"}, period : Periods]
  <2>1. o.type \in {"sma", "ema"} /\ o.period \in Periods
    BY <1>3
  <2>2. PICK p \in Periods : p = o.period
    BY <2>1
  <2>3. p \in Nat \ {0}
    BY CompilerAssumption
  <2>4. /\ IF i < p THEN sma[p][i] = None ELSE sma[p][i] \in Int
        /\ IF i < p THEN ema[p][i] = None ELSE ema[p][i] \in Int
    BY DEF CompilerInv, Warm
  <2>5. CASE o.type = "sma"
    BY <2>2, <2>3, <2>4, <2>5 DEF evaluate_operand, operand_first_evaluable_index
  <2>6. CASE o.type = "ema"
    BY <2>2, <2>3, <2>4, <2>6 DEF evaluate_operand, operand_first_evaluable_index
  <2> QED
    BY <2>1, <2>5, <2>6
<1> QED
  BY <1>1, <1>2, <1>3 DEF Operand

(* A condition knows both sides from the larger of the two indexes on. *)
LEMMA ConditionKnown ==
    ASSUME CompilerInv, NEW c \in Condition
    PROVE  \E m \in Nat \ {0} :
              /\ condition_first_eligible_index(c) = m + (IF c.operator \in Crossing THEN 1 ELSE 0)
              /\ \A i \in 0..Len(closes) : Known(c, i) <=> i >= m
<1>1. c.left \in Operand /\ c.right \in Operand
  BY DEF Condition
<1>2. PICK o1 \in Operand, o2 \in Operand : o1 = c.left /\ o2 = c.right
  BY <1>1
<1>3. PICK a, b : a = operand_first_evaluable_index(o1) /\ b = operand_first_evaluable_index(o2)
  OBVIOUS
<1>4. a \in Nat \ {0} /\ b \in Nat \ {0}
  <2>1. ASSUME NEW o \in Operand PROVE operand_first_evaluable_index(o) \in Nat \ {0}
    <3>1. o.type \in {"sma", "ema"} => o.period \in Nat \ {0}
      BY CompilerAssumption DEF Operand
    <3> QED
      BY <3>1 DEF operand_first_evaluable_index
  <2> QED
    BY <1>3, <2>1
<1>5. PICK m : m = Max({a, b})
  OBVIOUS
<1>6. m = IF a >= b THEN a ELSE b
  BY <1>4, <1>5, MaxOfTwo
<1>7. condition_first_eligible_index(c) = m + (IF c.operator \in Crossing THEN 1 ELSE 0)
  BY <1>2, <1>3, <1>5 DEF condition_first_eligible_index
<1>8. ASSUME NEW i \in 0..Len(closes) PROVE Known(c, i) <=> i >= m
  <2>1. CASE i = 0
    BY <1>4, <1>6, <2>1 DEF Known
  <2>2. CASE i # 0
    <3>1. i \in 1..Len(closes) /\ i >= 1
      BY <2>2 DEF CompilerInv
    <3>2. /\ IF i < a THEN evaluate_operand(o1, i) = None ELSE evaluate_operand(o1, i) \in Int
          /\ IF i < b THEN evaluate_operand(o2, i) = None ELSE evaluate_operand(o2, i) \in Int
      BY <1>3, <3>1, OperandKnown
    <3>3. Known(c, i) <=> i >= a /\ i >= b
      BY <1>2, <1>4, <3>1, <3>2, CompilerAssumption DEF Known
    <3> QED
      BY <1>4, <1>6, <3>1, <3>3
  <2> QED
    BY <2>1, <2>2
<1>9. m \in Nat \ {0}
  BY <1>4, <1>6
<1> QED
  BY <1>7, <1>8, <1>9

LEMMA EligibleHolds == CompilerInv => EligibleFromTheIndex
<1> SUFFICES ASSUME CompilerInv, NEW c \in Condition, NEW i, i = Len(closes)
    PROVE  (Known(c, i) /\ (c.operator \in Crossing => Known(c, i - 1)))
               <=> i >= condition_first_eligible_index(c)
  BY DEF EligibleFromTheIndex
<1>1. PICK m \in Nat \ {0} :
          /\ condition_first_eligible_index(c) = m + (IF c.operator \in Crossing THEN 1 ELSE 0)
          /\ \A k \in 0..Len(closes) : Known(c, k) <=> k >= m
  BY ConditionKnown
<1>2. i \in 0..Len(closes)
  BY DEF CompilerInv
<1>3. CASE i = 0
  BY <1>1, <1>2, <1>3
<1>4. CASE i # 0
  <2>1. i - 1 \in 0..Len(closes)
    BY <1>2, <1>4 DEF CompilerInv
  <2>2. (Known(c, i) <=> i >= m) /\ (Known(c, i - 1) <=> i - 1 >= m)
    BY <1>1, <1>2, <2>1
  <2> QED
    BY <1>1, <1>2, <2>2
<1> QED
  BY <1>3, <1>4

LEMMA CrossoverHolds == CompilerInv => CompiledAsCrossover
<1> SUFFICES ASSUME CompilerInv, NEW short \in Periods, NEW long \in Periods, short < long,
                    NEW built, built = sma_specification(short, long)
    PROVE  /\ generate_signals(built.entry, built.exit)
                  = generate_sma_crossover_signals(short, long)
           /\ RunsSmaBacktest(short, long) <=>
                  condition_first_eligible_index(built.entry) <= Len(closes)
  BY DEF CompiledAsCrossover
<1>1. PICK o1, o2 : o1 = [type |-> "sma", period |-> short] /\ o2 = [type |-> "sma", period |-> long]
  OBVIOUS
<1>2. PICK up, down :
          /\ up = [left |-> o1, operator |-> "crosses_above", right |-> o2]
          /\ down = [left |-> o1, operator |-> "crosses_below", right |-> o2]
  OBVIOUS
<1>3. built.entry = up /\ built.exit = down
  BY <1>1, <1>2 DEF sma_specification
<1>4. /\ up.left = o1 /\ up.right = o2 /\ up.operator = "crosses_above"
      /\ down.left = o1 /\ down.right = o2 /\ down.operator = "crosses_below"
      /\ o1.type = "sma" /\ o1.period = short /\ o2.type = "sma" /\ o2.period = long
  BY <1>1, <1>2
<1> DEFINE S(k) == sma[short][k]
           L(k) == sma[long][k]
           At(k) == k \in 2..Len(closes) /\ \A j \in {k - 1, k} : S(j) # None /\ L(j) # None
           Above(k) == S(k - 1) <= L(k - 1) /\ S(k) > L(k)
           Below(k) == S(k - 1) >= L(k - 1) /\ S(k) < L(k)
<1>5. \A k : evaluate_operand(o1, k) = S(k) /\ evaluate_operand(o2, k) = L(k)
  BY <1>4 DEF evaluate_operand
<1>6. \A c \in {up, down} : \A k : Known(c, k) <=> k >= 1 /\ S(k) # None /\ L(k) # None
  BY <1>4, <1>5 DEF Known
<1>7. /\ \A k : evaluate_condition(up, k) <=>
                    Known(up, k) /\ Known(up, k - 1) /\ Above(k)
      /\ \A k : evaluate_condition(down, k) <=>
                    Known(down, k) /\ Known(down, k - 1) /\ Below(k)
  BY <1>4, <1>5 DEF evaluate_condition
<1>8. \A k \in 1..Len(closes) : \A c \in {up, down} :
          Known(c, k) /\ Known(c, k - 1) <=> At(k)
  <2> HIDE DEF S, L
  <2> QED
    BY <1>6 DEF CompilerInv
<1>9. ASSUME NEW k, At(k), Below(k) PROVE ~Above(k)
  <2>1. k \in 1..Len(closes) /\ S(k) # None /\ L(k) # None
    BY <1>9
  <2>2. S(k) \in Int /\ L(k) \in Int
    BY <2>1 DEF CompilerInv, Warm
  <2> HIDE DEF S, L
  <2> QED
    BY <1>9, <2>2
<1>10. generate_sma_crossover_signals(short, long) =
           {<<i, "buy">> : i \in {k \in {j \in 2..Len(closes) : At(j)} : Above(k)}}
               \cup {<<i, "sell">> : i \in {k \in {j \in 2..Len(closes) : At(j)} :
                                               ~Above(k) /\ Below(k)}}
  BY DEF generate_sma_crossover_signals
<1>11. DOMAIN closes = 1..Len(closes) /\ \A k : At(k) => k \in 1..Len(closes)
  BY DEF CompilerInv
<1> HIDE DEF At, Above, Below
<1>12. {k \in DOMAIN closes : evaluate_condition(up, k)}
           = {k \in {j \in 2..Len(closes) : At(j)} : Above(k)}
  BY <1>7, <1>8, <1>11 DEF At
<1>13. {k \in DOMAIN closes : evaluate_condition(down, k)}
           = {k \in {j \in 2..Len(closes) : At(j)} : ~Above(k) /\ Below(k)}
  BY <1>7, <1>8, <1>9, <1>11 DEF At
<1>14. generate_signals(up, down) = generate_sma_crossover_signals(short, long)
  BY <1>10, <1>12, <1>13 DEF generate_signals
<1>15. condition_first_eligible_index(up) = long + 1
  <2>1. short \in Int /\ long \in Int
    BY CompilerAssumption
  <2>2. Max({short, long}) = long
    BY <2>1, MaxOfTwo
  <2> QED
    BY <1>4, <2>2 DEF condition_first_eligible_index, operand_first_evaluable_index, Crossing
<1>16. RunsSmaBacktest(short, long) <=> long + 1 <= Len(closes)
  BY CompilerAssumption DEF RunsSmaBacktest, CompilerInv
<1> QED
  BY <1>3, <1>14, <1>15, <1>16

-----------------------------------------------------------------------------
(* The preview as a run of the engine. *)

(* What is loaded: a close for each bar, and enough of them to execute. *)
LoadInv ==
    /\ CompilerInv
    /\ phase \in {"load", "unavailable", "execute", "done"}
    /\ spec \in Strategies
    /\ bars \in Seq(Bars) /\ Len(bars) = Len(closes)
    /\ phase \in {"execute", "done"} => first_signal_eligible_index <= Len(bars)

LEMMA EngineAssumed == EP!EngineAssumption
BY PreviewAssumption DEF Engine!EngineAssumption, EP!EngineAssumption, Engine!Money, EP!Money,
   Engine!Entry, EP!Entry

LEMMA LoadStarts == PreviewInit => LoadInv
<1> SUFFICES ASSUME PreviewInit PROVE LoadInv
  OBVIOUS
<1>1. CompilerInv
  BY CompilerStarts DEF PreviewInit
<1> QED
  BY <1>1 DEF PreviewInit, Init, LoadInv

LEMMA LoadStep == LoadInv /\ [PreviewNext]_previewVars => LoadInv'
<1> SUFFICES ASSUME LoadInv, [PreviewNext]_previewVars PROVE LoadInv'
  OBVIOUS
<1>1. ASSUME NEW b \in Bars, LoadBar(b) PROVE LoadInv'
  <2>1. b.close \in Closes
    BY PreviewAssumption
  <2>2. /\ NextBar(b.close) /\ bars' = Append(bars, b) /\ phase = "load" /\ phase' = "load"
        /\ spec' = spec
    BY <1>1 DEF LoadBar
  <2>3. CompilerInv'
    BY <2>1, <2>2, BarAdded DEF LoadInv
  <2>4. closes' = Append(closes, b.close) /\ closes \in Seq(Closes)
    BY <2>2 DEF NextBar, LoadInv, CompilerInv
  <2>5. bars' \in Seq(Bars) /\ Len(bars') = Len(closes')
    BY <2>1, <2>2, <2>4 DEF LoadInv
  <2> QED
    BY <2>2, <2>3, <2>5 DEF LoadInv
<1>2. CASE \/ MarketDataUnavailable \/ Execute \/ ExecuteBar \/ Mark \/ FinishExecution
           \/ UNCHANGED previewVars
  <2>1. UNCHANGED <<closes, total, sma, ema, spec, bars>>
    BY <1>2 DEF MarketDataUnavailable, Execute, ExecuteBar, Mark, FinishExecution, previewVars,
                compilerVars
  <2>2. CompilerInv'
    BY <2>1 DEF CompilerInv, LoadInv
  <2>3. first_signal_eligible_index' = first_signal_eligible_index
    BY <2>1 DEF first_signal_eligible_index, condition_first_eligible_index,
                operand_first_evaluable_index
  <2>4. /\ phase' \in {"load", "unavailable", "execute", "done"}
        /\ phase' \in {"execute", "done"} => first_signal_eligible_index <= Len(bars)
    BY <1>2 DEF MarketDataUnavailable, Execute, ExecuteBar, Mark, FinishExecution, previewVars,
                LoadInv
  <2> QED
    BY <2>1, <2>2, <2>3, <2>4 DEF LoadInv
<1> QED
  BY <1>1, <1>2 DEF PreviewNext

(* A step of the preview is a step of the engine, or leaves it alone. *)
LEMMA EngineStep == LoadInv /\ EP!TypeInv /\ [PreviewNext]_previewVars => [EP!Next]_EP!vars
<1> SUFFICES ASSUME LoadInv, EP!TypeInv, [PreviewNext]_previewVars PROVE [EP!Next]_EP!vars
  OBVIOUS
<1>1. ASSUME NEW b \in Bars, LoadBar(b) PROVE UNCHANGED EP!vars
  BY <1>1 DEF LoadBar, engineVars, EP!vars
<1>2. CASE MarketDataUnavailable \/ Execute \/ UNCHANGED previewVars
  BY <1>2 DEF MarketDataUnavailable, Execute, previewVars, engineVars, EP!vars
<1>3. CASE index + 1 < Len(bars) /\ Engine!NextBar(bars[index + 2], SignalTypes(index + 2))
  <2>1. PICK b, types : b = bars[index + 2] /\ types = SignalTypes(index + 2)
    OBVIOUS
  <2>2. index \in Int /\ index >= -1 /\ index + 2 \in 1..Len(bars)
    BY <1>3, EngineAssumed DEF EP!TypeInv, EP!TypeOK, EP!EngineAssumption, LoadInv
  <2>3. b \in Bars
    BY <2>1, <2>2 DEF LoadInv
  <2>4. types \in SUBSET EP!SignalType
    BY <2>1 DEF SignalTypes, generate_signals, EP!SignalType
  <2>5. EP!NextBar(b, types)
    BY <1>3, <2>1 DEF Engine!NextBar, EP!NextBar, Engine!book, EP!book
  <2> QED
    BY <2>3, <2>4, <2>5 DEF EP!Next
<1>4. CASE Engine!OpeningRiskExit \/ Engine!NoOpeningRiskExit
  BY <1>4 DEF Engine!OpeningRiskExit, EP!OpeningRiskExit, Engine!NoOpeningRiskExit,
     EP!NoOpeningRiskExit, Engine!AtRisk, EP!AtRisk, Engine!StopHit, EP!StopHit, Engine!TakeHit,
     EP!TakeHit, Engine!close_position, EP!close_position, Engine!book, EP!book, EP!Next
<1>5. CASE Engine!ExecuteBuy
  <2>1. EP!ExecuteBuy
    BY <1>5 DEF Engine!ExecuteBuy, EP!ExecuteBuy, Engine!Pending, EP!Pending,
       Engine!shares_to_buy, EP!shares_to_buy, Engine!stop_price, EP!stop_price,
       Engine!take_profit_price, EP!take_profit_price
  <2> QED
    BY <2>1 DEF EP!Next
<1>6. CASE Engine!IgnoreBuy \/ Engine!NoBuy
  BY <1>6 DEF Engine!IgnoreBuy, EP!IgnoreBuy, Engine!NoBuy, EP!NoBuy, Engine!Pending,
     EP!Pending, Engine!shares_to_buy, EP!shares_to_buy, Engine!book, EP!book, EP!Next
<1>7. CASE Engine!ExecuteSell \/ Engine!IgnoreSell \/ Engine!NoSell
  BY <1>7 DEF Engine!ExecuteSell, EP!ExecuteSell, Engine!IgnoreSell, EP!IgnoreSell,
     Engine!NoSell, EP!NoSell, Engine!Pending, EP!Pending, Engine!close_position,
     EP!close_position, Engine!book, EP!book, EP!Next
<1>8. CASE Engine!IntradayRiskExit \/ Engine!NoIntradayRiskExit
  BY <1>8 DEF Engine!IntradayRiskExit, EP!IntradayRiskExit, Engine!NoIntradayRiskExit,
     EP!NoIntradayRiskExit, Engine!AtRisk, EP!AtRisk, Engine!StopHit, EP!StopHit,
     Engine!TakeHit, EP!TakeHit, Engine!close_position, EP!close_position, Engine!book,
     EP!book, EP!Next
<1>9. CASE Engine!MarkToClose \/ Engine!Finish
  BY <1>9 DEF Engine!MarkToClose, EP!MarkToClose, Engine!Finish, EP!Finish,
     Engine!close_position, EP!close_position, Engine!book, EP!book, EP!Next
<1> QED
  BY <1>1, <1>2, <1>3, <1>4, <1>5, <1>6, <1>7, <1>8, <1>9
     DEF PreviewNext, ExecuteBar, Mark, FinishExecution

LEMMA EngineStarts == PreviewInit => EP!Init
BY DEF PreviewInit, Engine!Init, EP!Init

(* What the preview loads stays loaded. *)
THEOREM AlwaysLoaded == PreviewSpec => []LoadInv
BY LoadStarts, LoadStep, PTL DEF PreviewSpec

(* The index that decides whether there is enough data, and starts the     *)
(* benchmark, is exact for every condition, every period and every series: *)
(* what the condition compares is known from it on and never before.       *)
THEOREM EligibleIndexIsExact == PreviewSpec => []EligibleFromTheIndex
<1>1. LoadInv => EligibleFromTheIndex
  BY EligibleHolds DEF LoadInv
<1> QED
  BY <1>1, AlwaysLoaded, PTL

(* The compiled SMA strategy and the older crossover function signal on    *)
(* the same bars, for every pair of periods and every series.              *)
THEOREM CompilerAgreesWithCrossover == PreviewSpec => []CompiledAsCrossover
<1>1. LoadInv => CompiledAsCrossover
  BY CrossoverHolds DEF LoadInv
<1> QED
  BY <1>1, AlwaysLoaded, PTL

(* The preview executes the compiled strategy the way the engine executes  *)
(* any series of bars and signals: whatever is proved of the engine holds  *)
(* of every preview.  EP!Spec is the specification of BacktestEngine.      *)
THEOREM PreviewRunsTheEngine == PreviewSpec => EP!Spec
<1>1. EP!Init => EP!TypeInv
  BY EP!TypeInit, EngineAssumed
<1>2. EP!TypeInv /\ [EP!Next]_EP!vars => EP!TypeInv'
  BY EP!TypeStep, EngineAssumed
<1> QED
  BY <1>1, <1>2, AlwaysLoaded, EngineStarts, EngineStep, PTL DEF PreviewSpec, EP!Spec

(* What BacktestProofs establishes of the engine. *)
EngineInv == EP!TypeInv /\ EP!TradesInv /\ EP!SourcesInv /\ EP!Accounts

(* The invariants of BacktestProofs hold of the instance of the engine     *)
(* that create_specification_preview runs.                                 *)
THEOREM EngineInvariant == PreviewSpec => []EngineInv
<1>1. /\ EP!Spec => []EP!TypeInv
      /\ EP!Spec => []EP!TradesInv
      /\ EP!Spec => []EP!SourcesInv
      /\ EP!Spec => []EP!Accounts
  BY EP!TypeInvariant, EP!TradesInvariant, EP!TradesHaveSources, EP!AccountsHold, EngineAssumed
<1> QED
  BY <1>1, PreviewRunsTheEngine, PTL DEF EngineInv

(* The strategy's condition behind each type of signal. *)
Holds(type, k) ==
    IF type = "buy" THEN evaluate_condition(spec.entry, k) ELSE evaluate_condition(spec.exit, k)

(* Where the engine is in the bars, and what the curve has of them. *)
RunInv ==
    /\ phase \in {"load", "unavailable"} => EP!Init
    /\ phase = "done" <=> pc = "done"
    /\ index < Len(bars) /\ (phase = "done" => index = Len(bars) - 1)
    /\ index >= 0 => bar = bars[index + 1]
    /\ curve \in Seq(Nat)
    /\ Len(curve) = IF pc \in {"next", "done"} THEN index + 1 ELSE index
    /\ curve # << >> => curve[Len(curve)] = equity

SignalsHold == \A s \in signals : Holds(s[2], s[1] + 1) /\ s[1] + 1 \in 1..Len(bars)

(* The statements between the loop header and the mark stay on their bar.  *)
LEMMA InsideTheBar ==
    ASSUME ExecuteBar
    PROVE  /\ phase = "execute"
           /\ UNCHANGED <<closes, total, sma, ema, phase, spec, bars, curve, equity>>
           /\ \/ /\ index + 1 < Len(bars)
                 /\ Engine!NextBar(bars[index + 2], SignalTypes(index + 2))
              \/ /\ pc \in {"open", "buy", "sell", "intraday"}
                 /\ pc' \in {"buy", "sell", "intraday", "mark"}
                 /\ UNCHANGED <<index, bar, signals>>
<1>1. phase = "execute" /\ UNCHANGED <<closes, total, sma, ema, phase, spec, bars, curve>>
  BY DEF ExecuteBar, compilerVars
<1>2. CASE Engine!NextBar(bars[index + 2], SignalTypes(index + 2)) /\ index + 1 < Len(bars)
  BY <1>1, <1>2 DEF Engine!NextBar
<1>3. CASE Engine!OpeningRiskExit \/ Engine!NoOpeningRiskExit
  BY <1>1, <1>3 DEF Engine!OpeningRiskExit, Engine!NoOpeningRiskExit
<1>4. CASE Engine!ExecuteBuy \/ Engine!IgnoreBuy \/ Engine!NoBuy
  BY <1>1, <1>4 DEF Engine!ExecuteBuy, Engine!IgnoreBuy, Engine!NoBuy
<1>5. CASE Engine!ExecuteSell \/ Engine!IgnoreSell \/ Engine!NoSell
  BY <1>1, <1>5 DEF Engine!ExecuteSell, Engine!IgnoreSell, Engine!NoSell
<1>6. CASE Engine!IntradayRiskExit \/ Engine!NoIntradayRiskExit
  BY <1>1, <1>6 DEF Engine!IntradayRiskExit, Engine!NoIntradayRiskExit
<1> QED
  BY <1>2, <1>3, <1>4, <1>5, <1>6 DEF ExecuteBar

LEMMA RunStarts == PreviewInit => RunInv
<1> SUFFICES ASSUME PreviewInit PROVE RunInv
  OBVIOUS
<1>1. EP!Init
  BY EngineStarts
<1>2. curve = << >> /\ bars = << >> /\ phase = "load"
  BY DEF PreviewInit
<1> QED
  BY <1>1, <1>2 DEF RunInv, EP!Init

LEMMA RunStep ==
    LoadInv /\ EngineInv /\ EngineInv' /\ RunInv /\ [PreviewNext]_previewVars => RunInv'
<1> SUFFICES ASSUME LoadInv, EngineInv, EngineInv', RunInv, [PreviewNext]_previewVars
             PROVE  RunInv'
  OBVIOUS
<1>0. /\ index \in Int /\ index >= -1 /\ Len(bars) \in Nat /\ bars \in Seq(Bars)
      /\ equity' >= 0 /\ equity' \in Int /\ Len(curve) \in Nat
  BY EngineAssumed DEF EngineInv, EP!TypeInv, EP!TypeOK, EP!EngineAssumption, LoadInv,
     EP!Accounts, EP!NeverOverdrawn, RunInv
<1>1. ASSUME NEW b \in Bars, LoadBar(b) PROVE RunInv'
  <2>1. /\ phase = "load" /\ phase' = "load" /\ curve' = curve /\ bars' = Append(bars, b)
        /\ UNCHANGED <<pc, index, bar, signals, cash, quantity, entry, closed, trades, realized,
                       equity, ignored>>
    BY <1>1 DEF LoadBar, engineVars
  <2>2. EP!Init /\ EP!Init'
    BY <2>1 DEF RunInv, EP!Init
  <2>3. index = -1 /\ pc = "next" /\ Len(bars') = Len(bars) + 1
    BY <1>0, <2>1, <2>2 DEF EP!Init
  <2> QED
    BY <1>0, <2>1, <2>2, <2>3 DEF RunInv
<1>2. CASE MarketDataUnavailable \/ Execute
  <2>1. /\ phase = "load" /\ phase' \in {"unavailable", "execute"} /\ curve' = curve /\ bars' = bars
        /\ UNCHANGED <<pc, index, bar, signals, cash, quantity, entry, closed, trades, realized,
                       equity, ignored>>
    BY <1>2 DEF MarketDataUnavailable, Execute, engineVars
  <2>2. EP!Init /\ EP!Init'
    BY <2>1 DEF RunInv, EP!Init
  <2>3. index = -1 /\ pc = "next"
    BY <2>2 DEF EP!Init
  <2> QED
    BY <1>0, <2>1, <2>2, <2>3 DEF RunInv
<1>3. CASE ExecuteBar
  <2>1. /\ phase = "execute"
        /\ UNCHANGED <<phase, bars, curve, equity>>
    BY <1>3, InsideTheBar
  <2>2. CASE index + 1 < Len(bars) /\ Engine!NextBar(bars[index + 2], SignalTypes(index + 2))
    <3>1. /\ pc = "next" /\ index' = index + 1 /\ bar' = bars[index + 2]
          /\ pc' = IF index' > 0 THEN "open" ELSE "intraday"
      BY <2>2 DEF Engine!NextBar
    <3> QED
      BY <1>0, <2>1, <2>2, <3>1 DEF RunInv
  <2>3. CASE /\ pc \in {"open", "buy", "sell", "intraday"}
             /\ pc' \in {"buy", "sell", "intraday", "mark"}
             /\ UNCHANGED <<index, bar, signals>>
    BY <1>0, <2>1, <2>3 DEF RunInv
  <2> QED
    BY <1>3, <2>2, <2>3, InsideTheBar
<1>4. CASE Mark
  <2>1. /\ phase = "execute" /\ phase' = phase /\ bars' = bars
        /\ pc = "mark" /\ pc' = "next" /\ index' = index /\ bar' = bar
        /\ curve' = Append(curve, equity')
    BY <1>4 DEF Mark, Engine!MarkToClose
  <2>2. PICK e \in Nat : e = equity'
    BY <1>0
  <2>3. /\ Append(curve, e) \in Seq(Nat) /\ Len(Append(curve, e)) = Len(curve) + 1
        /\ Append(curve, e)[Len(curve) + 1] = e /\ Len(curve) = index
    BY <2>1 DEF RunInv
  <2> QED
    BY <1>0, <2>1, <2>2, <2>3 DEF RunInv
<1>5. CASE FinishExecution
  <2>1. /\ phase = "execute" /\ phase' = "done" /\ bars' = bars /\ index = Len(bars) - 1
        /\ pc = "next" /\ pc' = "done" /\ index' = index /\ bar' = bar
        /\ curve' = curve /\ equity' = equity
    BY <1>5 DEF FinishExecution, Engine!Finish
  <2> QED
    BY <1>0, <2>1 DEF RunInv
<1>6. CASE UNCHANGED previewVars
  BY <1>6 DEF previewVars, engineVars, compilerVars, RunInv, EP!Init
<1> QED
  BY <1>1, <1>2, <1>3, <1>4, <1>5, <1>6 DEF PreviewNext

-----------------------------------------------------------------------------
(* Signals and trades. *)

LEMMA HoldsUnchanged ==
    ASSUME UNCHANGED <<closes, sma, ema, spec>>, NEW type, NEW k
    PROVE  Holds(type, k)' <=> Holds(type, k)
BY DEF Holds, evaluate_condition, Known, evaluate_operand, compare

LEMMA SignalsStep ==
    LoadInv /\ EngineInv /\ RunInv /\ SignalsHold /\ [PreviewNext]_previewVars => SignalsHold'
<1> SUFFICES ASSUME LoadInv, EngineInv, RunInv, SignalsHold, [PreviewNext]_previewVars
             PROVE  SignalsHold'
  OBVIOUS
<1>1. CASE phase = "load"
  <2>1. signals = {}
    BY <1>1 DEF RunInv, EP!Init
  <2>2. signals' = signals
    BY <1>1 DEF PreviewNext, LoadBar, MarketDataUnavailable, Execute, ExecuteBar, Mark,
                FinishExecution, previewVars, engineVars
  <2> QED
    BY <2>1, <2>2 DEF SignalsHold
<1>2. CASE phase # "load"
  <2>1. UNCHANGED <<closes, sma, ema, spec, bars>>
    BY <1>2 DEF PreviewNext, LoadBar, MarketDataUnavailable, Execute, ExecuteBar, Mark,
                FinishExecution, previewVars, compilerVars
  <2>2. \A type, k : Holds(type, k)' <=> Holds(type, k)
    BY <2>1, HoldsUnchanged
  <2>3. CASE signals' = signals
    BY <2>1, <2>2, <2>3 DEF SignalsHold
  <2>4. CASE signals' # signals
    <3>1. index + 1 < Len(bars) /\ Engine!NextBar(bars[index + 2], SignalTypes(index + 2))
      <4>1. ~Mark /\ ~FinishExecution /\ ~MarketDataUnavailable /\ ~Execute
            /\ ~UNCHANGED previewVars /\ ~\E b \in Bars : LoadBar(b)
        BY <2>4 DEF Mark, Engine!MarkToClose, FinishExecution, Engine!Finish,
                    MarketDataUnavailable, Execute, LoadBar, previewVars, engineVars
      <4>2. ExecuteBar
        BY <4>1 DEF PreviewNext
      <4> QED
        BY <2>4, <4>2, InsideTheBar
    <3>2. signals' = signals \cup {<<index + 1, type>> : type \in SignalTypes(index + 2)}
      BY <3>1 DEF Engine!NextBar
    <3>3. index \in Int /\ index >= -1 /\ Len(bars) \in Nat
      BY EngineAssumed DEF EngineInv, EP!TypeInv, EP!TypeOK, EP!EngineAssumption, LoadInv
    <3>4. index + 2 \in 1..Len(bars) /\ (index + 1) + 1 = index + 2
      BY <3>1, <3>3
    <3>5. ASSUME NEW type \in SignalTypes(index + 2) PROVE Holds(type, index + 2)
      BY <3>5 DEF SignalTypes, generate_signals, Holds
    <3>6. ASSUME NEW s \in signals' PROVE Holds(s[2], s[1] + 1) /\ s[1] + 1 \in 1..Len(bars)
      <4>1. CASE s \in signals
        BY <4>1 DEF SignalsHold
      <4>2. CASE s \notin signals
        <5>1. PICK type \in SignalTypes(index + 2) : s = <<index + 1, type>>
          BY <3>2, <4>2
        <5>2. s[1] + 1 = index + 2 /\ s[2] = type
          BY <3>4, <5>1
        <5> QED
          BY <3>4, <3>5, <5>2
      <4> QED
        BY <4>1, <4>2
    <3> QED
      BY <2>1, <2>2, <3>6 DEF SignalsHold
  <2> QED
    BY <2>3, <2>4
<1> QED
  BY <1>1, <1>2

(* The engine of a preview is at the bar the preview has reached, and the  *)
(* signals it was given are those compiled for the loaded bars.            *)
THEOREM PreviewInvariant == PreviewSpec => [](RunInv /\ SignalsHold)
<1>1. PreviewInit => SignalsHold
  BY EngineStarts DEF EP!Init, SignalsHold
<1> QED
  BY <1>1, AlwaysLoaded, EngineInvariant, RunStarts, RunStep, SignalsStep, PTL DEF PreviewSpec

(* No trade of a preview looks ahead: every entry follows a bar on which   *)
(* the compiled entry condition holds, every strategy exit one on which    *)
(* the exit condition does.                                                *)
THEOREM TradesAlwaysFollow == PreviewSpec => []TradesFollowTheStrategy
<1>1. EngineInv /\ SignalsHold => TradesFollowTheStrategy
  <2> SUFFICES ASSUME EngineInv, SignalsHold, NEW i \in DOMAIN trades
      PROVE  /\ evaluate_condition(spec.entry, trades[i].entry)
             /\ trades[i].reason = "strategy_exit" =>
                    evaluate_condition(spec.exit, trades[i].exit)
    BY DEF TradesFollowTheStrategy
  <2>1. /\ <<trades[i].signal, "buy">> \in signals
        /\ trades[i].reason = "strategy_exit" => <<trades[i].exit_signal, "sell">> \in signals
    BY DEF EngineInv, EP!SourcesInv
  <2>2. /\ trades[i].entry = trades[i].signal + 1
        /\ trades[i].reason = "strategy_exit" => trades[i].exit = trades[i].exit_signal + 1
    BY DEF EngineInv, EP!TradesInv, EP!TradesAreCoherent
  <2> QED
    BY <2>1, <2>2 DEF SignalsHold, Holds
<1> QED
  BY <1>1, EngineInvariant, PreviewInvariant, PTL

-----------------------------------------------------------------------------
(* The chart. *)

(* Nothing is earned or lost before the entry condition can be evaluated. *)
FlatInv ==
    \A k \in 1..Len(curve) :
        k <= condition_first_eligible_index(spec.entry) => curve[k] = StartingCash

LEMMA HoldsWhenEligible ==
    ASSUME CompilerInv, NEW c \in Condition, NEW k \in 1..Len(closes), evaluate_condition(c, k)
    PROVE  k >= condition_first_eligible_index(c)
<1>1. PICK m \in Nat \ {0} :
          /\ condition_first_eligible_index(c) = m + (IF c.operator \in Crossing THEN 1 ELSE 0)
          /\ \A i \in 0..Len(closes) : Known(c, i) <=> i >= m
  BY ConditionKnown
<1>2. Known(c, k) /\ (c.operator \in Crossing => Known(c, k - 1))
  BY DEF evaluate_condition, Crossing
<1>3. k \in 0..Len(closes) /\ k - 1 \in 0..Len(closes)
  BY DEF CompilerInv
<1> QED
  BY <1>1, <1>2, <1>3

(* Indexes of the two conditions and of the strategy. *)
LEMMA EligibleIndexes ==
    ASSUME LoadInv
    PROVE  /\ spec.entry \in Condition /\ spec.exit \in Condition
           /\ condition_first_eligible_index(spec.entry) \in Nat \ {0}
           /\ condition_first_eligible_index(spec.exit) \in Nat \ {0}
           /\ first_signal_eligible_index =
                  IF condition_first_eligible_index(spec.entry)
                        >= condition_first_eligible_index(spec.exit)
                  THEN condition_first_eligible_index(spec.entry)
                  ELSE condition_first_eligible_index(spec.exit)
<1>1. spec.entry \in Condition /\ spec.exit \in Condition
  BY PreviewAssumption DEF LoadInv
<1>2. ASSUME NEW c \in Condition PROVE condition_first_eligible_index(c) \in Nat \ {0}
  BY ConditionKnown DEF LoadInv
<1>3. PICK a \in Nat \ {0}, b \in Nat \ {0} : a = condition_first_eligible_index(spec.entry)
                                     /\ b = condition_first_eligible_index(spec.exit)
  BY <1>1, <1>2
<1>4. Max({a, b}) = IF a >= b THEN a ELSE b
  BY MaxOfTwo
<1> QED
  BY <1>1, <1>2, <1>3, <1>4 DEF first_signal_eligible_index

(* There is no position and no trade until the bar after the first on      *)
(* which the entry condition can be evaluated.                             *)
LEMMA NothingBefore ==
    ASSUME LoadInv, EngineInv, SignalsHold,
           index < condition_first_eligible_index(spec.entry)
    PROVE  entry = None /\ trades = << >>
<1>1. PICK e \in Nat \ {0} : e = condition_first_eligible_index(spec.entry)
  BY EligibleIndexes
<1>2. index \in Int /\ trades \in Seq(EP!Trade) /\ entry \in EP!Entry \cup {None}
  BY EngineAssumed DEF EngineInv, EP!TypeInv, EP!TypeOK, EP!EngineAssumption
<1>3. ASSUME NEW n \in Nat, <<n, "buy">> \in signals PROVE n + 1 >= e
  <2>1. evaluate_condition(spec.entry, n + 1) /\ n + 1 \in 1..Len(closes)
    BY <1>3 DEF SignalsHold, Holds, LoadInv
  <2> QED
    BY <1>1, <2>1, EligibleIndexes, HoldsWhenEligible DEF LoadInv
<1>4. entry = None
  <2> SUFFICES ASSUME entry # None PROVE FALSE
    OBVIOUS
  <2>1. entry.signal \in Nat /\ entry.bar = entry.signal + 1 /\ entry.bar <= index
    BY <1>2 DEF EP!Entry, EngineInv, EP!TradesInv
  <2>2. <<entry.signal, "buy">> \in signals
    BY DEF EngineInv, EP!SourcesInv
  <2> QED
    BY <1>1, <1>2, <1>3, <2>1, <2>2
<1>5. trades = << >>
  <2> SUFFICES ASSUME trades # << >> PROVE FALSE
    OBVIOUS
  <2>1. PICK i \in DOMAIN trades : i = 1
    BY <1>2
  <2>2. trades[i] \in EP!Trade
    BY <1>2
  <2>3. trades[i].signal \in Nat /\ trades[i].exit \in Nat
    BY <2>2 DEF EP!Trade
  <2>4. /\ trades[i].entry = trades[i].signal + 1 /\ trades[i].entry <= trades[i].exit
        /\ trades[i].exit <= index
    BY DEF EngineInv, EP!TradesInv, EP!TradesAreCoherent
  <2>5. <<trades[i].signal, "buy">> \in signals
    BY DEF EngineInv, EP!SourcesInv
  <2> QED
    BY <1>1, <1>2, <1>3, <2>3, <2>4, <2>5
<1> QED
  BY <1>4, <1>5

LEMMA FlatStep ==
    LoadInv /\ EngineInv /\ RunInv /\ SignalsHold /\ FlatInv /\ [PreviewNext]_previewVars
        => FlatInv'
<1> SUFFICES ASSUME LoadInv, EngineInv, RunInv, SignalsHold, FlatInv, [PreviewNext]_previewVars
             PROVE  FlatInv'
  OBVIOUS
<1>1. spec' = spec
  BY DEF PreviewNext, LoadBar, MarketDataUnavailable, Execute, ExecuteBar, Mark,
         FinishExecution, previewVars
<1>2. PICK e \in Nat : e = condition_first_eligible_index(spec.entry)
                       /\ e = condition_first_eligible_index(spec.entry)'
  BY <1>1, EligibleIndexes DEF condition_first_eligible_index, operand_first_evaluable_index
<1>3. CASE curve' = curve
  BY <1>2, <1>3 DEF FlatInv
<1>4. CASE curve' # curve
  <2>1. Mark
    BY <1>4 DEF PreviewNext, LoadBar, MarketDataUnavailable, Execute, ExecuteBar,
                FinishExecution, previewVars
  <2>2. /\ pc = "mark" /\ equity' = cash + quantity * bar.close
        /\ curve' = Append(curve, equity')
    BY <2>1 DEF Mark, Engine!MarkToClose
  <2>3. curve \in Seq(Nat) /\ Len(curve) = index /\ index \in Nat
    BY <2>2, EngineAssumed DEF RunInv, EngineInv, EP!TypeInv, EP!TypeOK, EP!Shape,
       EP!EngineAssumption
  <2>4. ASSUME index < e PROVE equity' = StartingCash
    <3>1. entry = None /\ trades = << >>
      BY <1>2, <2>4, NothingBefore
    <3>2. quantity = 0 /\ realized = 0 /\ cash \in Int /\ StartingCash \in Int
      BY <3>1, EngineAssumed DEF EngineInv, EP!TypeInv, EP!TypeOK, EP!Shape, EP!SourcesInv,
         EP!EngineAssumption, EP!Money
    <3>3. cash = StartingCash
      BY <3>1, <3>2 DEF EngineInv, EP!Accounts, EP!BooksBalance
    <3>4. bar.close \in Nat
      BY <2>3, EP!ExitPrices, EngineAssumed DEF EngineInv
    <3> QED
      BY <2>2, <3>2, <3>3, <3>4
  <2>5. PICK v : v = equity'
    OBVIOUS
  <2>6. /\ Len(Append(curve, v)) = index + 1
        /\ \A k \in 1..index : Append(curve, v)[k] = curve[k]
        /\ Append(curve, v)[index + 1] = v
    BY <2>3
  <2>7. ASSUME NEW k \in 1..(index + 1), k <= e PROVE Append(curve, v)[k] = StartingCash
    <3>1. CASE k \in 1..index
      BY <1>2, <2>3, <2>6, <2>7, <3>1 DEF FlatInv
    <3>2. CASE k = index + 1
      BY <2>3, <2>4, <2>5, <2>6, <2>7, <3>2
    <3> QED
      BY <2>3, <3>1, <3>2
  <2> QED
    BY <1>2, <2>2, <2>5, <2>6, <2>7 DEF FlatInv
<1> QED
  BY <1>3, <1>4

(* The benchmark of a bar that was loaded: a point for each bar from it on.*)
LEMMA BenchmarkCurve ==
    ASSUME LoadInv, NEW start \in 1..Len(bars)
    PROVE  LET n == Len(bars) - start + 1
               hold == calculate_buy_and_hold_equity_curve(start)
           IN  /\ n \in Nat \ {0} /\ hold \in [1..n -> Int] /\ hold \in Seq(Int) /\ Len(hold) = n
               /\ \A k \in 1..n :
                     hold[k] = StartingCash - (StartingCash \div bars[start].open) * bars[start].open
                               + (StartingCash \div bars[start].open) * bars[start + k - 1].close
<1>1. PICK n : n = Len(bars) - start + 1
  OBVIOUS
<1>2. n \in Nat \ {0} /\ Len(bars) \in Nat
  BY <1>1 DEF LoadInv
<1>3. PICK hold : hold = calculate_buy_and_hold_equity_curve(start)
  OBVIOUS
<1>4. ASSUME NEW k \in 1..Len(bars)
      PROVE  bars[k].open \in Nat \ {0} /\ bars[k].close \in Nat
  <2>1. bars[k] \in Bars
    BY DEF LoadInv
  <2> QED
    BY <2>1, EngineAssumed DEF EP!EngineAssumption, EP!Money
<1>5. StartingCash \in Nat
  BY EngineAssumed DEF EP!EngineAssumption, EP!Money
<1>6. PICK shares \in Nat : shares = StartingCash \div bars[start].open
  <2>1. PICK open \in Nat \ {0} : open = bars[start].open
    BY <1>4
  <2>2. StartingCash \div open \in Nat
    BY <1>5
  <2> QED
    BY <2>1, <2>2
<1>7. PICK rest : rest = StartingCash - shares * bars[start].open
  OBVIOUS
<1>8. rest \in Int
  BY <1>4, <1>5, <1>6, <1>7
<1>9. hold = [k \in 1..n |-> rest + shares * bars[start + k - 1].close]
  BY <1>1, <1>3, <1>6, <1>7 DEF calculate_buy_and_hold_equity_curve
<1>10. ASSUME NEW k \in 1..n PROVE rest + shares * bars[start + k - 1].close \in Int
  <2>1. start + k - 1 \in 1..Len(bars)
    BY <1>1, <1>2
  <2>2. bars[start + k - 1].close \in Nat
    BY <1>4, <2>1
  <2> QED
    BY <1>8, <2>2
<1>11. hold \in [1..n -> Int]
  BY <1>9, <1>10
<1>12. hold \in Seq(Int) /\ Len(hold) = n
  BY <1>2, <1>11
<1>13. \A k \in 1..n : hold[k] = rest + shares * bars[start + k - 1].close
  BY <1>9
<1> QED
  BY <1>1, <1>2, <1>3, <1>6, <1>7, <1>11, <1>12, <1>13

LEMMA ChartHolds == LoadInv /\ EngineInv /\ RunInv /\ FlatInv => ChartAgreesWithSummary
<1> SUFFICES ASSUME LoadInv, EngineInv, RunInv, FlatInv, phase = "done"
    PROVE  /\ Len(StrategyValues) = Len(BuyAndHoldValues)
           /\ Last(StrategyValues) = cash
           /\ Len(BuyAndHoldValues) > 1 => Last(BuyAndHoldValues) = buy_and_hold_final_value
           /\ BuyAndHoldValues[1] = StartingCash
           /\ condition_first_eligible_index(spec.exit)
                  <= condition_first_eligible_index(spec.entry) =>
                  StrategyValues[1] = StartingCash
  BY DEF ChartAgreesWithSummary
<1>1. PICK e : e = first_signal_eligible_index
  OBVIOUS
<1>2. e \in 1..Len(bars) /\ Len(bars) \in Nat
  BY <1>1, EligibleIndexes DEF LoadInv
<1>3. curve \in Seq(Nat) /\ Len(curve) = Len(bars) /\ curve[Len(curve)] = equity /\ equity = cash
  <2>1. pc = "done" /\ index = Len(bars) - 1 /\ Len(curve) = index + 1 /\ curve \in Seq(Nat)
    BY DEF RunInv
  <2>2. Len(curve) = Len(bars) /\ curve # << >>
    BY <1>2, <2>1
  <2> QED
    BY <2>1, <2>2 DEF RunInv, EngineInv, EP!Accounts, EP!FinalValueIsOnTheCurve
<1>4. PICK n : n = Len(bars) - e + 1
  OBVIOUS
<1>5. PICK hold : hold = calculate_buy_and_hold_equity_curve(e)
  OBVIOUS
<1>6. n \in Nat \ {0} /\ hold \in [1..n -> Int] /\ hold \in Seq(Int) /\ Len(hold) = n
  BY <1>2, <1>4, <1>5, BenchmarkCurve
<1>7. PICK values : values = SubSeq(curve, e, Len(curve))
  OBVIOUS
<1>8. Len(values) = n /\ \A k \in 1..n : values[k] = curve[e + k - 1]
  BY <1>2, <1>3, <1>4, <1>6, <1>7
<1>9. StrategyValues = values
  BY <1>1, <1>7 DEF StrategyValues
<1>10. PICK shown : shown = [hold EXCEPT ![1] = StartingCash]
  OBVIOUS
<1>11. BuyAndHoldValues = shown
  BY <1>1, <1>5, <1>10 DEF BuyAndHoldValues
<1>12. StartingCash \in Int
  BY EngineAssumed DEF EP!EngineAssumption, EP!Money
<1>13. shown \in [1..n -> Int] /\ shown[1] = StartingCash /\ \A k \in 2..n : shown[k] = hold[k]
  BY <1>6, <1>10, <1>12
<1>14. Len(shown) = n
  <2>1. shown \in Seq(Int)
    BY <1>6, <1>13
  <2> QED
    BY <1>6, <1>13, <2>1
<1>15. Last(values) = cash
  <2>1. values[n] = curve[e + n - 1] /\ e + n - 1 = Len(curve)
    BY <1>2, <1>3, <1>4, <1>6, <1>8
  <2> QED
    BY <1>3, <1>8, <2>1 DEF Last
<1>16. n > 1 => Last(shown) = Last(hold)
  BY <1>6, <1>13, <1>14 DEF Last
<1>17. buy_and_hold_final_value = Last(hold)
  BY <1>1, <1>5 DEF buy_and_hold_final_value
<1>18. ASSUME condition_first_eligible_index(spec.exit)
                  <= condition_first_eligible_index(spec.entry)
       PROVE  values[1] = StartingCash
  <2>1. e = condition_first_eligible_index(spec.entry)
    BY <1>1, <1>18, EligibleIndexes
  <2>2. curve[e] = StartingCash
    BY <1>2, <1>3, <2>1 DEF FlatInv
  <2>3. values[1] = curve[e + 1 - 1] /\ e + 1 - 1 = e
    BY <1>2, <1>6, <1>8
  <2> QED
    BY <2>2, <2>3
<1> QED
  BY <1>8, <1>9, <1>11, <1>13, <1>14, <1>15, <1>16, <1>17, <1>18

(* The two curves of the chart pair up and end in the values the summary   *)
(* reports, for every preview that completes.                              *)
THEOREM ChartAlwaysAgrees == PreviewSpec => []ChartAgreesWithSummary
<1>1. PreviewInit => FlatInv
  BY DEF PreviewInit, FlatInv
<1> QED
  BY <1>1, AlwaysLoaded, EngineInvariant, PreviewInvariant, FlatStep, ChartHolds, PTL
     DEF PreviewSpec

-----------------------------------------------------------------------------
(* The benchmark. *)

(* The value at bar k of the shares the cash buys at the open of bar start.*)
HeldFrom(start, k) ==
    LET shares == StartingCash \div bars[start].open
    IN  StartingCash - shares * bars[start].open + shares * bars[k].close

(* The first position is the benchmark's: as large, and worth as much.     *)
HoldInv ==
    /\ trades = << >> /\ entry # None =>
          /\ quantity = StartingCash \div bars[entry.bar + 1].open
          /\ cash = StartingCash - quantity * bars[entry.bar + 1].open
          /\ \A k \in (entry.bar + 1)..Len(curve) : curve[k] = HeldFrom(entry.bar + 1, k)
    /\ Len(trades) = 1 /\ trades[1].reason = "final_liquidation" =>
          \A k \in (trades[1].entry + 1)..Len(curve) :
              curve[k] = HeldFrom(trades[1].entry + 1, k)

(* Nothing that HoldInv is about changes. *)
LEMMA HoldUnchanged ==
    ASSUME HoldInv, UNCHANGED <<cash, quantity, entry, trades, bars, curve>>
    PROVE  HoldInv'
BY DEF HoldInv, HeldFrom

(* A position that is closed before the end leaves nothing to hold. *)
LEMMA HoldClosed ==
    ASSUME EngineInv, EngineInv', pc' # "done", NEW price, NEW reason, NEW exit_signal,
           Engine!close_position(price, reason, exit_signal)
    PROVE  HoldInv'
<1>1. entry' = None
  BY DEF Engine!close_position
<1>2. ASSUME Len(trades') = 1, trades'[1].reason = "final_liquidation" PROVE FALSE
  <2>1. 1 \in DOMAIN trades'
    BY <1>2 DEF EngineInv, EP!TypeInv, EP!TypeOK
  <2> QED
    BY <1>2, <2>1 DEF EngineInv, EP!SourcesInv
<1> QED
  BY <1>1, <1>2 DEF HoldInv

LEMMA HoldBought ==
    ASSUME LoadInv, EngineInv, EngineInv', RunInv, HoldInv, Engine!ExecuteBuy,
           UNCHANGED <<bars, curve>>
    PROVE  HoldInv'
<1>1. /\ pc = "buy" /\ quantity = 0 /\ trades' = trades /\ realized' = realized
      /\ pc' = "sell" /\ quantity' = cash \div bar.open /\ cash' = cash - quantity' * bar.open
  BY DEF Engine!ExecuteBuy, Engine!shares_to_buy
<1>2. entry'.bar = index
  <2>1. entry' = [price |-> bar.open, bar |-> index, signal |-> index - 1,
                  stop |-> Engine!stop_price(bar.open),
                  take |-> Engine!take_profit_price(bar.open)]
    BY DEF Engine!ExecuteBuy
  <2> QED
    BY <2>1
<1>3. index \in Nat /\ bar = bars[index + 1] /\ Len(curve) = index
  BY <1>1, EngineAssumed DEF EngineInv, EP!TypeInv, EP!TypeOK, EP!Shape, EP!EngineAssumption,
     RunInv
<1>4. ASSUME trades = << >> PROVE cash = StartingCash
  <2>1. entry = None /\ realized = 0 /\ cash \in Int /\ StartingCash \in Int
    BY <1>1, <1>4, EngineAssumed DEF EngineInv, EP!TypeInv, EP!TypeOK, EP!Shape,
       EP!SourcesInv, EP!EngineAssumption, EP!Money
  <2> QED
    BY <2>1 DEF EngineInv, EP!Accounts, EP!BooksBalance
<1>5. ~(Len(trades') = 1 /\ trades'[1].reason = "final_liquidation")
  <2>1. Len(trades') = 1 => 1 \in DOMAIN trades'
    BY DEF EngineInv, EP!TypeInv, EP!TypeOK
  <2> QED
    BY <1>1, <2>1 DEF EngineInv, EP!SourcesInv
<1>6. trades' = << >> =>
          /\ quantity' = StartingCash \div bars'[entry'.bar + 1].open
          /\ cash' = StartingCash - quantity' * bars'[entry'.bar + 1].open
  BY <1>1, <1>2, <1>3, <1>4
<1>7. \A k \in (entry'.bar + 1)..Len(curve') : FALSE
  BY <1>2, <1>3
<1> QED
  BY <1>5, <1>6, <1>7 DEF HoldInv

LEMMA HoldMarked ==
    ASSUME LoadInv, EngineInv, RunInv, HoldInv, Mark
    PROVE  HoldInv'
<1>1. /\ pc = "mark" /\ equity' = cash + quantity * bar.close
      /\ curve' = Append(curve, equity')
      /\ UNCHANGED <<cash, quantity, entry, trades, bars>>
  BY DEF Mark, Engine!MarkToClose, Engine!book
<1>2. /\ index \in Nat /\ bar = bars[index + 1] /\ Len(curve) = index /\ curve \in Seq(Nat)
  BY <1>1, EngineAssumed DEF EngineInv, EP!TypeInv, EP!TypeOK, EP!Shape, EP!EngineAssumption,
     RunInv
<1>3. PICK v : v = equity'
  OBVIOUS
<1>4. /\ Len(Append(curve, v)) = index + 1 /\ Append(curve, v)[index + 1] = v
      /\ \A k \in 1..index : Append(curve, v)[k] = curve[k]
  BY <1>2
<1>5. ~(Len(trades) = 1 /\ trades[1].reason = "final_liquidation")
  <2>1. Len(trades) = 1 => 1 \in DOMAIN trades
    BY DEF EngineInv, EP!TypeInv, EP!TypeOK
  <2> QED
    BY <1>1, <2>1 DEF EngineInv, EP!SourcesInv
<1>6. ASSUME trades = << >>, entry # None,
             NEW k \in (entry.bar + 1)..(index + 1)
      PROVE  Append(curve, v)[k] = HeldFrom(entry.bar + 1, k)
  <2>1. entry.bar \in Nat
    BY <1>6 DEF EngineInv, EP!TypeInv, EP!TypeOK, EP!Entry
  <2>2. CASE k = index + 1
    <3>1. /\ quantity = StartingCash \div bars[entry.bar + 1].open
          /\ cash = StartingCash - quantity * bars[entry.bar + 1].open
      BY <1>6 DEF HoldInv
    <3> QED
      BY <1>1, <1>2, <1>3, <1>4, <2>2, <3>1 DEF HeldFrom
  <2>3. CASE k # index + 1
    <3>1. k \in (entry.bar + 1)..Len(curve) /\ k \in 1..index
      BY <1>2, <2>1, <2>3
    <3> QED
      BY <1>4, <1>6, <3>1 DEF HoldInv
  <2> QED
    BY <2>2, <2>3
<1>7. \A start, k : HeldFrom(start, k)' = HeldFrom(start, k)
  BY <1>1 DEF HeldFrom
<1>8. curve' = Append(curve, v) /\ Len(curve') = index + 1
  BY <1>1, <1>3, <1>4
<1>9. trades' = << >> /\ entry' # None =>
          /\ quantity' = StartingCash \div bars'[entry'.bar + 1].open
          /\ cash' = StartingCash - quantity' * bars'[entry'.bar + 1].open
          /\ \A k \in (entry'.bar + 1)..Len(curve') :
                 curve'[k] = HeldFrom(entry'.bar + 1, k)
  BY <1>1, <1>6, <1>8 DEF HoldInv
<1> QED
  BY <1>1, <1>5, <1>7, <1>9 DEF HoldInv

LEMMA HoldFinished ==
    ASSUME LoadInv, EngineInv, RunInv, HoldInv, FinishExecution
    PROVE  HoldInv'
<1>1. UNCHANGED <<bars, curve>>
  BY DEF FinishExecution
<1>2. CASE quantity = 0 /\ UNCHANGED Engine!book
  BY <1>1, <1>2, HoldUnchanged DEF Engine!book
<1>3. CASE quantity > 0 /\ Engine!close_position(bar.close, "final_liquidation", None)
  <2>1. entry # None /\ entry' = None /\ trades \in Seq(EP!Trade)
    BY <1>3 DEF EngineInv, EP!TypeInv, EP!TypeOK, EP!Shape, Engine!close_position
  <2>2. PICK t : t = [signal |-> entry.signal, entry |-> entry.bar, price |-> entry.price,
                      quantity |-> quantity, exit_signal |-> None, exit |-> index,
                      exit_price |-> bar.close, reason |-> "final_liquidation"]
    OBVIOUS
  <2>3. trades' = Append(trades, t) /\ t.entry = entry.bar
    BY <1>3, <2>2 DEF Engine!close_position
  <2>4. Len(trades') = 1 => trades = << >> /\ trades'[1] = t
    BY <2>1, <2>3
  <2>5. ASSUME Len(trades') = 1, NEW k \in (trades'[1].entry + 1)..Len(curve')
        PROVE  curve'[k] = HeldFrom(entry.bar + 1, k)
    BY <1>1, <2>1, <2>3, <2>4, <2>5 DEF HoldInv
  <2>6. \A start, k : HeldFrom(start, k)' = HeldFrom(start, k)
    BY <1>1 DEF HeldFrom
  <2> QED
    BY <2>1, <2>3, <2>4, <2>5, <2>6 DEF HoldInv
<1> QED
  BY <1>2, <1>3 DEF FinishExecution, Engine!Finish

LEMMA HoldStep ==
    LoadInv /\ EngineInv /\ EngineInv' /\ RunInv /\ HoldInv /\ [PreviewNext]_previewVars
        => HoldInv'
<1> SUFFICES ASSUME LoadInv, EngineInv, EngineInv', RunInv, HoldInv, [PreviewNext]_previewVars
             PROVE  HoldInv'
  OBVIOUS
<1>1. CASE phase = "load"
  <2>1. entry = None /\ trades = << >>
    BY <1>1 DEF RunInv, EP!Init
  <2>2. entry' = entry /\ trades' = trades
    BY <1>1 DEF PreviewNext, LoadBar, MarketDataUnavailable, Execute, ExecuteBar, Mark,
                FinishExecution, previewVars, engineVars
  <2> QED
    BY <2>1, <2>2 DEF HoldInv
<1>2. CASE ExecuteBar
  <2>1. /\ UNCHANGED <<bars, curve>> /\ phase' = phase /\ phase = "execute"
        /\ pc' # "done"
    <3>1. CASE Engine!NextBar(bars[index + 2], SignalTypes(index + 2))
      BY <1>2, <3>1 DEF ExecuteBar, Engine!NextBar
    <3>2. CASE pc' \in {"buy", "sell", "intraday", "mark"}
      BY <1>2, <3>2 DEF ExecuteBar
    <3> QED
      BY <1>2, <3>1, <3>2, InsideTheBar
  <2>2. CASE Engine!OpeningRiskExit \/ Engine!ExecuteSell \/ Engine!IntradayRiskExit
    <3>1. \E price, reason, exit_signal : Engine!close_position(price, reason, exit_signal)
      BY <2>2 DEF Engine!OpeningRiskExit, Engine!ExecuteSell, Engine!IntradayRiskExit
    <3> QED
      BY <2>1, <3>1, HoldClosed
  <2>3. CASE Engine!ExecuteBuy
    BY <2>1, <2>3, HoldBought
  <2>4. CASE ~(Engine!OpeningRiskExit \/ Engine!ExecuteSell \/ Engine!IntradayRiskExit
               \/ Engine!ExecuteBuy)
    <3>1. UNCHANGED Engine!book
      BY <1>2, <2>4 DEF ExecuteBar, Engine!NextBar, Engine!NoOpeningRiskExit, Engine!IgnoreBuy,
         Engine!NoBuy, Engine!IgnoreSell, Engine!NoSell, Engine!NoIntradayRiskExit
    <3> QED
      BY <2>1, <3>1, HoldUnchanged DEF Engine!book
  <2> QED
    BY <2>2, <2>3, <2>4
<1>3. CASE Mark
  BY <1>3, HoldMarked
<1>4. CASE FinishExecution
  BY <1>4, HoldFinished
<1>5. CASE UNCHANGED previewVars
  BY <1>5, HoldUnchanged DEF previewVars, engineVars
<1> QED
  BY <1>1, <1>2, <1>3, <1>4, <1>5
     DEF PreviewNext, LoadBar, MarketDataUnavailable, Execute

LEMMA TailOf ==
    ASSUME NEW s \in Seq(Nat), NEW a \in 1..Len(s), NEW k \in 1..(Len(s) - a + 1)
    PROVE  SubSeq(s, a, Len(s))[k] = s[a + k - 1]
OBVIOUS

LEMMA HoldingHolds == LoadInv /\ EngineInv /\ RunInv /\ HoldInv => BenchmarkIsHolding
<1> SUFFICES ASSUME LoadInv, EngineInv, RunInv, HoldInv, phase = "done", Len(trades) = 1,
                    trades[1].reason = "final_liquidation", NEW start,
                    start = trades[1].entry + 1
             PROVE  SubSeq(curve, start, Len(curve)) = calculate_buy_and_hold_equity_curve(start)
  BY DEF BenchmarkIsHolding
<1>1. curve \in Seq(Nat) /\ Len(curve) = Len(bars) /\ index = Len(bars) - 1 /\ Len(bars) \in Nat
  BY DEF RunInv, LoadInv
<1>2. start \in 1..Len(bars)
  <2>0. trades \in Seq(EP!Trade)
    BY DEF EngineInv, EP!TypeInv, EP!TypeOK
  <2>1. PICK i \in DOMAIN trades : i = 1
    BY <2>0
  <2>2. trades[i] \in EP!Trade
    BY <2>0
  <2>3. trades[i].entry \in Nat /\ trades[i].exit \in Nat
    BY <2>2 DEF EP!Trade
  <2>4. trades[i].entry <= trades[i].exit /\ trades[i].exit <= index
    BY DEF EngineInv, EP!TradesInv, EP!TradesAreCoherent
  <2> QED
    BY <1>1, <2>1, <2>3, <2>4
<1>3. PICK n, hold : n = Len(bars) - start + 1 /\ hold = calculate_buy_and_hold_equity_curve(start)
  OBVIOUS
<1>4. /\ n \in Nat \ {0} /\ hold \in [1..n -> Int] /\ hold \in Seq(Int) /\ Len(hold) = n
      /\ \A k \in 1..n : hold[k] = HeldFrom(start, start + k - 1)
  BY <1>2, <1>3, BenchmarkCurve DEF HeldFrom
<1>5. PICK values : values = SubSeq(curve, start, Len(curve))
  OBVIOUS
<1>6. /\ values \in Seq(Nat) /\ Len(values) = n
      /\ \A k \in 1..n : values[k] = curve[start + k - 1]
  <2>1. start \in Nat \ {0} /\ start <= Len(curve) /\ n = Len(curve) - start + 1
    BY <1>1, <1>2, <1>3
  <2>2. values \in Seq(Nat) /\ Len(values) = n
    BY <1>1, <1>5, <2>1
  <2>3. ASSUME NEW k \in 1..n PROVE values[k] = curve[start + k - 1]
    <3>1. PICK c, a : c = curve /\ a = start
      OBVIOUS
    <3>2. c \in Seq(Nat) /\ a \in 1..Len(c) /\ k \in 1..(Len(c) - a + 1)
      BY <2>1, <1>1, <3>1
    <3>3. SubSeq(c, a, Len(c))[k] = c[a + k - 1]
      BY <3>2, TailOf
    <3> QED
      BY <1>5, <3>1, <3>3
  <2> QED
    BY <2>2, <2>3
<1>7. ASSUME NEW k \in 1..n PROVE values[k] = hold[k]
  <2>1. start + k - 1 \in start..Len(curve)
    <3>1. start \in Int /\ k \in Int /\ k >= 1 /\ k <= n /\ n = Len(curve) - start + 1
      BY <1>1, <1>2, <1>3, <1>4
    <3> QED
      BY <1>1, <3>1
  <2>2. curve[start + k - 1] = HeldFrom(start, start + k - 1)
    BY <2>1 DEF HoldInv
  <2> QED
    BY <1>4, <1>6, <2>2
<1>8. values = hold
  BY <1>4, <1>6, <1>7
<1> QED
  BY <1>3, <1>5, <1>8

(* A strategy that buys once and holds to the end is the benchmark: the    *)
(* two are sized, priced and marked alike on every series.                 *)
THEOREM BenchmarkIsFair == PreviewSpec => []BenchmarkIsHolding
<1>1. PreviewInit => HoldInv
  BY EngineStarts DEF EP!Init, HoldInv
<1> QED
  BY <1>1, AlwaysLoaded, EngineInvariant, PreviewInvariant, HoldStep, HoldingHolds, PTL
     DEF PreviewSpec

-----------------------------------------------------------------------------
(* The drawdown. *)

LEMMA MaxOfSet ==
    ASSUME NEW N \in Nat, NEW t \in SUBSET (1..N), t # {}
    PROVE  Max(t) \in t /\ \A y \in t : Max(t) >= y
<1>1. PICK T : T = {N - x : x \in t}
  OBVIOUS
<1>2. T \in SUBSET Nat /\ T # {}
  <2>1. \A x \in t : N - x \in Nat
    OBVIOUS
  <2> QED
    BY <1>1, <2>1
<1>3. PICK d \in T : \A y \in T : d <= y
  BY <1>2, NatMin
<1>4. PICK m \in t : d = N - m
  BY <1>1, <1>3
<1>5. ASSUME NEW y \in t PROVE m >= y
  <2>1. N - y \in T /\ d <= N - y
    BY <1>1, <1>3
  <2> QED
    BY <1>4, <2>1
<1>6. \E x \in t : \A y \in t : x >= y
  BY <1>5
<1> QED
  BY <1>6 DEF Max

LEMMA Times == ASSUME NEW a \in Nat, NEW b \in Nat, NEW c \in Nat, a <= b PROVE a * c <= b * c
OBVIOUS

LEMMA Cancels ==
    ASSUME NEW a \in Nat, NEW b \in Nat, NEW c \in Nat \ {0}, a * c <= b * c
    PROVE  a <= b
<1> SUFFICES ASSUME b + 1 <= a PROVE FALSE
  OBVIOUS
<1>1. (b + 1) * c <= a * c
  BY Times
<1>2. (b + 1) * c = b * c + c
  OBVIOUS
<1>3. a * c \in Nat /\ b * c \in Nat
  OBVIOUS
<1> QED
  BY <1>1, <1>2, <1>3

(* If x is at least w1/w2 of y, and v less than w1/w2 of p, then x is at   *)
(* least v/p of y.                                                         *)
LEMMA DeeperFall ==
    ASSUME NEW x \in Nat, NEW y \in Nat, NEW v \in Nat, NEW w1 \in Nat, NEW w2 \in Nat \ {0},
           NEW p \in Nat, x * w2 >= w1 * y, v * w2 < w1 * p
    PROVE  x * p >= v * y
<1>1. /\ x * w2 \in Nat /\ w1 * y \in Nat /\ v * w2 \in Nat /\ w1 * p \in Nat
      /\ x * p \in Nat /\ v * y \in Nat
  OBVIOUS
<1>2. (w1 * y) * p <= (x * w2) * p
  BY <1>1, Times
<1>3. (v * w2) * y <= (w1 * p) * y
  BY <1>1, Times
<1>4. (w1 * y) * p = (w1 * p) * y /\ (v * w2) * y = (v * y) * w2 /\ (x * w2) * p = (x * p) * w2
  OBVIOUS
<1>5. (v * y) * w2 <= (x * p) * w2
  BY <1>1, <1>2, <1>3, <1>4
<1> QED
  BY <1>1, <1>5, Cancels

(* The state of the loop after n points: the peak so far, and the deepest  *)
(* fall so far.                                                            *)
Marks == [peak : Nat \ {0}, worst : Nat \X (Nat \ {0})]

Deepest(s, n, r) ==
    /\ r \in Marks
    /\ \A i \in 1..n : s[i] <= r.peak
    /\ \E i \in DOMAIN s : (i <= n \/ i = 1) /\ s[i] = r.peak
    /\ \A j \in 1..n : \A i \in 1..j : s[j] * r.worst[2] >= r.worst[1] * s[i]
    /\ \E j \in DOMAIN s : \E i \in 1..j : s[j] * r.worst[2] = r.worst[1] * s[i]

LEMMA NextPointIs ==
    ASSUME NEW r \in Marks, NEW v \in Nat
    PROVE  \E p \in Nat \ {0} :
              /\ p = (IF r.peak >= v THEN r.peak ELSE v)
              /\ NextPoint(r, v) \in Marks /\ NextPoint(r, v).peak = p
              /\ NextPoint(r, v).worst = IF v * r.worst[2] < r.worst[1] * p
                                         THEN <<v, p>> ELSE r.worst
<1>1. r.peak \in Nat \ {0} /\ r.worst \in Nat \X (Nat \ {0})
  BY DEF Marks
<1>2. PICK a \in Nat \ {0} : a = r.peak
  BY <1>1
<1>3. PICK p : p = Max({a, v})
  OBVIOUS
<1>4. p = (IF a >= v THEN a ELSE v) /\ p \in Nat \ {0}
  BY <1>3, MaxOfTwo
<1>5. NextPoint(r, v) = [peak |-> p, worst |-> IF v * r.worst[2] < r.worst[1] * p
                                                THEN <<v, p>> ELSE r.worst]
  BY <1>2, <1>3 DEF NextPoint
<1>6. PICK w : w = IF v * r.worst[2] < r.worst[1] * p THEN <<v, p>> ELSE r.worst
  OBVIOUS
<1>7. w \in Nat \X (Nat \ {0})
  BY <1>1, <1>4, <1>6
<1>8. [peak |-> p, worst |-> w] \in Marks
  BY <1>4, <1>7 DEF Marks
<1> QED
  BY <1>2, <1>4, <1>5, <1>6, <1>8

LEMMA DeepestNext ==
    ASSUME NEW s \in Seq(Nat), NEW n \in Nat, n + 1 \in DOMAIN s, NEW r, Deepest(s, n, r)
    PROVE  Deepest(s, n + 1, NextPoint(r, s[n + 1]))
<1>1. PICK v \in Nat : v = s[n + 1]
  OBVIOUS
<1>2. r \in Marks
  BY DEF Deepest
<1>3. PICK q : q = NextPoint(r, v)
  OBVIOUS
<1>4. PICK p \in Nat \ {0} :
          /\ p = (IF r.peak >= v THEN r.peak ELSE v)
          /\ q \in Marks /\ q.peak = p
          /\ q.worst = IF v * r.worst[2] < r.worst[1] * p THEN <<v, p>> ELSE r.worst
  BY <1>2, <1>3, NextPointIs
<1>5. PICK w1 \in Nat, w2 \in Nat \ {0}, a \in Nat \ {0} :
          w1 = r.worst[1] /\ w2 = r.worst[2] /\ a = r.peak
  BY <1>2 DEF Marks
<1>6. \A i \in 1..(n + 1) : s[i] \in Nat /\ s[i] <= p
  <2>0. \A i \in 1..(n + 1) : s[i] \in Nat
    <3>1. DOMAIN s = 1..Len(s) /\ n + 1 <= Len(s) /\ Len(s) \in Nat
      OBVIOUS
    <3>2. \A i \in 1..(n + 1) : i \in DOMAIN s
      BY <3>1
    <3> QED
      BY <3>2
  <2>1. \A i \in 1..n : s[i] <= a
    BY <1>5 DEF Deepest
  <2>3. p >= a /\ p >= v
    BY <1>4, <1>5
  <2>2. ASSUME NEW i \in 1..(n + 1) PROVE s[i] \in Nat /\ s[i] <= p
    <3>1. i \in 1..n \/ i = n + 1
      OBVIOUS
    <3>2. PICK x \in Nat : x = s[i]
      BY <2>0
    <3> QED
      BY <1>1, <2>1, <2>3, <3>1, <3>2
  <2> QED
    BY <2>2
<1>7. PICK top \in DOMAIN s : top \in 1..(n + 1) /\ s[top] = p
  <2>1. PICK i \in DOMAIN s : (i <= n \/ i = 1) /\ s[i] = a
    BY <1>5 DEF Deepest
  <2>2. i \in 1..(n + 1) /\ n + 1 \in 1..(n + 1)
    BY <2>1
  <2> QED
    BY <1>1, <1>4, <1>5, <2>1, <2>2
<1>8. CASE v * w2 < w1 * p
  <2>1. q.worst[1] = v /\ q.worst[2] = p
    BY <1>4, <1>5, <1>8
  <2>2. ASSUME NEW j \in 1..(n + 1), NEW i \in 1..j PROVE s[j] * p >= v * s[i]
    <3>1. i \in 1..(n + 1) /\ s[i] \in Nat /\ s[i] <= p /\ s[j] \in Nat
      BY <1>6
    <3>2. CASE j = n + 1
      <4>1. s[i] * v <= p * v
        BY <3>1, Times
      <4> QED
        BY <1>1, <3>1, <3>2, <4>1
    <3>3. CASE j \in 1..n
      <4>1. s[j] * w2 >= w1 * s[i]
        BY <1>5, <3>3 DEF Deepest
      <4> QED
        BY <1>8, <3>1, <4>1, DeeperFall
    <3> QED
      BY <3>2, <3>3
  <2>3. s[n + 1] * p = v * s[top]
    BY <1>1, <1>7
  <2>4. top \in 1..(n + 1) /\ (top <= n + 1)
    BY <1>7
  <2>5. \E j \in DOMAIN s : \E i \in 1..j : s[j] * q.worst[2] = q.worst[1] * s[i]
    BY <2>1, <2>3, <2>4
  <2>6. \A j \in 1..(n + 1) : \A i \in 1..j : s[j] * q.worst[2] >= q.worst[1] * s[i]
    BY <2>1, <2>2
  <2>7. \E i \in DOMAIN s : (i <= n + 1 \/ i = 1) /\ s[i] = q.peak
    BY <1>4, <1>7, <2>4
  <2> QED
    BY <1>1, <1>3, <1>4, <1>6, <2>5, <2>6, <2>7 DEF Deepest
<1>9. CASE ~(v * w2 < w1 * p)
  <2>1. q.worst[1] = w1 /\ q.worst[2] = w2
    BY <1>4, <1>5, <1>9
  <2>2. ASSUME NEW j \in 1..(n + 1), NEW i \in 1..j PROVE s[j] * w2 >= w1 * s[i]
    <3>1. i \in 1..(n + 1) /\ s[i] \in Nat /\ s[i] <= p /\ s[j] \in Nat
      BY <1>6
    <3>2. CASE j = n + 1
      <4>1. s[i] * w1 <= p * w1
        BY <3>1, Times
      <4>2. v * w2 \in Nat /\ w1 * p \in Nat /\ v * w2 >= w1 * p
        BY <1>9
      <4>3. PICK x \in Nat : x = s[i]
        BY <3>1
      <4>4. w1 * x <= w1 * p /\ w1 * x \in Nat
        <5>1. x * w1 <= p * w1
          BY <4>1, <4>3
        <5>2. w1 * x = x * w1 /\ w1 * p = p * w1 /\ w1 * x \in Nat
          OBVIOUS
        <5> QED
          BY <5>1, <5>2
      <4>5. w1 * x <= v * w2
        <5>1. PICK k1, k2, k3 : k1 = w1 * x /\ k2 = w1 * p /\ k3 = v * w2
          OBVIOUS
        <5>2. k1 \in Nat /\ k2 \in Nat /\ k3 \in Nat /\ k1 <= k2 /\ k3 >= k2
          BY <4>2, <4>4, <5>1
        <5>3. k1 <= k3
          BY <5>2
        <5> QED
          BY <5>1, <5>3
      <4> QED
        BY <1>1, <3>2, <4>3, <4>5
    <3>3. CASE j \in 1..n
      BY <1>5, <3>3 DEF Deepest
    <3> QED
      BY <3>2, <3>3
  <2>3. \E j \in DOMAIN s : \E i \in 1..j : s[j] * q.worst[2] = q.worst[1] * s[i]
    BY <1>5, <2>1 DEF Deepest
  <2>4. \A j \in 1..(n + 1) : \A i \in 1..j : s[j] * q.worst[2] >= q.worst[1] * s[i]
    BY <2>1, <2>2
  <2>5. \E i \in DOMAIN s : (i <= n + 1 \/ i = 1) /\ s[i] = q.peak
    BY <1>4, <1>7
  <2> QED
    BY <1>1, <1>3, <1>4, <1>6, <2>3, <2>4, <2>5 DEF Deepest
<1> QED
  BY <1>8, <1>9

(* calculate_maximum_drawdown of a curve that starts above zero. *)
LEMMA DrawdownIs ==
    ASSUME NEW s \in Seq(Nat), s # << >>, s[1] # 0
    PROVE  \E r : Deepest(s, Len(s), r) /\ calculate_maximum_drawdown(s) = r.worst
<1>0. DOMAIN s = 1..Len(s) /\ Len(s) \in Nat \ {0} /\ 1 \in DOMAIN s /\ s[1] \in Nat \ {0}
  OBVIOUS
<1>1. PICK S : S = DOMAIN s
  OBVIOUS
<1>2. PICK ch : ch = [t \in SUBSET S |-> Max(t)]
  OBVIOUS
<1>3. PICK G : G = [t \in SUBSET S |-> [r \in Marks |-> NextPoint(r, s[ch[t]])]]
  OBVIOUS
<1>4. PICK base : base = [peak |-> s[1], worst |-> <<1, 1>>]
  OBVIOUS
<1>5. base \in Marks /\ base.peak = s[1] /\ base.worst[1] = 1 /\ base.worst[2] = 1
  BY <1>0, <1>4 DEF Marks
<1>6. \A t \in SUBSET S : t # {} => ch[t] = Max(t) /\ ch[t] \in t /\ \A y \in t : ch[t] >= y
  BY <1>0, <1>1, <1>2, MaxOfSet
<1>7. Chooses(ch, S)
  BY <1>0, <1>1, <1>6, FS_Interval DEF Chooses
<1>8. \A t \in SUBSET S : t # {} => s[ch[t]] \in Nat
  BY <1>1, <1>6
<1>9. \A r \in Marks : \A v \in Nat : NextPoint(r, v) \in Marks
  BY NextPointIs
<1>10. PICK V : V = Marks
  OBVIOUS
<1>11. Turns(G, S, V) /\ base \in V
  BY <1>3, <1>5, <1>8, <1>9, <1>10 DEF Turns
<1>12. PICK h : IsFold(h, S, V, base, ch, G)
  BY <1>7, <1>11, FoldExists
<1> DEFINE Turn(f) == [t \in SUBSET S |-> IF t = {} THEN base
                                          ELSE NextPoint(f[t \ {Max(t)}], s[Max(t)])]
<1>13. PICK iter : iter = Turn(iter) /\ FoldLeft(NextPoint, base, s) = iter[S]
  <2>1. \A t \in SUBSET S : t # {} =>
            G[t][h[t \ {ch[t]}]] = NextPoint(h[t \ {Max(t)}], s[Max(t)])
    <3>1. \A t \in SUBSET S : t # {} => h[t \ {ch[t]}] \in Marks
      BY <1>10, <1>12 DEF IsFold
    <3> QED
      BY <1>3, <1>6, <3>1
  <2>2. h = Turn(h)
    <3>1. h = [t \in SUBSET S |-> h[t]]
      BY <1>12 DEF IsFold
    <3>2. \A t \in SUBSET S : h[t] = IF t = {} THEN base
                                     ELSE NextPoint(h[t \ {Max(t)}], s[Max(t)])
      BY <1>12, <2>1 DEF IsFold
    <3> QED
      BY <3>1, <3>2
  <2>3. FoldLeft(NextPoint, base, s) = (CHOOSE f : f = Turn(f))[S]
    BY <1>1, Zenon DEF FoldLeft, MapThenFoldSet
  <2> HIDE DEF Turn
  <2> QED
    BY <2>2, <2>3
<1>14. /\ iter[{}] = base
       /\ \A t \in SUBSET S : t # {} => iter[t] = NextPoint(iter[t \ {ch[t]}], s[ch[t]])
  BY <1>6, <1>13
<1>15. PICK P : P = {t \in SUBSET S : \A n \in Nat : t = 1..n => Deepest(s, n, iter[t])}
  OBVIOUS
<1>16. {} \in P
  <2>1. Deepest(s, 0, base)
    <3>1. s[1] * 1 = 1 * s[1] /\ 1 \in 1..1
      BY <1>0
    <3>2. \E j \in DOMAIN s : \E i \in 1..j : s[j] * base.worst[2] = base.worst[1] * s[i]
      BY <1>0, <1>5, <3>1
    <3> QED
      BY <1>0, <1>5, <3>2 DEF Deepest
  <2>2. \A n \in Nat : {} = 1..n => n = 0
    <3>1. ASSUME NEW n \in Nat, n # 0 PROVE 1 \in 1..n
      BY <3>1
    <3> QED
      BY <3>1
  <2> QED
    BY <1>14, <1>15, <2>1, <2>2
<1>17. ASSUME NEW t \in SUBSET S, t # {}, t \ {ch[t]} \in P PROVE t \in P
  <2>1. ASSUME NEW n \in Nat, t = 1..n PROVE Deepest(s, n, iter[t])
    <3>0. PICK m \in t : m = ch[t] /\ \A y \in t : m >= y
      BY <1>6, <1>17
    <3>1. n # 0 /\ ch[t] = n
      <4>1. m \in 1..n /\ n \in 1..n
        BY <2>1, <3>0
      <4> QED
        BY <2>1, <3>0, <4>1
    <3>2. PICK k \in Nat : n = k + 1
      BY <3>1
    <3>3. t \ {ch[t]} = 1..k
      BY <2>1, <3>1, <3>2
    <3>4. PICK r : r = iter[t \ {ch[t]}]
      OBVIOUS
    <3>5. Deepest(s, k, r)
      BY <1>15, <1>17, <3>3, <3>4
    <3>6. k + 1 \in DOMAIN s
      BY <1>1, <2>1, <3>1, <3>2
    <3>7. Deepest(s, k + 1, NextPoint(r, s[k + 1]))
      BY <3>5, <3>6, DeepestNext
    <3> QED
      BY <1>14, <1>17, <3>1, <3>2, <3>4, <3>7
  <2> QED
    BY <1>15, <2>1
<1>18. Inductive(P, S, ch)
  BY <1>16, <1>17 DEF Inductive
<1>19. S \in P
  BY <1>7, <1>18, FoldInduction
<1>20. Deepest(s, Len(s), iter[S])
  BY <1>0, <1>1, <1>15, <1>19
<1>21. calculate_maximum_drawdown(s) = iter[S].worst
  BY <1>4, <1>13 DEF calculate_maximum_drawdown
<1> QED
  BY <1>20, <1>21

LEMMA DrawdownHolds == LoadInv /\ EngineInv /\ RunInv /\ FlatInv => DrawdownIsDeepestFall
<1> SUFFICES ASSUME LoadInv, EngineInv, RunInv, FlatInv, phase = "done"
    PROVE  LET worst == calculate_maximum_drawdown(curve)
               Pairs == {p \in (DOMAIN curve) \X (DOMAIN curve) : p[1] <= p[2]}
           IN  /\ \A q \in Pairs : curve[q[2]] * worst[2] >= worst[1] * curve[q[1]]
               /\ \E q \in Pairs : curve[q[2]] * worst[2] = worst[1] * curve[q[1]]
  BY DEF DrawdownIsDeepestFall
<1>1. curve \in Seq(Nat) /\ Len(curve) = Len(bars)
  BY DEF RunInv, LoadInv
<1>2. Len(bars) \in Nat \ {0} /\ 1 <= condition_first_eligible_index(spec.entry)
  BY EligibleIndexes DEF LoadInv
<1>3. curve[1] = StartingCash /\ StartingCash # 0 /\ curve # << >>
  BY <1>1, <1>2, EngineAssumed DEF FlatInv, EP!EngineAssumption, EP!Money
<1>4. PICK s \in Seq(Nat) : s = curve
  BY <1>1
<1>5. PICK r : Deepest(s, Len(s), r) /\ calculate_maximum_drawdown(s) = r.worst
  BY <1>3, <1>4, DrawdownIs
<1>6. PICK worst : worst = r.worst
  OBVIOUS
<1>7. DOMAIN s = 1..Len(s)
  OBVIOUS
<1> DEFINE Pairs == {p \in (DOMAIN s) \X (DOMAIN s) : p[1] <= p[2]}
<1>8. ASSUME NEW q \in Pairs PROVE s[q[2]] * worst[2] >= worst[1] * s[q[1]]
  <2>1. q[2] \in 1..Len(s) /\ q[1] \in 1..q[2]
    BY <1>7
  <2> QED
    BY <1>5, <1>6, <2>1 DEF Deepest
<1>9. \E q \in Pairs : s[q[2]] * worst[2] = worst[1] * s[q[1]]
  <2>1. PICK j \in DOMAIN s : \E i \in 1..j : s[j] * worst[2] = worst[1] * s[i]
    BY <1>5, <1>6 DEF Deepest
  <2>2. PICK i \in 1..j : s[j] * worst[2] = worst[1] * s[i]
    BY <2>1
  <2>3. <<i, j>> \in Pairs
    BY <1>7
  <2> QED
    BY <2>2, <2>3
<1> QED
  BY <1>4, <1>5, <1>6, <1>8, <1>9

(* The reported maximum drawdown is the deepest fall of the curve, however *)
(* long it is: the one pass that keeps a peak and a worst ratio misses no  *)
(* pair of points.                                                         *)
THEOREM DrawdownIsExact == PreviewSpec => []DrawdownIsDeepestFall
<1>1. PreviewInit => FlatInv
  BY DEF PreviewInit, FlatInv
<1> QED
  BY <1>1, AlwaysLoaded, EngineInvariant, PreviewInvariant, FlatStep, DrawdownHolds, PTL
     DEF PreviewSpec

-----------------------------------------------------------------------------
(* Running totals. *)

LEMMA SumEmpty == ASSUME NEW seq, NEW a \in Int, NEW b \in Int, b < a PROVE SumOver(seq, a, b) = 0
<1>1. a..b = {} /\ IsFiniteSet({}) /\ \A i \in {} : seq[i] \in Int
  BY FS_EmptySet
<1>2. PICK T : T = {}
  OBVIOUS
<1>3. PICK g : IsSum(g, seq, T) /\ Sigma(seq, T) = g[T]
  BY <1>1, <1>2, SumExists
<1>4. g[T] = 0
  BY <1>2, <1>3 DEF IsSum
<1> QED
  BY <1>1, <1>2, <1>3, <1>4 DEF SumOver, Sigma

LEMMA DividesExactly == ASSUME NEW k \in Int, NEW p \in Nat \ {0} PROVE (k * p) \div p = k
<1>1. PICK a \in Int : a = k * p
  OBVIOUS
<1>2. PICK q \in Int : q = a \div p
  BY <1>1
<1>3. q * p <= a /\ a < q * p + p
  BY <1>1, <1>2
<1>4. ~(q + 1 <= k)
  <2> SUFFICES ASSUME q + 1 <= k PROVE FALSE
    OBVIOUS
  <2>1. PICK d \in Nat : k = q + 1 + d
    <3>1. k - q - 1 \in Nat /\ k = q + 1 + (k - q - 1)
      OBVIOUS
    <3> QED
      BY <3>1
  <2>2. k * p = q * p + p + d * p /\ d * p \in Nat /\ q * p \in Int
    BY <2>1
  <2> QED
    BY <1>1, <1>3, <2>2
<1>5. ~(k + 1 <= q)
  <2> SUFFICES ASSUME k + 1 <= q PROVE FALSE
    OBVIOUS
  <2>1. PICK d \in Nat : q = k + 1 + d
    <3>1. q - k - 1 \in Nat /\ q = k + 1 + (q - k - 1)
      OBVIOUS
    <3> QED
      BY <3>1
  <2>2. q * p = k * p + p + d * p /\ d * p \in Nat /\ k * p \in Int
    BY <2>1
  <2> QED
    BY <1>1, <1>3, <2>2
<1> QED
  BY <1>1, <1>2, <1>4, <1>5

(* The first position of the window that ends at n. *)
WindowStart(p, n) == IF n >= p THEN n - p + 1 ELSE 1

(* The rolling totals are the sums of their windows, and the averages      *)
(* those sums divided by the period.                                       *)
RollInv ==
    \A p \in Periods :
        /\ total[p] = SumOver(closes, WindowStart(p, Len(closes)), Len(closes))
        /\ \A i \in p..Len(closes) : sma[p][i] = SumOver(closes, i - p + 1, i) \div p

(* Adding the new close and taking away the one that left the window.      *)
Slides(p, n, s, l, c) ==
    SumOver(l, WindowStart(p, n + 1), n + 1)
        = SumOver(s, WindowStart(p, n), n) + c - (IF n >= p THEN s[n - p + 1] ELSE 0)

LEMMA WindowSlides ==
    ASSUME NEW s \in Seq(Int), NEW c \in Int, NEW p \in Nat \ {0}
    PROVE  Slides(p, Len(s), s, Append(s, c), c)
<1>9. PICK n, l : n = Len(s) /\ l = Append(s, c)
  OBVIOUS
<1>1. /\ n \in Nat /\ \A i \in 1..n : s[i] \in Int /\ s[i] = l[i]
      /\ l[n + 1] = c /\ \A i \in 1..(n + 1) : l[i] \in Int
  BY <1>9
<1>2. PICK a : a = WindowStart(p, n + 1)
  OBVIOUS
<1>3. a \in Nat \ {0} /\ a <= n + 1
  BY <1>1, <1>2 DEF WindowStart
<1>4. Whole(l, a, n + 1) /\ Whole(s, a, n) /\ Alike(s, l, a, n)
  BY <1>1, <1>3 DEF Whole, Alike
<1>5. SumOver(l, a, n + 1) = c + SumOver(l, a, n)
  <2>1. a \in Int /\ n \in Int
    BY <1>1, <1>3
  <2>2. SumOver(l, a, n + 1) = l[n + 1] + SumOver(l, a, n)
    BY <1>3, <1>4, <2>1, SumLast, Zenon
  <2> QED
    BY <1>1, <2>2, Zenon
<1>6. SumOver(s, a, n) = SumOver(l, a, n)
  BY <1>1, <1>3, <1>4, SumAgrees
<1>0. PICK r \in Int : r = SumOver(s, a, n)
  BY <1>1, <1>3, <1>4, SumIsWhole
<1>7. ASSUME n >= p PROVE Slides(p, n, s, l, c)
  <2>1. PICK b : b = n - p + 1
    OBVIOUS
  <2>2. b \in Nat \ {0} /\ b <= n /\ b + 1 = a
    BY <1>1, <1>2, <1>7, <2>1 DEF WindowStart
  <2>3. Whole(s, b, n) /\ s[b] \in Int
    BY <1>1, <2>2 DEF Whole
  <2>4. SumOver(s, b, n) = s[b] + SumOver(s, b + 1, n)
    BY <1>1, <2>2, <2>3, SumFirst
  <2>5. PICK x \in Int : x = s[b]
    BY <2>3
  <2>6. SumOver(s, WindowStart(p, n), n) = x + r
    BY <1>0, <1>7, <2>1, <2>2, <2>4, <2>5 DEF WindowStart
  <2>7. c + r = (x + r) + c - x
    OBVIOUS
  <2> QED
    BY <1>2, <1>5, <1>6, <1>0, <1>7, <2>1, <2>5, <2>6, <2>7 DEF Slides
<1>8. ASSUME ~(n >= p) PROVE Slides(p, n, s, l, c)
  <2>1. a = 1 /\ WindowStart(p, n) = 1
    BY <1>1, <1>2, <1>8 DEF WindowStart
  <2>2. c + r = r + c - 0
    OBVIOUS
  <2> QED
    BY <1>2, <1>5, <1>6, <1>0, <1>8, <2>1, <2>2 DEF Slides
<1> QED
  BY <1>7, <1>8, <1>9

LEMMA RollStep == ASSUME CompilerInv, RollInv, NEW c \in Closes, NextBar(c) PROVE RollInv'
<1>1. c \in Int /\ closes \in Seq(Int)
  <2>1. closes \in Seq(Closes) /\ \A x \in Closes : x \in Int
    BY CompilerAssumption DEF CompilerInv
  <2>2. \A i \in 1..Len(closes) : closes[i] \in Int
    BY <2>1
  <2> QED
    BY <2>1, <2>2
<1>2. PICK s, n, l : s = closes /\ n = Len(s) /\ l = Append(s, c)
  OBVIOUS
<1>0. s \in Seq(Int) /\ n \in Nat
  BY <1>1, <1>2
<1>3. closes' = l /\ Len(closes') = n + 1 /\ \A i \in 1..n : s[i] \in Int /\ s[i] = l[i]
  BY <1>0, <1>1, <1>2 DEF NextBar
<1>4. ASSUME NEW p \in Periods
      PROVE  /\ total'[p] = SumOver(l, WindowStart(p, n + 1), n + 1)
             /\ \A i \in p..(n + 1) : sma'[p][i] = SumOver(l, i - p + 1, i) \div p
  <2>1. p \in Nat \ {0}
    BY CompilerAssumption
  <2>2. PICK r : r = rolling_total(p, c)
    OBVIOUS
  <2>3. r = SumOver(s, WindowStart(p, n), n) + c - (IF n >= p THEN s[n - p + 1] ELSE 0)
    BY <1>2, <2>2 DEF rolling_total, RollInv
  <2>4. r = SumOver(l, WindowStart(p, n + 1), n + 1)
    <3>1. Slides(p, Len(s), s, Append(s, c), c)
      BY <1>0, <1>1, <2>1, WindowSlides
    <3> QED
      BY <1>2, <2>3, <3>1 DEF Slides
  <2>5. total'[p] = r
    BY <2>2 DEF NextBar
  <2>6. PICK f, v : f = sma[p] /\ v = simple_moving_averages(p, c)
    OBVIOUS
  <2>7. sma'[p] = Append(f, v) /\ f \in Seq(Int \cup {None}) /\ Len(f) = n
    BY <1>2, <2>6 DEF NextBar, CompilerInv, Warm
  <2>8. ASSUME NEW i \in p..(n + 1)
        PROVE  sma'[p][i] = SumOver(l, i - p + 1, i) \div p
    <3>1. CASE i = n + 1
      <4>1. sma'[p][i] = v
        BY <1>0, <2>7, <3>1
      <4>2. v = r \div p
        BY <1>0, <1>2, <2>1, <2>2, <2>6, <3>1 DEF simple_moving_averages
      <4>3. WindowStart(p, n + 1) = i - p + 1
        BY <1>0, <2>1, <3>1 DEF WindowStart
      <4> QED
        BY <2>4, <3>1, <4>1, <4>2, <4>3
    <3>2. CASE i # n + 1
      <4>1. i \in p..n /\ i \in 1..n /\ i - p + 1 \in Int /\ i \in Int
        BY <1>0, <2>1, <3>2
      <4>2. Append(f, v)[i] = f[i]
        BY <1>0, <2>7, <4>1
      <4>3. f[i] = SumOver(s, i - p + 1, i) \div p
        BY <1>2, <2>6, <4>1 DEF RollInv
      <4>4. Whole(s, i - p + 1, i) /\ Alike(s, l, i - p + 1, i)
        <5>1. \A k \in (i - p + 1)..i : k \in 1..n
          BY <1>0, <2>1, <4>1
        <5> QED
          BY <1>3, <5>1 DEF Whole, Alike
      <4>5. SumOver(s, i - p + 1, i) = SumOver(l, i - p + 1, i)
        BY <4>1, <4>4, SumAgrees
      <4> QED
        BY <2>7, <4>2, <4>3, <4>5
    <3> QED
      BY <3>1, <3>2
  <2> QED
    BY <2>4, <2>5, <2>8
<1> QED
  BY <1>3, <1>4 DEF RollInv

(* The rolling totals never drift from their windows, however long the     *)
(* series: each is the sum of its last closes, and each simple average     *)
(* that sum divided by the period, rounded down to the unit.               *)
THEOREM RollingTotalsHold == PreviewSpec => []RollInv
<1>1. PreviewInit => RollInv
  <2> SUFFICES ASSUME PreviewInit, NEW p \in Periods
      PROVE  /\ total[p] = SumOver(closes, WindowStart(p, Len(closes)), Len(closes))
             /\ \A i \in p..Len(closes) : sma[p][i] = SumOver(closes, i - p + 1, i) \div p
    BY DEF RollInv
  <2>1. p \in Nat \ {0} /\ closes = << >> /\ total[p] = 0
    BY CompilerAssumption DEF PreviewInit, Init
  <2>2. WindowStart(p, 0) = 1 /\ Len(closes) = 0
    BY <2>1 DEF WindowStart
  <2>3. PICK s : s = closes
    OBVIOUS
  <2>4. SumOver(s, 1, 0) = 0
    BY SumEmpty
  <2>5. \A i \in p..0 : FALSE
    BY <2>1
  <2> QED
    BY <2>1, <2>2, <2>3, <2>4, <2>5
<1>2. LoadInv /\ RollInv /\ [PreviewNext]_previewVars => RollInv'
  <2> SUFFICES ASSUME LoadInv, RollInv, [PreviewNext]_previewVars PROVE RollInv'
    OBVIOUS
  <2>1. ASSUME NEW b \in Bars, LoadBar(b) PROVE RollInv'
    <3>1. b.close \in Closes /\ NextBar(b.close)
      BY <2>1, PreviewAssumption DEF LoadBar
    <3> QED
      BY <3>1, RollStep DEF LoadInv
  <2>2. CASE ~\E b \in Bars : LoadBar(b)
    <3>1. UNCHANGED <<closes, total, sma>>
      BY <2>2 DEF PreviewNext, MarketDataUnavailable, Execute, ExecuteBar, Mark,
                  FinishExecution, previewVars, compilerVars
    <3> QED
      BY <3>1 DEF RollInv
  <2> QED
    BY <2>1, <2>2
<1> QED
  BY <1>1, <1>2, AlwaysLoaded, PTL DEF PreviewSpec

(* The unit of the closes is fine enough for every period. *)
FineUnit == \A c \in Closes : \A p \in Periods : \E k \in Int : c = k * p

SimpleAveragesAreExact ==
    \A p \in Periods : \A i \in DOMAIN closes : i >= p => IsSimpleAverage(p, i)

(* In such a unit every simple average is exactly the mean of its last     *)
(* closes, as IsSimpleAverage says, for all series and periods.            *)
THEOREM SimpleAveragesExact == FineUnit => (PreviewSpec => []SimpleAveragesAreExact)
<1> SUFFICES ASSUME FineUnit PROVE PreviewSpec => []SimpleAveragesAreExact
  OBVIOUS
<1>1. LoadInv /\ RollInv => SimpleAveragesAreExact
  <2> SUFFICES ASSUME LoadInv, RollInv, NEW p \in Periods, NEW i \in DOMAIN closes, i >= p
      PROVE  sma[p][i] * p = SumOver(closes, i - p + 1, i)
    BY DEF SimpleAveragesAreExact, IsSimpleAverage
  <2>1. /\ p \in Nat \ {0} /\ closes \in Seq(Closes) /\ Len(closes) \in Nat
        /\ i \in 1..Len(closes) /\ i \in p..Len(closes)
    BY CompilerAssumption DEF LoadInv, CompilerInv
  <2>2. PICK s, a, T : s = closes /\ a = i - p + 1 /\ T = a..i
    OBVIOUS
  <2>3. IsFiniteSet(T)
    BY <2>1, <2>2, FS_Interval
  <2>4. ASSUME NEW j \in T PROVE \E k \in Int : s[j] = k * p
    <3>1. j \in 1..Len(closes)
      BY <2>1, <2>2
    <3>2. s[j] \in Closes
      BY <2>1, <2>2, <3>1
    <3> QED
      BY <3>2 DEF FineUnit
  <2>5. PICK k \in Int : Sigma(s, T) = k * p
    <3>1. Multiples(s, T, p)
      BY <2>4, Zenon DEF Multiples
    <3>2. p \in Int
      BY <2>1
    <3> QED
      BY <2>3, <3>1, <3>2, SumOfMultiples
  <2>6. SumOver(s, a, i) = k * p
    BY <2>2, <2>5 DEF SumOver, Sigma
  <2>7. (k * p) \div p = k
    BY <2>1, DividesExactly
  <2>8. sma[p][i] = k
    BY <2>1, <2>2, <2>6, <2>7 DEF RollInv
  <2> QED
    BY <2>2, <2>6, <2>8
<1> QED
  BY <1>1, AlwaysLoaded, RollingTotalsHold, PTL


-----------------------------------------------------------------------------
(* Exponential averages. *)

PowTurn(h, x, n) == [k \in 0..n |-> IF k = 0 THEN 1 ELSE x * h[k - 1]]
IsPow(h, x, n) == h \in [0..n -> Int] /\ h = PowTurn(h, x, n)

LEMMA PowExists == ASSUME NEW x \in Int, NEW n \in Nat PROVE \E h : IsPow(h, x, n)
<1> DEFINE Good == {m \in Nat : \E h : IsPow(h, x, m)}
<1>1. 0 \in Good
  <2> DEFINE h == [k \in 0..0 |-> 1]
  <2>1. h \in [0..0 -> Int]
    OBVIOUS
  <2>2. h = PowTurn(h, x, 0)
    BY DEF PowTurn
  <2>3. IsPow(h, x, 0)
    BY <2>1, <2>2 DEF IsPow
  <2> QED
    BY <2>3
<1>2. ASSUME NEW m \in Good PROVE m + 1 \in Good
  <2>0. m \in Nat
    OBVIOUS
  <2>1. PICK h : IsPow(h, x, m)
    OBVIOUS
  <2> DEFINE g == [k \in 0..(m + 1) |-> IF k = 0 THEN 1 ELSE x * h[k - 1]]
  <2>2. \A k \in 0..m : h[k] \in Int /\ h[k] = IF k = 0 THEN 1 ELSE x * h[k - 1]
    BY <2>1 DEF IsPow, PowTurn
  <2>3. \A k \in 0..m : g[k] = h[k]
    BY <2>0, <2>2
  <2>4. ASSUME NEW k \in 0..(m + 1) PROVE g[k] \in Int /\ g[k] = IF k = 0 THEN 1 ELSE x * g[k - 1]
    <3>1. CASE k = 0
      BY <2>0, <3>1
    <3>2. CASE k # 0
      <4>1. k - 1 \in 0..m
        BY <2>0, <3>2
      <4>2. g[k] = x * h[k - 1]
        BY <3>2
      <4>3. g[k - 1] = h[k - 1] /\ h[k - 1] \in Int
        BY <2>2, <2>3, <4>1
      <4> HIDE DEF g
      <4> QED
        BY <3>2, <4>2, <4>3
    <3> QED
      BY <3>1, <3>2
  <2>5. g = [k \in 0..(m + 1) |-> g[k]]
    OBVIOUS
  <2> HIDE DEF g
  <2>6. IsPow(g, x, m + 1)
    BY <2>4, <2>5 DEF IsPow, PowTurn
  <2> QED
    BY <2>0, <2>6
<1>3. Good \in SUBSET Nat
  OBVIOUS
<1> HIDE DEF Good
<1>4. n \in Good
  BY <1>1, <1>2, <1>3, NatSet
<1> QED
  BY <1>4 DEF Good

LEMMA PowUnique ==
    ASSUME NEW x \in Int, NEW n \in Nat, NEW m \in Nat, n <= m,
           NEW g, NEW h, g = PowTurn(g, x, n), IsPow(h, x, m)
    PROVE  \A k \in 0..n : g[k] = h[k]
<1> DEFINE Good == {k \in Nat : k <= n => g[k] = h[k]}
<1>1. 0 \in Good
  BY DEF PowTurn, IsPow
<1>2. ASSUME NEW k \in Good PROVE k + 1 \in Good
  <2>1. k \in Nat /\ (k <= n => g[k] = h[k])
    OBVIOUS
  <2>2. ASSUME k + 1 <= n PROVE g[k + 1] = h[k + 1]
    <3>1. k + 1 \in 0..n /\ k + 1 \in 0..m /\ k + 1 # 0 /\ (k + 1) - 1 = k
      BY <2>1, <2>2
    <3>2. g[k + 1] = x * g[k] /\ h[k + 1] = x * h[k]
      BY <3>1 DEF PowTurn, IsPow
    <3> QED
      BY <2>1, <2>2, <3>2
  <2> QED
    BY <2>1, <2>2
<1>3. Good \in SUBSET Nat
  OBVIOUS
<1> HIDE DEF Good
<1>4. Good = Nat
  BY <1>1, <1>2, <1>3, NatSet
<1> QED
  BY <1>4 DEF Good

LEMMA PowerIs ==
    ASSUME NEW x \in Int, NEW n \in Nat, NEW m \in Nat, n <= m, NEW h, IsPow(h, x, m)
    PROVE  Power(x, n) = h[n]
<1> DEFINE Sol == CHOOSE f : f = PowTurn(f, x, n)
<1>1. Power(x, n) = Sol[n]
  BY DEF Power, PowTurn
<1>2. \E f : f = PowTurn(f, x, n)
  BY PowExists DEF IsPow
<1>3. Sol = PowTurn(Sol, x, n)
  BY <1>2
<1> HIDE DEF Sol
<1>4. n \in 0..n
  OBVIOUS
<1> QED
  BY <1>1, <1>3, <1>4, PowUnique

(* Powers, as the recursion that defines them computes them. *)
LEMMA PowerRules ==
    ASSUME NEW x \in Int
    PROVE  /\ Power(x, 0) = 1
           /\ \A n \in Nat : Power(x, n) \in Int /\ Power(x, n + 1) = x * Power(x, n)
<1>1. ASSUME NEW n \in Nat
      PROVE  /\ Power(x, 0) = 1
             /\ Power(x, n) \in Int /\ Power(x, n + 1) = x * Power(x, n)
  <2>1. PICK h : IsPow(h, x, n + 1)
    BY PowExists
  <2>2. /\ h[0] = 1 /\ h[n] \in Int /\ h[n + 1] = x * h[n]
    BY <2>1 DEF IsPow, PowTurn
  <2>3. PICK m \in Nat : m = n + 1
    OBVIOUS
  <2>4. Power(x, 0) = h[0] /\ Power(x, n) = h[n] /\ Power(x, m) = h[m]
    BY <2>1, <2>3, PowerIs
  <2> QED
    BY <2>2, <2>3, <2>4
<1> QED
  BY <1>1

(* A lower power divides a higher one. *)
LEMMA PowerDivides ==
    ASSUME NEW x \in Int, NEW m \in Nat, NEW n \in Nat, m <= n
    PROVE  \E k \in Int : Power(x, n) = k * Power(x, m)
<1> DEFINE Good == {d \in Nat : \E k \in Int : Power(x, m + d) = k * Power(x, m)}
<1>1. 0 \in Good
  <2>1. Power(x, m) \in Int /\ m + 0 = m
    BY PowerRules
  <2>2. Power(x, m + 0) = 1 * Power(x, m)
    BY <2>1
  <2> QED
    BY <2>2
<1>2. ASSUME NEW d \in Good PROVE d + 1 \in Good
  <2>1. PICK k \in Int : Power(x, m + d) = k * Power(x, m)
    OBVIOUS
  <2>2. PICK e \in Nat : e = m + d
    OBVIOUS
  <2>3. Power(x, e + 1) = x * Power(x, e) /\ Power(x, m) \in Int
    BY PowerRules
  <2>4. e + 1 = m + (d + 1)
    BY <2>2
  <2>5. PICK q \in Int : q = Power(x, m)
    BY <2>3
  <2>6. x * (k * q) = (x * k) * q /\ x * k \in Int
    OBVIOUS
  <2>7. Power(x, m + (d + 1)) = (x * k) * q
    BY <2>1, <2>2, <2>3, <2>4, <2>5, <2>6
  <2> QED
    BY <2>5, <2>6, <2>7
<1>3. Good \in SUBSET Nat
  OBVIOUS
<1> HIDE DEF Good
<1>4. n - m \in Good
  BY <1>1, <1>2, <1>3, NatSet
<1>5. m + (n - m) = n
  OBVIOUS
<1> QED
  BY <1>4, <1>5 DEF Good


(* A sum of values that are all scaled by x is scaled by x. *)
Scaled(f1, f2, T, x) == \A i \in T : f1[i] \in Int /\ f2[i] = x * f1[i]

LEMMA SumScales ==
    ASSUME NEW T, IsFiniteSet(T), NEW f1, NEW f2, NEW x \in Int, Scaled(f1, f2, T, x)
    PROVE  Sigma(f2, T) = x * Sigma(f1, T)
<1>1. \A i \in T : f1[i] \in Int /\ f2[i] \in Int /\ f2[i] = x * f1[i]
  BY DEF Scaled
<1>2. PICK g : IsSum(g, f1, T) /\ Sigma(f1, T) = g[T]
  BY <1>1, SumExists
<1>3. PICK h : IsSum(h, f2, T) /\ Sigma(f2, T) = h[T]
  BY <1>1, SumExists
<1>4. PICK ch : Chooses(ch, T) /\ \A s \in SUBSET T : ch[s] = Pick(s)
  BY PickChooses
<1>5. PICK P : P = {s \in SUBSET T : h[s] = x * g[s]}
  OBVIOUS
<1>6. {} \in P
  <2>1. g[{}] = 0 /\ h[{}] = 0
    BY <1>2, <1>3 DEF IsSum
  <2>2. 0 = x * 0
    OBVIOUS
  <2> QED
    BY <1>5, <2>1, <2>2
<1>7. ASSUME NEW s \in SUBSET T, s # {}, s \ {ch[s]} \in P PROVE s \in P
  <2>1. PICK a, b, r : a = f1[ch[s]] /\ b = f2[ch[s]] /\ r = g[s \ {ch[s]}]
    OBVIOUS
  <2>2. a \in Int /\ b = x * a
    BY <1>1, <1>4, <1>7, <2>1 DEF Chooses
  <2>3. r \in Int
    BY <1>2, <2>1 DEF IsSum
  <2>4. g[s] = a + r
    BY <1>2, <1>4, <1>7, <2>1 DEF IsSum
  <2>5. h[s] = b + h[s \ {ch[s]}]
    BY <1>3, <1>4, <1>7, <2>1 DEF IsSum
  <2>6. h[s \ {ch[s]}] = x * r
    BY <1>5, <1>7, <2>1
  <2>7. x * a + x * r = x * (a + r)
    BY <2>2, <2>3
  <2> QED
    BY <1>5, <2>2, <2>4, <2>5, <2>6, <2>7
<1>8. Inductive(P, T, ch)
  BY <1>6, <1>7 DEF Inductive
<1>9. T \in P
  BY <1>4, <1>8, FoldInduction
<1> QED
  BY <1>2, <1>3, <1>5, <1>9

(* IsExponentialAverage, of any series cs and value v. *)
Weights(p, i, cs) ==
    [j \in (p + 1)..i |-> 2 * cs[j] * Power(p - 1, i - j) * Power(p + 1, j - p - 1)]
ClosedForm(p, i, cs, v) ==
    v * Power(p + 1, i - p) * p =
        SumOver(cs, 1, p) * Power(p - 1, i - p) + p * SumOver(Weights(p, i, cs), p + 1, i)

LEMMA WeightIsWhole ==
    ASSUME NEW p \in Nat \ {0}, NEW i \in Nat, NEW cs, Whole(cs, 1, i), NEW j \in (p + 1)..i
    PROVE  /\ cs[j] \in Int /\ Power(p - 1, i - j) \in Int /\ Power(p + 1, j - p - 1) \in Int
           /\ Weights(p, i, cs)[j] \in Int
           /\ Weights(p, i, cs)[j] = 2 * cs[j] * Power(p - 1, i - j) * Power(p + 1, j - p - 1)
<1>1. i - j \in Nat /\ j - p - 1 \in Nat /\ p - 1 \in Int /\ p + 1 \in Int /\ j \in 1..i
  OBVIOUS
<1>2. cs[j] \in Int
  BY <1>1 DEF Whole
<1>3. PICK a, b : a = Power(p - 1, i - j) /\ b = Power(p + 1, j - p - 1)
  OBVIOUS
<1>4. a \in Int /\ b \in Int
  BY <1>1, <1>3, PowerRules
<1>5. Weights(p, i, cs)[j] = 2 * cs[j] * a * b
  BY <1>3 DEF Weights
<1>6. 2 * cs[j] * a * b \in Int
  BY <1>2, <1>4
<1> QED
  BY <1>2, <1>3, <1>4, <1>5, <1>6

(* The closed form only looks at the closes up to its index. *)
LEMMA ClosedFormAgrees ==
    ASSUME NEW p \in Nat \ {0}, NEW i \in Nat, p <= i, NEW cs, NEW ds, Whole(cs, 1, i),
           Alike(cs, ds, 1, i), NEW v, ClosedForm(p, i, cs, v)
    PROVE  ClosedForm(p, i, ds, v)
<1>1. Whole(cs, 1, p) /\ Alike(cs, ds, 1, p)
  BY DEF Whole, Alike
<1>2. SumOver(cs, 1, p) = SumOver(ds, 1, p)
  BY <1>1, SumAgrees
<1>3. \A j \in (p + 1)..i : j \in 1..i /\ cs[j] = ds[j]
  BY DEF Alike
<1>4. Weights(p, i, cs) = Weights(p, i, ds)
  BY <1>3 DEF Weights
<1> QED
  BY <1>2, <1>4 DEF ClosedForm

(* The first value, the mean of the first period. *)
LEMMA ClosedFormSeed ==
    ASSUME NEW p \in Nat \ {0}, NEW cs, Whole(cs, 1, p), NEW v \in Int, SumOver(cs, 1, p) = v * p
    PROVE  ClosedForm(p, p, cs, v)
<1>1. PICK w : w = Weights(p, p, cs)
  OBVIOUS
<1>2. SumOver(w, p + 1, p) = 0
  BY SumEmpty
<1>3. p - p = 0 /\ Power(p + 1, 0) = 1 /\ Power(p - 1, 0) = 1
  BY PowerRules
<1>4. v * 1 * p = (v * p) * 1 + p * 0
  OBVIOUS
<1> QED
  BY <1>1, <1>2, <1>3, <1>4 DEF ClosedForm

(* One more bar: every close so far weighs p - 1 times as much against the *)
(* new denominator, and the new close enters.                              *)
LEMMA WeightsGrow ==
    ASSUME NEW p \in Nat \ {0}, NEW n \in Nat, p <= n, NEW cs, Whole(cs, 1, n + 1)
    PROVE  SumOver(Weights(p, n + 1, cs), p + 1, n + 1) =
               2 * cs[n + 1] * Power(p + 1, n - p)
                   + (p - 1) * SumOver(Weights(p, n, cs), p + 1, n)
<1>1. PICK m, q, w, u : m = n + 1 /\ q = p + 1 /\ w = Weights(p, m, cs) /\ u = Weights(p, n, cs)
  OBVIOUS
<1>2. m \in Nat /\ q \in Int /\ q <= m /\ Whole(cs, 1, m) /\ Whole(cs, 1, n)
  BY <1>1 DEF Whole
<1>3. Whole(w, q, m)
  <2>1. ASSUME NEW j \in (p + 1)..m PROVE w[j] \in Int
    BY <1>1, <1>2, WeightIsWhole
  <2> QED
    BY <1>1, <2>1 DEF Whole
<1>4. SumOver(w, q, m) = w[m] + SumOver(w, q, n)
  <2>1. SumOver(w, q, n + 1) = w[n + 1] + SumOver(w, q, n)
    BY <1>1, <1>2, <1>3, SumLast
  <2> QED
    BY <1>1, <2>1
<1>5. w[m] = 2 * cs[m] * Power(p + 1, n - p)
  <2>1. m \in (p + 1)..m /\ m - m = 0 /\ m - p - 1 = n - p /\ n - p \in Nat
    BY <1>1, <1>2
  <2>2. Power(p - 1, m - m) = 1
    BY <2>1, PowerRules
  <2>3. w[m] = 2 * cs[m] * 1 * Power(p + 1, n - p) /\ cs[m] \in Int
    BY <1>1, <1>2, <2>1, <2>2, WeightIsWhole
  <2>4. 2 * cs[m] * 1 = 2 * cs[m]
    BY <2>3
  <2> QED
    BY <2>3, <2>4
<1>6. SumOver(w, q, n) = (p - 1) * SumOver(u, q, n)
  <2>1. ASSUME NEW j \in (p + 1)..n PROVE u[j] \in Int /\ w[j] = (p - 1) * u[j]
    <3>1. j \in (p + 1)..m /\ m - j = (n - j) + 1 /\ n - j \in Nat
      BY <1>1
    <3>2. PICK c, b : c = cs[j] /\ b = Power(p + 1, j - p - 1)
      OBVIOUS
    <3>3. PICK a : a = Power(p - 1, n - j)
      OBVIOUS
    <3>4. c \in Int /\ b \in Int /\ a \in Int /\ u[j] \in Int /\ u[j] = 2 * c * a * b
      BY <1>1, <1>2, <3>2, <3>3, WeightIsWhole
    <3>5. Power(p - 1, m - j) = (p - 1) * a
      BY <3>1, <3>3, PowerRules
    <3>6. w[j] = 2 * c * ((p - 1) * a) * b
      BY <1>1, <1>2, <3>1, <3>2, <3>5, WeightIsWhole
    <3>7. 2 * c * ((p - 1) * a) * b = (p - 1) * (2 * c * a * b)
      BY <3>4
    <3> QED
      BY <3>4, <3>6, <3>7
  <2>2. PICK T : T = (p + 1)..n
    OBVIOUS
  <2>3. Scaled(u, w, T, p - 1)
    BY <2>1, <2>2 DEF Scaled
  <2>4. IsFiniteSet(T) /\ p - 1 \in Int
    BY <2>2, FS_Interval
  <2>5. Sigma(w, T) = (p - 1) * Sigma(u, T)
    BY <2>3, <2>4, SumScales
  <2> QED
    BY <1>1, <2>2, <2>5 DEF SumOver, Sigma
<1> QED
  BY <1>1, <1>4, <1>5, <1>6


(* The closed form passes from one bar to the next along the recurrence    *)
(* the code computes.                                                      *)
LEMMA ClosedFormNext ==
    ASSUME NEW p \in Nat \ {0}, NEW n \in Nat, p <= n, NEW cs, Whole(cs, 1, n + 1),
           NEW e \in Int, NEW v \in Int, ClosedForm(p, n, cs, e),
           v * (p + 1) = 2 * cs[n + 1] + (p - 1) * e
    PROVE  ClosedForm(p, n + 1, cs, v)
<1>1. PICK m, k, c : m = n + 1 /\ k = n - p /\ c = cs[n + 1]
  OBVIOUS
<1>2. k \in Nat /\ m - p = k + 1 /\ c \in Int /\ Whole(cs, 1, p) /\ Whole(cs, 1, n)
  BY <1>1 DEF Whole
<1>3. PICK s \in Int : s = SumOver(cs, 1, p)
  BY <1>2, SumIsWhole
<1>4. PICK t \in Int : t = SumOver(Weights(p, n, cs), p + 1, n)
  <2>1. PICK u, q : u = Weights(p, n, cs) /\ q = p + 1
    OBVIOUS
  <2>2. \A j \in (p + 1)..n : u[j] \in Int
    BY <1>2, <2>1, WeightIsWhole
  <2>3. Whole(u, q, n) /\ q \in Int /\ n \in Int
    BY <2>1, <2>2 DEF Whole
  <2>4. SumOver(u, q, n) \in Int
    BY <2>3, SumIsWhole
  <2> QED
    BY <2>1, <2>4
<1>5. PICK a, b : a = Power(p + 1, k) /\ b = Power(p - 1, k)
  OBVIOUS
<1>6. /\ a \in Int /\ b \in Int
      /\ Power(p + 1, k + 1) = (p + 1) * a /\ Power(p - 1, k + 1) = (p - 1) * b
  BY <1>2, <1>5, PowerRules
<1>7. e * a * p = s * b + p * t
  BY <1>1, <1>3, <1>4, <1>5 DEF ClosedForm
<1>8. SumOver(Weights(p, m, cs), p + 1, m) = 2 * c * a + (p - 1) * t
  BY <1>1, <1>4, <1>5, WeightsGrow
<1>9. v * ((p + 1) * a) * p = s * ((p - 1) * b) + p * (2 * c * a + (p - 1) * t)
  <2>1. v * ((p + 1) * a) * p = (v * (p + 1)) * (a * p)
    BY <1>6
  <2>2. (2 * c + (p - 1) * e) * (a * p) = 2 * c * a * p + (p - 1) * (e * a * p)
    BY <1>2, <1>6
  <2>3. 2 * c * a * p + (p - 1) * (s * b + p * t)
            = s * ((p - 1) * b) + p * (2 * c * a + (p - 1) * t)
    BY <1>2, <1>6
  <2> QED
    BY <1>1, <1>7, <2>1, <2>2, <2>3
<1> QED
  BY <1>1, <1>2, <1>3, <1>6, <1>8, <1>9 DEF ClosedForm

(* The unit of the closes is fine enough for every exponential average the *)
(* series can reach: the seed divides by p, and each of the bars after it  *)
(* by p + 1.  Over one bar nothing is divided.                             *)
ExponentialUnit ==
    \A c \in Closes : \A p \in Periods : p \in 2..MaxBars =>
        \E k \in Int : c = k * (p * Power(p + 1, MaxBars - p))

(* An exponential average is what its closed form says, and leaves enough  *)
(* factors of p + 1 for the bars to come.                                  *)
LeavesFactors(p, i, v) == \E k \in Int : v = k * Power(p + 1, MaxBars - i)
EmaAt(p, i, cs, v) ==
    IF p = 1 THEN v = cs[i] ELSE ClosedForm(p, i, cs, v) /\ LeavesFactors(p, i, v)
EmaInv ==
    /\ Len(closes) <= MaxBars
    /\ \A p \in Periods : \A i \in p..Len(closes) : EmaAt(p, i, closes, ema[p][i])

(* The seed. *)
LEMMA EmaSeed ==
    ASSUME ExponentialUnit, NEW p \in Periods, NEW cs \in Seq(Closes), Len(cs) = p, p <= MaxBars
    PROVE  EmaAt(p, p, cs, SumOver(cs, 1, p) \div p)
<1>1. p \in Nat \ {0} /\ MaxBars \in Nat /\ \A j \in 1..p : cs[j] \in Closes /\ cs[j] \in Int
  <2>1. p \in Nat \ {0} /\ MaxBars \in Nat /\ \A x \in Closes : x \in Int
    BY CompilerAssumption
  <2>2. \A j \in 1..p : cs[j] \in Closes
    BY <2>1
  <2> QED
    BY <2>1, <2>2
<1>2. Whole(cs, 1, p)
  BY <1>1 DEF Whole
<1>3. CASE p = 1
  <2>1. PICK a, n : a = 1 /\ n = 0
    OBVIOUS
  <2>2. SumOver(cs, a, n + 1) = cs[n + 1] + SumOver(cs, a, n) /\ SumOver(cs, a, n) = 0
    BY <1>2, <1>3, <2>1, SumLast, SumEmpty
  <2>3. SumOver(cs, 1, 1) = cs[1] /\ cs[1] \in Int
    BY <1>1, <1>3, <2>1, <2>2
  <2>4. SumOver(cs, 1, 1) \div 1 = cs[1]
    BY <2>3
  <2> QED
    BY <1>3, <2>4 DEF EmaAt
<1>4. CASE p # 1
  <2>1. PICK w, d, T : w = Power(p + 1, MaxBars - p) /\ d = p * w /\ T = 1..p
    OBVIOUS
  <2>2. w \in Int /\ d \in Int
    BY <1>1, <2>1, PowerRules
  <2>3. Multiples(cs, T, d)
    <3>1. p \in 2..MaxBars
      BY <1>1, <1>4
    <3>2. ASSUME NEW j \in T PROVE \E k \in Int : cs[j] = k * d
      <4>1. cs[j] \in Closes
        BY <1>1, <2>1
      <4>2. \E k \in Int : cs[j] = k * (p * Power(p + 1, MaxBars - p))
        BY <3>1, <4>1, Zenon DEF ExponentialUnit
      <4> QED
        BY <2>1, <4>2, Zenon
    <3> QED
      BY <3>2 DEF Multiples
  <2>4. IsFiniteSet(T)
    BY <1>1, <2>1, FS_Interval
  <2>5. PICK k \in Int : Sigma(cs, T) = k * d
    BY <2>2, <2>3, <2>4, SumOfMultiples
  <2>6. PICK v \in Int : v = k * w
    BY <2>2
  <2>7. SumOver(cs, 1, p) = v * p
    <3>1. k * (p * w) = (k * w) * p
      BY <1>1, <2>2
    <3> QED
      BY <2>1, <2>5, <2>6, <3>1 DEF SumOver, Sigma
  <2>8. SumOver(cs, 1, p) \div p = v
    BY <1>1, <2>6, <2>7, DividesExactly
  <2>9. ClosedForm(p, p, cs, v)
    BY <1>1, <1>2, <2>6, <2>7, ClosedFormSeed
  <2>10. LeavesFactors(p, p, v)
    BY <2>1, <2>6 DEF LeavesFactors
  <2> QED
    BY <1>4, <2>8, <2>9, <2>10 DEF EmaAt
<1> QED
  BY <1>3, <1>4

(* The recurrence. *)
LEMMA EmaRecurs ==
    ASSUME ExponentialUnit, NEW p \in Periods, NEW n \in Nat, p <= n, n + 1 <= MaxBars,
           NEW cs \in Seq(Closes), Len(cs) = n + 1, NEW e \in Int, EmaAt(p, n, cs, e)
    PROVE  EmaAt(p, n + 1, cs, ((cs[n + 1] - e) * 2) \div (p + 1) + e)
<1>1. PICK c : c = cs[n + 1]
  OBVIOUS
<1>2. /\ p \in Nat \ {0} /\ MaxBars \in Nat /\ c \in Closes /\ c \in Int
      /\ \A j \in 1..(n + 1) : cs[j] \in Int
  <2>1. p \in Nat \ {0} /\ MaxBars \in Nat /\ \A x \in Closes : x \in Int
    BY CompilerAssumption
  <2>2. \A j \in 1..(n + 1) : cs[j] \in Closes
    OBVIOUS
  <2>3. n + 1 \in 1..(n + 1)
    OBVIOUS
  <2> QED
    BY <1>1, <2>1, <2>2, <2>3
<1>3. CASE p = 1
  <2>1. ((c - e) * 2) \div 2 = c - e
    BY <1>2
  <2>2. (c - e) + e = c
    BY <1>2
  <2> QED
    BY <1>1, <1>3, <2>1, <2>2 DEF EmaAt
<1>4. CASE p # 1
  <2>1. PICK r \in Nat : r = MaxBars - (n + 1)
    BY <1>2
  <2>2. PICK w, q : w = Power(p + 1, r) /\ q = p + 1
    OBVIOUS
  <2>3. w \in Int /\ q \in Nat \ {0} /\ Power(p + 1, r + 1) = q * w
    BY <1>2, <2>1, <2>2, PowerRules
  <2>4. PICK k \in Int : e = k * (q * w)
    <3>1. MaxBars - n = r + 1
      BY <1>2, <2>1
    <3> QED
      BY <1>4, <2>3, <3>1 DEF EmaAt, LeavesFactors
  <2>5. PICK j \in Int : c = j * (q * w)
    <3>1. p \in 2..MaxBars /\ MaxBars - p \in Nat /\ r + 1 <= MaxBars - p
      BY <1>2, <1>4, <2>1
    <3>2. PICK a \in Int : c = a * (p * Power(p + 1, MaxBars - p))
      BY <1>2, <3>1 DEF ExponentialUnit
    <3>3. PICK b \in Int : Power(p + 1, MaxBars - p) = b * Power(p + 1, r + 1)
      <4>1. PICK x, y, z : x = p + 1 /\ y = r + 1 /\ z = MaxBars - p
        OBVIOUS
      <4>2. x \in Int /\ y \in Nat /\ z \in Nat /\ y <= z
        BY <1>2, <3>1, <4>1
      <4> QED
        BY <4>1, <4>2, PowerDivides
    <3>4. c = a * (p * (b * (q * w)))
      BY <2>3, <3>2, <3>3
    <3>5. a * (p * (b * (q * w))) = (a * p * b) * (q * w) /\ a * p * b \in Int
      BY <1>2, <2>3
    <3> QED
      BY <3>4, <3>5
  <2>6. PICK d \in Int : d = (j - k) * 2 * w
    BY <2>3
  <2>7. (c - e) * 2 = d * q
    BY <2>3, <2>4, <2>5, <2>6
  <2>8. ((c - e) * 2) \div q = d
    BY <2>3, <2>7, DividesExactly
  <2>9. PICK v \in Int : v = d + e
    OBVIOUS
  <2>10. v * q = 2 * c + (p - 1) * e
    <3>1. v * q = d * q + e * q
      BY <2>3, <2>9
    <3>2. (c - e) * 2 + e * (p + 1) = 2 * c + (p - 1) * e
      BY <1>2
    <3> QED
      BY <2>2, <2>7, <3>1, <3>2
  <2>11. ClosedForm(p, n + 1, cs, v)
    <3>1. Whole(cs, 1, n + 1) /\ ClosedForm(p, n, cs, e)
      BY <1>2, <1>4 DEF Whole, EmaAt
    <3>2. v * (p + 1) = 2 * cs[n + 1] + (p - 1) * e
      BY <1>1, <2>2, <2>10
    <3> QED
      BY <1>2, <3>1, <3>2, ClosedFormNext
  <2>12. LeavesFactors(p, n + 1, v)
    <3>1. (j - k) * 2 * w + k * (q * w) = ((j - k) * 2 + k * q) * w /\ (j - k) * 2 + k * q \in Int
      BY <2>3
    <3> QED
      BY <2>1, <2>2, <2>4, <2>6, <2>9, <3>1 DEF LeavesFactors
  <2> QED
    BY <1>1, <1>4, <2>2, <2>8, <2>9, <2>11, <2>12 DEF EmaAt
<1> QED
  BY <1>3, <1>4


LEMMA EmaStep ==
    ASSUME ExponentialUnit, CompilerInv, EmaInv, NEW c \in Closes, NextBar(c)
    PROVE  EmaInv'
<1>1. PICK s, n, l : s = closes /\ n = Len(s) /\ l = Append(s, c)
  OBVIOUS
<1>2. /\ s \in Seq(Closes) /\ n \in Nat /\ l \in Seq(Closes) /\ Len(l) = n + 1
      /\ l[n + 1] = c /\ \A j \in 1..n : s[j] = l[j]
      /\ closes' = l /\ n + 1 <= MaxBars
  BY <1>1, CompilerAssumption DEF CompilerInv, NextBar
<1>3. \A j \in 1..n : s[j] \in Int
  <2>1. \A x \in Closes : x \in Int
    BY CompilerAssumption
  <2> QED
    BY <1>2, <2>1
<1>4. ASSUME NEW p \in Periods, NEW i \in p..(n + 1) PROVE EmaAt(p, i, l, ema'[p][i])
  <2>1. p \in Nat \ {0} /\ i \in Nat
    BY CompilerAssumption
  <2>2. PICK f, v : f = ema[p] /\ v = exponential_moving_averages(p, c)
    OBVIOUS
  <2>3. ema'[p] = Append(f, v) /\ f \in Seq(Int \cup {None}) /\ Len(f) = n
    BY <1>1, <2>2 DEF NextBar, CompilerInv, Warm
  <2>4. ASSUME NEW k \in p..n PROVE EmaAt(p, k, l, f[k])
    <3>1. EmaAt(p, k, s, f[k])
      BY <1>1, <2>2 DEF EmaInv
    <3>2. k \in Nat /\ p <= k /\ k \in 1..n
      BY <1>2, <2>1
    <3>3. Whole(s, 1, k) /\ Alike(s, l, 1, k)
      <4>1. \A j \in 1..k : j \in 1..n
        BY <1>2, <3>2
      <4> QED
        BY <1>2, <1>3, <4>1 DEF Whole, Alike
    <3>4. CASE p = 1
      BY <1>2, <3>1, <3>2, <3>4 DEF EmaAt
    <3>5. CASE p # 1
      <4>1. ClosedForm(p, k, s, f[k]) /\ LeavesFactors(p, k, f[k])
        BY <3>1, <3>5 DEF EmaAt
      <4>2. PICK x : x = f[k]
        OBVIOUS
      <4>3. ClosedForm(p, k, l, x)
        BY <2>1, <3>2, <3>3, <4>1, <4>2, ClosedFormAgrees
      <4> QED
        BY <3>5, <4>1, <4>2, <4>3 DEF EmaAt
    <3> QED
      BY <3>4, <3>5
  <2>5. CASE i \in p..n
    <3>1. i \in 1..n
      BY <1>2, <2>1, <2>5
    <3>2. ema'[p][i] = f[i]
      BY <1>2, <2>3, <3>1
    <3> QED
      BY <2>4, <2>5, <3>2
  <2>6. CASE i = n + 1
    <3>1. ema'[p][i] = v
      BY <1>2, <2>3, <2>6
    <3>2. CASE i = p
      <4>1. v = SumOver(l, 1, p) \div p
        BY <1>1, <1>2, <2>1, <2>2, <2>6, <3>2 DEF exponential_moving_averages
      <4>2. EmaAt(p, p, l, SumOver(l, 1, p) \div p)
        <5>1. p <= MaxBars /\ Len(l) = p
          BY <1>2, <2>6, <3>2
        <5> QED
          BY <1>2, <5>1, EmaSeed
      <4> QED
        BY <3>1, <3>2, <4>1, <4>2
    <3>3. CASE i # p
      <4>1. p <= n /\ n \in p..n /\ n \in 1..n /\ n + 1 # p /\ ~(n + 1 < p) /\ (n + 1) - 1 = n
        BY <1>2, <2>1, <2>6, <3>3
      <4>2. PICK e \in Int : e = f[n]
        <5>1. \A k \in 1..n : IF k < p THEN f[k] = None ELSE f[k] \in Int
          BY <1>1, <2>2 DEF CompilerInv, Warm
        <5>2. ~(n < p)
          BY <1>2, <2>1, <4>1
        <5> QED
          BY <4>1, <5>1, <5>2
      <4>3. v = ((c - e) * 2) \div (p + 1) + e
        BY <1>1, <2>2, <4>1, <4>2 DEF exponential_moving_averages
      <4>4. EmaAt(p, n, l, e)
        BY <2>4, <4>1, <4>2
      <4>5. EmaAt(p, n + 1, l, ((l[n + 1] - e) * 2) \div (p + 1) + e)
        BY <1>2, <4>1, <4>2, <4>4, EmaRecurs
      <4> QED
        BY <1>2, <2>6, <3>1, <4>3, <4>5
    <3> QED
      BY <3>2, <3>3
  <2> QED
    BY <1>2, <2>1, <2>5, <2>6
<1> QED
  BY <1>2, <1>4 DEF EmaInv

(* In a unit that is fine enough, the averages a preview computes are      *)
(* exactly the ones they stand for, at every bar of every series and for   *)
(* every period: the rolling total loses nothing, and the exponential      *)
(* recurrence weighs each close as its closed form says.  Only the         *)
(* rounding of a coarser unit separates the code's values from these.      *)
THEOREM AveragesExact == FineUnit /\ ExponentialUnit => (PreviewSpec => []AveragesAreExact)
<1> SUFFICES ASSUME FineUnit, ExponentialUnit PROVE PreviewSpec => []AveragesAreExact
  OBVIOUS
<1>1. PreviewInit => EmaInv
  <2> SUFFICES ASSUME PreviewInit PROVE EmaInv
    OBVIOUS
  <2>1. closes = << >> /\ Len(closes) = 0 /\ Len(closes) <= MaxBars
    BY CompilerAssumption DEF PreviewInit, Init
  <2>2. \A p \in Periods : p..0 = {}
    BY CompilerAssumption
  <2> QED
    BY <2>1, <2>2 DEF EmaInv
<1>2. LoadInv /\ EmaInv /\ [PreviewNext]_previewVars => EmaInv'
  <2> SUFFICES ASSUME LoadInv, EmaInv, [PreviewNext]_previewVars PROVE EmaInv'
    OBVIOUS
  <2>1. ASSUME NEW b \in Bars, LoadBar(b) PROVE EmaInv'
    <3>1. b.close \in Closes /\ NextBar(b.close)
      BY <2>1, PreviewAssumption DEF LoadBar
    <3> QED
      BY <3>1, EmaStep DEF LoadInv
  <2>2. CASE ~\E b \in Bars : LoadBar(b)
    <3>1. UNCHANGED <<closes, ema>>
      BY <2>2 DEF PreviewNext, MarketDataUnavailable, Execute, ExecuteBar, Mark,
                  FinishExecution, previewVars, compilerVars
    <3> QED
      BY <3>1 DEF EmaInv
  <2> QED
    BY <2>1, <2>2
<1>3. LoadInv /\ SimpleAveragesAreExact /\ EmaInv => AveragesAreExact
  <2> SUFFICES ASSUME LoadInv, SimpleAveragesAreExact, EmaInv, NEW p \in Periods
      PROVE  /\ DOMAIN sma[p] = DOMAIN closes /\ DOMAIN ema[p] = DOMAIN closes
             /\ \A i \in DOMAIN closes :
                    IF i < p THEN sma[p][i] = None /\ ema[p][i] = None
                    ELSE IsSimpleAverage(p, i) /\ IsExponentialAverage(p, i)
    BY DEF AveragesAreExact
  <2>1. p \in Nat \ {0} /\ closes \in Seq(Closes) /\ Len(closes) \in Nat
        /\ DOMAIN closes = 1..Len(closes)
        /\ Warm(p, sma[p], Len(closes)) /\ Warm(p, ema[p], Len(closes))
    BY CompilerAssumption DEF LoadInv, CompilerInv
  <2>2. DOMAIN sma[p] = DOMAIN closes /\ DOMAIN ema[p] = DOMAIN closes
    BY <2>1 DEF Warm
  <2>3. ASSUME NEW i \in DOMAIN closes, i < p PROVE sma[p][i] = None /\ ema[p][i] = None
    BY <2>1, <2>3 DEF Warm
  <2>4. ASSUME NEW i \in DOMAIN closes, ~(i < p)
        PROVE  IsSimpleAverage(p, i) /\ IsExponentialAverage(p, i)
    <3>1. i >= p /\ i \in p..Len(closes)
      BY <2>1, <2>4
    <3>2. IsSimpleAverage(p, i)
      BY <3>1 DEF SimpleAveragesAreExact
    <3>3. EmaAt(p, i, closes, ema[p][i])
      BY <3>1 DEF EmaInv
    <3>4. IsExponentialAverage(p, i)
      BY <3>3 DEF EmaAt, ClosedForm, Weights, IsExponentialAverage
    <3> QED
      BY <3>2, <3>4
  <2> QED
    BY <2>2, <2>3, <2>4
<1> QED
  BY <1>1, <1>2, <1>3, AlwaysLoaded, SimpleAveragesExact, PTL DEF PreviewSpec
=============================================================================
