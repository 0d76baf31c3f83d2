--------------------------- MODULE LockPoolProofs ---------------------------
(***************************************************************************)
(* Theorems about AdvisoryLockPool, for any number of threads and          *)
(* connections and any pool size.                                          *)
(***************************************************************************)
EXTENDS AdvisoryLockPool, FiniteSetTheorems, SequenceTheorems, TLAPS

TypeInv ==
    /\ pc \in [Threads -> Section \cup {"lock", "read", "close", "done"}]
    /\ conn \in [Threads -> Conns \cup {None}]
    /\ idle \in Seq(Conns)
    /\ open \in SUBSET Conns
    /\ held \in [Conns -> SUBSET Submitters]
    /\ dropped \in SUBSET Submitters
    /\ \A t \in Threads : pc[t] \in Section \cup {"lock"} => t \in Submitters

(* Every connection has one user: it is in the pool once, or one session   *)
(* has it, or it is closed and its PostgreSQL session with it.             *)
ConnInv ==
    /\ \A k \in 1..Len(idle) : idle[k] \in open
    /\ \A k, l \in 1..Len(idle) : idle[k] = idle[l] => k = l
    /\ \A t \in Threads : conn[t] # None =>
          /\ conn[t] \in open
          /\ \A k \in 1..Len(idle) : idle[k] # conn[t]
          /\ \A u \in Threads : conn[u] = conn[t] => u = t
    /\ \A c \in Conns \ open : held[c] = {}

(* What a statement does to the pool. *)
LEMMA StatementTypes ==
    ASSUME TypeInv, NEW t \in Threads, NEW c \in Conns, NEW locks \in SUBSET Submitters,
           StatementOn(t, c, locks)
    PROVE  /\ conn' = [conn EXCEPT ![t] = c]
           /\ idle' \in Seq(Conns) /\ open' \in SUBSET Conns
           /\ dropped' \in SUBSET Submitters
           /\ held[c] \subseteq locks \cup dropped' /\ dropped \subseteq dropped'
<1> USE DEF TypeInv
<1>1. conn' = [conn EXCEPT ![t] = c]
  BY DEF StatementOn
<1>2. idle' \in Seq(Conns)
  <2>1. idle # << >> => Tail(idle) \in Seq(Conns)
    BY HeadTailProperties
  <2> QED
    BY <2>1 DEF StatementOn
<1>3. open' \in SUBSET Conns /\ dropped' \in SUBSET Submitters
  BY DEF StatementOn
<1>4. held[c] \subseteq locks \cup dropped' /\ dropped \subseteq dropped'
  BY DEF StatementOn
<1> QED
  BY <1>1, <1>2, <1>3, <1>4

LEMMA GiveBackTypes ==
    ASSUME TypeInv, NEW t \in Threads, GiveBack(t)
    PROVE  /\ conn' \in [Threads -> Conns \cup {None}]
           /\ idle' \in Seq(Conns) /\ open' \in SUBSET Conns
           /\ held' \in [Conns -> SUBSET Submitters] /\ dropped' \in SUBSET Submitters
           /\ \A c \in Conns : held[c] \subseteq held'[c] \cup dropped'
           /\ dropped \subseteq dropped'
<1> USE DEF TypeInv
<1>1. CASE conn[t] = None
  BY <1>1 DEF GiveBack
<1>2. CASE conn[t] # None /\ Len(idle) < PoolSize
  <2>1. <<conn[t]>> \in Seq(Conns)
    BY <1>2
  <2>2. <<conn[t]>> \o idle \in Seq(Conns)
    BY <2>1, ConcatProperties
  <2> QED
    BY <1>2, <2>2 DEF GiveBack
<1>3. CASE conn[t] # None /\ ~(Len(idle) < PoolSize)
  BY <1>3 DEF GiveBack
<1> QED
  BY <1>1, <1>2, <1>3

(* Locks only leave by being released or dropped. *)

LEMMA StatementCovers ==
    ASSUME TypeInv, LockCoversSubmission, NEW t \in Threads, 
           NEW next \in Section \cup {"close", "done"},
           NEW c \in Conns, NEW locks \in SUBSET Submitters, NEW new \in SUBSET Submitters,
           StatementOn(t, c, locks), held' = [held EXCEPT ![c] = new], Goto(t, next),
           locks \ {t} \subseteq new,
           next \in Section => pc[t] \in Section \cup {"lock"},
           next \in Section => t \in new \/ (pc[t] \in Section /\ locks \subseteq new)
    PROVE  TypeInv' /\ LockCoversSubmission'
<1>1. /\ conn' = [conn EXCEPT ![t] = c]
      /\ idle' \in Seq(Conns) /\ open' \in SUBSET Conns
      /\ dropped' \in SUBSET Submitters
      /\ held[c] \subseteq locks \cup dropped' /\ dropped \subseteq dropped'
  BY StatementTypes
<1>2. TypeInv'
  BY <1>1 DEF TypeInv, Goto
<1>3. ASSUME NEW s \in Submitters, pc'[s] \in Section
      PROVE  LockedSomewhere(s)' \/ s \in dropped'
  <2>1. CASE s = t /\ t \in new
    BY <2>1 DEF LockedSomewhere, TypeInv
  <2>2. CASE ~(s = t /\ t \in new)
    <3>1. pc[s] \in Section /\ (s \in locks => s \in new)
      BY <1>3, <2>2 DEF Goto, TypeInv, Threads
    <3>2. CASE s \in dropped
      BY <1>1, <3>2
    <3>3. CASE s \notin dropped
      <4>1. PICK d \in Conns : s \in held[d]
        BY <3>1, <3>3 DEF LockCoversSubmission, LockedSomewhere
      <4>2. CASE d = c
        BY <1>1, <3>1, <4>1, <4>2 DEF LockedSomewhere, TypeInv
      <4>3. CASE d # c
        BY <4>1, <4>3 DEF LockedSomewhere, TypeInv
      <4> QED
        BY <4>2, <4>3
    <3> QED
      BY <3>2, <3>3
  <2> QED
    BY <2>1, <2>2
<1> QED
  BY <1>2, <1>3 DEF LockCoversSubmission

LEMMA GiveBackCovers ==
    ASSUME TypeInv, LockCoversSubmission, NEW t \in Threads, 
           NEW next \in Section \cup {"close", "done"},
           GiveBack(t), Goto(t, next), next \in Section => pc[t] \in Section
    PROVE  TypeInv' /\ LockCoversSubmission'
<1>1. TypeInv'
  BY GiveBackTypes DEF TypeInv, Goto
<1>2. ASSUME NEW s \in Submitters, pc'[s] \in Section
      PROVE  LockedSomewhere(s)' \/ s \in dropped'
  <2>1. pc[s] \in Section
    BY <1>2 DEF Goto, TypeInv, Threads
  <2>2. LockedSomewhere(s) \/ s \in dropped
    BY <2>1 DEF LockCoversSubmission
  <2> QED
    BY <2>2, GiveBackTypes DEF LockedSomewhere
<1> QED
  BY <1>1, <1>2 DEF LockCoversSubmission

LEMMA CoversStep ==
    ASSUME TypeInv, LockCoversSubmission, [Next]_vars
    PROVE  TypeInv' /\ LockCoversSubmission'
<1>1. CASE UNCHANGED vars
  BY <1>1 DEF vars, TypeInv, LockCoversSubmission, LockedSomewhere
<1>2. ASSUME NEW t \in Threads, Step(t) \/ PoolTimeout(t)
      PROVE  TypeInv' /\ LockCoversSubmission'
  <2>1. CASE AcquireLock(t)
    <3>1. PICK c \in Conns, locks \in SUBSET Submitters :
              StatementOn(t, c, locks) /\ held' = [held EXCEPT ![c] = locks \cup {t}]
      BY <2>1 DEF AcquireLock
    <3>2. t \in Submitters /\ pc[t] = "lock" /\ Goto(t, "create")
      BY <2>1 DEF AcquireLock, TypeInv
    <3>3. "create" \in Section \cup {"close", "done"}
      BY DEF Section
    <3>4. locks \cup {t} \in SUBSET Submitters
      BY <3>2
    <3> QED
      BY <3>1, <3>2, <3>3, <3>4, StatementCovers
  <2>2. CASE RefreshJob(t) \/ Read(t)
    <3>1. PICK c \in Conns, locks \in SUBSET Submitters :
              StatementOn(t, c, locks) /\ held' = [held EXCEPT ![c] = locks]
      BY <2>2 DEF RefreshJob, Read, Query
    <3>2. \/ pc[t] = "refresh" /\ Goto(t, "enqueue")
          \/ pc[t] = "read" /\ Goto(t, "close")
      BY <2>2 DEF RefreshJob, Read
    <3>3. "refresh" \in Section /\ "enqueue" \in Section /\ "close" \notin Section
      BY DEF Section
    <3>4. CASE pc[t] = "refresh" /\ Goto(t, "enqueue")
      BY <3>1, <3>3, <3>4, StatementCovers
    <3>5. CASE pc[t] = "read" /\ Goto(t, "close")
      BY <3>1, <3>3, <3>5, StatementCovers
    <3> QED
      BY <3>2, <3>4, <3>5
  <2>3. CASE ReleaseLock(t)
    <3>1. PICK c \in Conns, locks \in SUBSET Submitters :
              StatementOn(t, c, locks) /\ held' = [held EXCEPT ![c] = locks \ {t}]
      BY <2>3 DEF ReleaseLock
    <3>2. Goto(t, "close") /\ "close" \notin Section
      BY <2>3 DEF ReleaseLock, Section
    <3>3. locks \ {t} \in SUBSET Submitters
      OBVIOUS
    <3> QED
      BY <3>1, <3>2, <3>3, StatementCovers
  <2>4. CASE CommitCreate(t) \/ CommitFailed(t) \/ Rollback(t) \/ CloseSession(t)
    <3>1. PICK next \in Section \cup {"close", "done"} :
              GiveBack(t) /\ Goto(t, next) /\ (next \in Section => pc[t] \in Section)
      BY <2>4 DEF CommitCreate, CommitFailed, Rollback, CloseSession, Section
    <3> QED
      BY <3>1, GiveBackCovers
  <2>5. CASE Enqueue(t) \/ PoolTimeout(t)
    <3>1. PICK next \in Section \cup {"close"} :
              Goto(t, next) /\ (next \in Section => pc[t] \in Section)
      BY <2>5 DEF Enqueue, PoolTimeout, Section
    <3>2. UNCHANGED <<conn, idle, open, held, dropped>>
      BY <2>5 DEF Enqueue, PoolTimeout
    <3> QED
      BY <3>1, <3>2 DEF Goto, TypeInv, LockCoversSubmission, LockedSomewhere, Threads
  <2> QED
    BY <1>2, <2>1, <2>2, <2>3, <2>4, <2>5 DEF Step
<1> QED
  BY <1>1, <1>2 DEF Next

LEMMA AtFirst == Init => TypeInv /\ LockCoversSubmission
<1>1. "lock" \notin Section /\ "read" \notin Section
  BY DEF Section
<1> QED
  BY <1>1 DEF Init, TypeInv, LockCoversSubmission, Threads

(* Sessions, pool and PostgreSQL locks keep their types for any number of  *)
(* threads and connections.                                                *)
THEOREM TypeCorrect == Spec => []TypeInv
<1>1. TypeInv /\ LockCoversSubmission /\ [Next]_vars => TypeInv' /\ LockCoversSubmission'
  BY CoversStep
<1> QED
  BY <1>1, AtFirst, PTL DEF Spec

(* The lock of a submission is held by some PostgreSQL session, although   *)
(* not always by the one the submission is using, from the statement that  *)
(* takes it to the one that releases it, unless the pool has closed a      *)
(* connection that carried it: for any number of requests and any pool.    *)
THEOREM LockCovers == Spec => []LockCoversSubmission
<1>1. TypeInv /\ LockCoversSubmission /\ [Next]_vars => TypeInv' /\ LockCoversSubmission'
  BY CoversStep
<1> QED
  BY <1>1, AtFirst, PTL DEF Spec

-----------------------------------------------------------------------------
(* Who has which connection. *)

LEMMA StatementConn ==
    ASSUME TypeInv, ConnInv, NEW t \in Threads, NEW c \in Conns,
           NEW locks \in SUBSET Submitters, NEW new \in SUBSET Submitters,
           StatementOn(t, c, locks), held' = [held EXCEPT ![c] = new]
    PROVE  ConnInv' /\ (~MayRecycle => dropped' = dropped)
<1>1. CASE conn[t] = c /\ locks = held[c] /\ UNCHANGED <<conn, idle, open>>
  <2>1. c \in open /\ dropped' = dropped
    BY <1>1, PoolAssumption DEF ConnInv, StatementOn
  <2> QED
    BY <1>1, <2>1 DEF ConnInv, TypeInv
<1>2. CASE /\ conn[t] = None /\ idle # << >> /\ c = Head(idle)
           /\ locks = held[c] \/ (MayRecycle /\ locks = {})
           /\ idle' = Tail(idle) /\ conn' = [conn EXCEPT ![t] = c] /\ open' = open
  <2>1. /\ Len(idle') = Len(idle) - 1 /\ Len(idle) \in Nat /\ Len(idle) > 0
        /\ \A k \in 1..Len(idle') : idle'[k] = idle[k + 1]
        /\ c = idle[1]
    <3>1. Len(idle) \in Nat /\ Len(idle) > 0
      BY <1>2, LenProperties, EmptySeq DEF TypeInv
    <3> QED
      BY <1>2, <3>1, HeadTailProperties DEF TypeInv
  <2>2. c \in open
    BY <2>1 DEF ConnInv
  <2>3. \A k \in 1..Len(idle') : k + 1 \in 1..Len(idle) /\ k + 1 # 1
    BY <2>1
  <2>4. /\ \A k \in 1..Len(idle') : idle'[k] \in open' /\ idle'[k] # c
        /\ \A k, l \in 1..Len(idle') : idle'[k] = idle'[l] => k = l
    BY <1>2, <2>1, <2>3 DEF ConnInv
  <2>5. \A u \in Threads : conn[u] # c
    BY <2>1, PoolAssumption DEF ConnInv
  <2>6. ASSUME NEW u \in Threads, conn'[u] # None
        PROVE  /\ conn'[u] \in open'
               /\ \A k \in 1..Len(idle') : idle'[k] # conn'[u]
               /\ \A v \in Threads : conn'[v] = conn'[u] => v = u
    <3>1. CASE u = t
      BY <1>2, <2>2, <2>4, <2>5, <3>1 DEF TypeInv
    <3>2. CASE u # t
      <4>1. conn'[u] = conn[u]
        BY <1>2, <3>2 DEF TypeInv
      <4> QED
        BY <1>2, <2>1, <2>3, <2>5, <2>6, <3>2, <4>1 DEF TypeInv, ConnInv
    <3> QED
      BY <3>1, <3>2
  <2>7. \A d \in Conns \ open' : held'[d] = {}
    BY <1>2, <2>2 DEF ConnInv, TypeInv
  <2>8. ~MayRecycle => dropped' = dropped
    BY <1>2 DEF StatementOn
  <2> QED
    BY <2>4, <2>6, <2>7, <2>8 DEF ConnInv
<1>3. CASE /\ conn[t] = None /\ idle = << >> /\ c \notin open /\ locks = {}
           /\ open' = open \cup {c} /\ conn' = [conn EXCEPT ![t] = c] /\ idle' = idle
  <2>1. held[c] = {} /\ dropped' = dropped
    BY <1>3 DEF ConnInv, StatementOn
  <2>2. \A u \in Threads : conn[u] # c
    BY <1>3, PoolAssumption DEF ConnInv
  <2>3. \A k \in 1..Len(idle) : idle[k] \in open /\ idle[k] # c
    BY <1>3 DEF ConnInv
  <2>4. ASSUME NEW u \in Threads, conn'[u] # None
        PROVE  /\ conn'[u] \in open'
               /\ \A k \in 1..Len(idle') : idle'[k] # conn'[u]
               /\ \A v \in Threads : conn'[v] = conn'[u] => v = u
    <3>1. CASE u = t
      BY <1>3, <2>2, <2>3, <3>1 DEF TypeInv
    <3>2. CASE u # t
      <4>1. conn'[u] = conn[u]
        BY <1>3, <3>2 DEF TypeInv
      <4> QED
        BY <1>3, <2>2, <2>3, <2>4, <3>2, <4>1 DEF TypeInv, ConnInv
    <3> QED
      BY <3>1, <3>2
  <2>5. \A d \in Conns \ open' : held'[d] = {}
    BY <1>3 DEF ConnInv, TypeInv
  <2> QED
    BY <1>3, <2>1, <2>3, <2>4, <2>5 DEF ConnInv
<1> QED
  BY <1>1, <1>2, <1>3 DEF StatementOn

(* Giving a connection back.  Each connection being once in the pool or    *)
(* with one session, the pool has room for it if it may hold them all.     *)
LEMMA GiveBackConn ==
    ASSUME TypeInv, ConnInv, NEW t \in Threads, GiveBack(t)
    PROVE  ConnInv' /\ (Cardinality(Conns) <= PoolSize => dropped' = dropped)
<1>0. Len(idle) \in Nat
  BY LenProperties DEF TypeInv
<1>1. CASE conn[t] = None
  <2>1. conn' = conn
    BY <1>1 DEF GiveBack, TypeInv
  <2> QED
    BY <1>1, <2>1 DEF GiveBack, ConnInv
<1>2. CASE conn[t] # None
  <2>1. PICK c \in Conns : c = conn[t]
    BY <1>2 DEF TypeInv
  <2>2. /\ c \in open /\ \A k \in 1..Len(idle) : idle[k] # c
        /\ \A u \in Threads : u # t => conn[u] # c
    BY <1>2, <2>1 DEF ConnInv
  <2>3. /\ conn' = [conn EXCEPT ![t] = None]
        /\ \A u \in Threads : conn'[u] # None => u # t /\ conn'[u] = conn[u]
    BY DEF GiveBack, TypeInv
  <2>4. Len(idle) + 1 <= Cardinality(Conns) /\ Cardinality(Conns) \in Nat
    <3> DEFINE f == [k \in 1..(Len(idle) + 1) |-> IF k = 1 THEN c ELSE idle[k - 1]]
    <3>1. \A k \in 1..(Len(idle) + 1) : k # 1 => k - 1 \in 1..Len(idle)
      BY <1>0
    <3>2. \A k \in 1..Len(idle) : idle[k] \in Conns
      BY ElementOfSeq DEF TypeInv
    <3>3. f \in [1..(Len(idle) + 1) -> Conns]
      BY <3>1, <3>2
    <3>4. \A k, l \in 1..(Len(idle) + 1) : f[k] = f[l] => k = l
      BY <1>0, <2>2, <3>1 DEF ConnInv
    <3>5. f \in Injection(1..(Len(idle) + 1), Conns)
      BY <3>3, <3>4 DEF Injection, IsInjective
    <3>6. Cardinality(1..(Len(idle) + 1)) <= Cardinality(Conns)
      BY <3>5, FS_Injection, PoolAssumption
    <3>7. Cardinality(1..(Len(idle) + 1)) = Len(idle) + 1
      BY <1>0, FS_Interval
    <3>8. Cardinality(Conns) \in Nat
      BY PoolAssumption, FS_CardinalityType
    <3> QED
      BY <3>6, <3>7, <3>8
  <2>5. CASE Len(idle) < PoolSize
    <3>1. /\ idle' = <<c>> \o idle /\ open' = open /\ held' = held /\ dropped' = dropped
      BY <1>2, <2>1, <2>5 DEF GiveBack
    <3>2. /\ Len(idle') = Len(idle) + 1
          /\ \A k \in 1..Len(idle') : idle'[k] = IF k = 1 THEN c ELSE idle[k - 1]
      <4>1. <<c>> \in Seq(Conns) /\ Len(<<c>>) = 1 /\ <<c>>[1] = c
        OBVIOUS
      <4> QED
        BY <1>0, <3>1, <4>1, ConcatProperties DEF TypeInv
    <3>3. \A k \in 1..Len(idle') : k # 1 => k - 1 \in 1..Len(idle)
      BY <1>0, <3>2
    <3>4. /\ \A k \in 1..Len(idle') : idle'[k] \in open'
          /\ \A k, l \in 1..Len(idle') : idle'[k] = idle'[l] => k = l
      BY <1>0, <2>2, <3>1, <3>2, <3>3 DEF ConnInv
    <3>5. ASSUME NEW u \in Threads, conn'[u] # None
          PROVE  /\ conn'[u] \in open'
                 /\ \A k \in 1..Len(idle') : idle'[k] # conn'[u]
                 /\ \A v \in Threads : conn'[v] = conn'[u] => v = u
      <4>1. conn[u] # None /\ conn[u] # c /\ conn'[u] = conn[u]
        BY <2>2, <2>3, <3>5
      <4>2. \A k \in 1..Len(idle') : idle'[k] # conn'[u]
        BY <3>2, <3>3, <4>1 DEF ConnInv
      <4>3. \A v \in Threads : conn'[v] = conn'[u] => v = u
        BY <2>3, <3>5, <4>1 DEF ConnInv
      <4> QED
        BY <3>1, <4>1, <4>2, <4>3 DEF ConnInv
    <3> QED
      BY <3>1, <3>4, <3>5 DEF ConnInv
  <2>6. CASE ~(Len(idle) < PoolSize)
    <3>1. /\ idle' = idle /\ open' = open \ {c} /\ held' = [held EXCEPT ![c] = {}]
      BY <1>2, <2>1, <2>6 DEF GiveBack
    <3>2. ~(Cardinality(Conns) <= PoolSize)
      BY <1>0, <2>4, <2>6, PoolAssumption
    <3>3. \A k \in 1..Len(idle') : idle'[k] \in open'
      BY <2>2, <3>1 DEF ConnInv
    <3>4. ASSUME NEW u \in Threads, conn'[u] # None
          PROVE  /\ conn'[u] \in open'
                 /\ \A k \in 1..Len(idle') : idle'[k] # conn'[u]
                 /\ \A v \in Threads : conn'[v] = conn'[u] => v = u
      <4>1. conn[u] # None /\ conn[u] # c /\ conn'[u] = conn[u]
        BY <2>2, <2>3, <3>4
      <4>2. \A v \in Threads : conn'[v] = conn'[u] => v = u
        BY <2>3, <3>4, <4>1 DEF ConnInv
      <4> QED
        BY <3>1, <4>1, <4>2 DEF ConnInv
    <3>5. \A d \in Conns \ open' : held'[d] = {}
      BY <3>1 DEF ConnInv, TypeInv
    <3>6. \A k, l \in 1..Len(idle') : idle'[k] = idle'[l] => k = l
      BY <3>1 DEF ConnInv
    <3> QED
      BY <3>2, <3>3, <3>4, <3>5, <3>6 DEF ConnInv
  <2> QED
    BY <2>5, <2>6
<1> QED
  BY <1>1, <1>2

(* A pool that never closes a connection: none grows old, and it may keep  *)
(* as many as it may open (database_max_overflow = 0).                     *)
KeepsConnections == ~MayRecycle /\ Cardinality(Conns) <= PoolSize

LEMMA ConnStep ==
    ASSUME TypeInv, ConnInv, [Next]_vars
    PROVE  ConnInv' /\ (KeepsConnections => dropped' = dropped)
<1>1. CASE UNCHANGED vars
  BY <1>1 DEF vars, ConnInv
<1>2. ASSUME NEW t \in Threads, Step(t) \/ PoolTimeout(t)
      PROVE  ConnInv' /\ (KeepsConnections => dropped' = dropped)
  <2>1. CASE AcquireLock(t) \/ RefreshJob(t) \/ Read(t) \/ ReleaseLock(t)
    <3>1. AcquireLock(t) => t \in Submitters
      BY DEF AcquireLock, TypeInv
    <3>2. PICK c \in Conns, locks \in SUBSET Submitters, new \in SUBSET Submitters :
              StatementOn(t, c, locks) /\ held' = [held EXCEPT ![c] = new]
      <4>1. CASE AcquireLock(t)
        <5>1. PICK c \in Conns, locks \in SUBSET Submitters :
                  StatementOn(t, c, locks) /\ held' = [held EXCEPT ![c] = locks \cup {t}]
          BY <4>1 DEF AcquireLock
        <5>2. locks \cup {t} \in SUBSET Submitters
          BY <3>1, <4>1
        <5> QED
          BY <5>1, <5>2
      <4>2. CASE RefreshJob(t) \/ Read(t)
        BY <4>2 DEF RefreshJob, Read, Query
      <4>3. CASE ReleaseLock(t)
        <5>1. PICK c \in Conns, locks \in SUBSET Submitters :
                  StatementOn(t, c, locks) /\ held' = [held EXCEPT ![c] = locks \ {t}]
          BY <4>3 DEF ReleaseLock
        <5>2. locks \ {t} \in SUBSET Submitters
          OBVIOUS
        <5> QED
          BY <5>1, <5>2
      <4> QED
        BY <2>1, <4>1, <4>2, <4>3
    <3> QED
      BY <3>2, StatementConn DEF KeepsConnections
  <2>2. CASE CommitCreate(t) \/ CommitFailed(t) \/ Rollback(t) \/ CloseSession(t)
    <3>1. GiveBack(t)
      BY <2>2 DEF CommitCreate, CommitFailed, Rollback, CloseSession
    <3> QED
      BY <3>1, GiveBackConn DEF KeepsConnections
  <2>3. CASE Enqueue(t) \/ PoolTimeout(t)
    <3>1. UNCHANGED <<conn, idle, open, held, dropped>>
      BY <2>3 DEF Enqueue, PoolTimeout
    <3> QED
      BY <3>1 DEF ConnInv
  <2> QED
    BY <1>2, <2>1, <2>2, <2>3 DEF Step
<1> QED
  BY <1>1, <1>2 DEF Next

(* No two requests ever share a connection, none is twice in the pool, and *)
(* a connection the pool has closed holds no lock.                         *)
THEOREM ConnectionsHaveOneUser == Spec => []ConnInv
<1>1. Init => ConnInv
  BY DEF Init, ConnInv
<1>2. TypeInv /\ ConnInv /\ [Next]_vars => ConnInv'
  BY ConnStep
<1> QED
  BY <1>1, <1>2, TypeCorrect, PTL DEF Spec

(* While a pool that keeps its connections serves the requests, the lock   *)
(* of a submission is held without a gap until its finally block.          *)
HeldThroughout == \A t \in Submitters : pc[t] \in Section => LockedSomewhere(t)

(* A pool that may keep as many connections as it may open, none of which  *)
(* grows old, never loses the lock of a submission: with such a pool the   *)
(* preview pipeline has no fault "api_close", and no job is exposed.       *)
THEOREM KeptPoolKeepsLocks == KeepsConnections => (Spec => []HeldThroughout)
<1> SUFFICES ASSUME KeepsConnections
             PROVE  Spec => []HeldThroughout
  OBVIOUS
<1>1. Init => dropped = {}
  BY DEF Init
<1>2. TypeInv /\ ConnInv /\ dropped = {} /\ [Next]_vars => (dropped = {})'
  BY ConnStep
<1>3. LockCoversSubmission /\ dropped = {} => HeldThroughout
  BY DEF LockCoversSubmission, HeldThroughout
<1> QED
  BY <1>1, <1>2, <1>3, TypeCorrect, ConnectionsHaveOneUser, LockCovers, PTL DEF Spec

=============================================================================
