----------------------- MODULE PreviewPipelineProofs -----------------------
(***************************************************************************)
(* Theorems about PreviewPipeline, for any sets of jobs, workers and RQ    *)
(* identifiers, any retry limit and any number of faults.  In this order:  *)
(* types; mutual exclusion; who owns an RQ entry and for which job, that   *)
(* a job has one, that the attempts stay within the budget; and the table: *)
(* the columns of a row agree, a terminal job stays terminal, the rows     *)
(* develop the way PreviewLifecycle promises to a polling client, and an   *)
(* open row always has something that will close it.                       *)
(***************************************************************************)
EXTENDS PreviewPipeline, FiniteSetTheorems, TLAPS

(* Every write of services/job_store.py leaves well-formed rows. *)
LEMMA RowUpdates ==
    ASSUME NEW row \in Row
    PROVE  /\ [row EXCEPT !.status = "completed", !.stage = "completed",
                          !.result = TRUE, !.finished = TRUE] \in Row
           /\ FailedRow(row) \in Row
           /\ QueuedRow(row) \in Row
<1>1. [row EXCEPT !.status = "completed", !.stage = "completed",
                  !.result = TRUE, !.finished = TRUE] \in Row
  BY DEF Row, Statuses
<1>2. FailedRow(row) \in Row
  BY DEF Row, FailedRow, Statuses
<1>3. QueuedRow(row) \in Row
  BY DEF Row, QueuedRow, Statuses
<1> QED
  BY <1>1, <1>2, <1>3

LEMMA NoRowType == NoRow \in Row
BY DEF Row, NoRow, Statuses

LEMMA StoreWrites ==
    ASSUME StoreTypeOK, NEW j,
           \/ create_job(j)
           \/ claim_job(j)
           \/ \E s \in RunStages : update_progress(j, s)
           \/ complete_job(j)
           \/ fail_job(j)
           \/ \E b \in BOOLEAN : transition_job_after_operational_failure(j, b)
           \/ delete_expired_jobs
           \/ UNCHANGED jobs
    PROVE  jobs' \in [Jobs -> Row]
<1>0. now \in Nat /\ now + Ttl \in Nat /\ jobs \in [Jobs -> Row]
  BY StoreAssumption DEF StoreTypeOK
<1>1. ASSUME NEW row, SetRow(j, row), j \in Jobs => row \in Row
      PROVE  jobs' \in [Jobs -> Row]
  BY <1>0, <1>1 DEF SetRow
<1>2. CASE create_job(j)
  <2>1. [NoRow EXCEPT !.status = "queued", !.expires = now + Ttl] \in Row
    BY <1>0 DEF Row, NoRow, Statuses
  <2> QED
    BY <1>0, <1>2, <2>1 DEF create_job
<1>3. CASE claim_job(j)
  <2> DEFINE n == jobs[j].attempts + 1
             row == [jobs[j] EXCEPT !.status = "running", !.stage = "parsing",
                                    !.started = now, !.finished = FALSE,
                                    !.error = FALSE, !.attempts = n]
  <2>1. j \in Jobs => jobs[j] \in Row /\ n \in Nat
    BY <1>0 DEF Row
  <2> HIDE DEF n
  <2>2. j \in Jobs => row \in Row
    BY <1>0, <2>1 DEF Row, RunStages, Statuses
  <2>3. SetRow(j, row)
    BY <1>3 DEF claim_job, n
  <2> QED
    BY <1>1, <2>2, <2>3
<1>4. ASSUME NEW s \in RunStages, update_progress(j, s)
      PROVE  jobs' \in [Jobs -> Row]
  <2>1. j \in Jobs => [jobs[j] EXCEPT !.stage = s] \in Row
    BY <1>0 DEF Row
  <2> QED
    BY <1>1, <1>4, <2>1 DEF update_progress
<1>5. CASE complete_job(j)
  BY <1>0, <1>1, <1>5, RowUpdates DEF complete_job
<1>6. CASE fail_job(j)
  BY <1>0, <1>1, <1>6, RowUpdates DEF fail_job
<1>7. ASSUME NEW b \in BOOLEAN, transition_job_after_operational_failure(j, b)
      PROVE  jobs' \in [Jobs -> Row]
  BY <1>0, <1>1, <1>7, RowUpdates DEF transition_job_after_operational_failure
<1>9. CASE delete_expired_jobs
  BY <1>0, <1>9, NoRowType DEF delete_expired_jobs
<1> QED
  BY <1>0, <1>2, <1>3, <1>4, <1>5, <1>6, <1>7, <1>9

LEMMA LockWrites ==
    ASSUME StoreTypeOK, NEW j, NEW owner \in Workers \cup {Api},
           \/ try_acquire_preview_job_lock(j, owner)
           \/ release_preview_job_lock(j, owner)
           \/ DropLocks(owner)
           \/ UNCHANGED lock
    PROVE  lock' \in [Jobs -> Workers \cup {Free, Api}]
BY DEF StoreTypeOK, try_acquire_preview_job_lock, release_preview_job_lock, DropLocks

(* RQ's moves and enqueue keep entries well formed: in particular retries_left *)
(* is decremented only while it is positive.                                 *)
LEMMA QueueWrites ==
    ASSUME QueueTypeOK, NEW r,
           \/ \E p \in Places : RqMove(r, p)
           \/ RqRemove(r)
           \/ RqHandleFailure(r)
           \/ UNCHANGED rq
    PROVE  QueueTypeOK'
<1> NoEntry \in Entry
  BY StoreAssumption DEF NoEntry, Entry, Places, NoRetry
<1>2. ASSUME NEW p \in Places, RqMove(r, p) PROVE QueueTypeOK'
  BY <1>2 DEF RqMove, QueueTypeOK, Entry
<1>3. CASE RqRemove(r)
  BY <1>3 DEF RqRemove, QueueTypeOK
<1>4. CASE RqHandleFailure(r)
  <2>1. CASE r \in RqIds /\ WillRetry(r)
    <3>1. rq' = [rq EXCEPT ![r] = [job |-> rq[r].job, place |-> "scheduled",
                                   retries |-> rq[r].retries - 1]]
      BY <1>4, <2>1 DEF RqHandleFailure, QueueTypeOK, Entry
    <3>2. rq[r].retries \in NoRetry..MaxRetries /\ rq[r].retries > 0 /\ rq[r].job \in Jobs \cup {None}
      BY <2>1 DEF QueueTypeOK, Entry, WillRetry
    <3>3. rq[r].retries - 1 \in NoRetry..MaxRetries
      BY <3>2, StoreAssumption DEF NoRetry
    <3> QED
      BY <3>1, <3>2, <3>3 DEF QueueTypeOK, Entry, Places
  <2>2. CASE ~(r \in RqIds /\ WillRetry(r))
    BY <1>4, <2>2 DEF RqHandleFailure, RqRemove, QueueTypeOK
  <2> QED
    BY <2>1, <2>2
<1> QED
  BY <1>2, <1>3, <1>4 DEF QueueTypeOK

LEMMA EnqueueType ==
    ASSUME QueueTypeOK, NEW j \in Jobs \cup {None},
           NEW c \in Int \cup {None}, c # None => c <= MaxRetries,
           enqueue(j, c)
    PROVE  QueueTypeOK'
<1>1. RetriesFor(c) \in NoRetry..MaxRetries
  BY StoreAssumption DEF NoRetry, RetriesFor
<1>2. [job |-> j, place |-> "queue", retries |-> RetriesFor(c)] \in Entry
  BY <1>1 DEF Entry, Places
<1> QED
  BY <1>2 DEF enqueue, QueueTypeOK

-----------------------------------------------------------------------------
(* Type correctness.  TypeOK alone is not inductive: reconciliation reads  *)
(* the row of job[w] and drops the head of its list of candidates, so it   *)
(* must be known that there is such a job and that the list is not empty.  *)

WorkerLocals ==
    \A w \in Workers :
        /\ pc[w] \in {"down", "rec_list", "rec_examine"} => job[w] = None
        /\ pc[w] \in RecUnderLock => job[w] \in Jobs
        /\ (pc[w] \in RecUnderLock \/ (pc[w] \in ScanSteps /\ job[w] # None))
                => rec[w].todo # << >>

TypeInv == TypeOK /\ WorkerLocals

LEMMA FaultType ==
    ASSUME faults \in 0..MaxFaults, NEW kind, Fault(kind) \/ NoFault
    PROVE  faults' \in 0..MaxFaults /\ exposed' = exposed
BY PipelineAssumption DEF Fault, Strike, NoFault

(* Only the pool of the API's connections exposes a job. *)
LEMMA NothingExposed ==
    ASSUME \/ \E j \in Jobs : SubmitLock(j) \/ SubmitStep(j) \/ SubmitCrash(j)
           \/ \E w \in Workers : WorkerStep(w) \/ FaultStep(w) \/ Shutdown(w)
           \/ (\E r \in RqIds : Promote(r) \/ LoseEntry(r)) \/ CleanupPreviewJobs \/ TimePasses
    PROVE  exposed' = exposed
<1> USE DEF Fault, NoFault
<1>1. CASE \E j \in Jobs : SubmitLock(j) \/ SubmitStep(j) \/ SubmitCrash(j)
  BY <1>1 DEF SubmitLock, SubmitStep, SubmitCreate, SubmitEnqueue, SubmitFail, SubmitRelease,
     SubmitCrash
<1>2. ASSUME NEW w \in Workers, RqStep(w) \/ ExecutionStep(w) PROVE exposed' = exposed
  BY <1>2 DEF Committed, RqStep, Dequeue, AdoptAbandoned, StartExecution, Succeed, Requeue,
     ExecutionStep, AcquireLock, Claim, Ineligible, Progress, Complete, Reject,
     RowVanished, PersistUnexpected, Release, FailureCallback
<1>3. ASSUME NEW w \in Workers, ReconciliationStep(w) PROVE exposed' = exposed
  BY <1>3 DEF ReconciliationStep, StartWorker, ScanRegistry, ListCandidates,
     SkipCandidate, LockCandidate, RefreshCandidate, LeaveCandidate,
     FailCandidate, RecoverCandidate, EnqueueCandidate, ReleaseCandidate,
     FinishReconciliation, AbortReconciliation
<1>4. ASSUME NEW w \in Workers, FaultStep(w) \/ Shutdown(w) PROVE exposed' = exposed
  BY <1>4 DEF FaultStep, LockTimeout, LockError, TransientError, UnexpectedError,
     Kill, Crash, Shutdown, RecycleConnection, ReconciliationError
<1>5. CASE (\E r \in RqIds : Promote(r) \/ LoseEntry(r)) \/ CleanupPreviewJobs \/ TimePasses
  BY <1>5 DEF Promote, LoseEntry, CleanupPreviewJobs, TimePasses
<1> QED
  BY <1>1, <1>2, <1>3, <1>4, <1>5 DEF WorkerStep

LEMMA SubmitTypes ==
    ASSUME TypeInv, NEW j \in Jobs,
           SubmitLock(j) \/ SubmitStep(j) \/ SubmitCrash(j)
    PROVE  TypeInv'
<1> USE DEF TypeInv
<1>1. WorkerLocals' /\ pc' \in [Workers -> WorkerPcs] /\ cur' \in [Workers -> RqIds \cup {None}]
      /\ job' \in [Workers -> Jobs \cup {None}] /\ rec' \in [Workers -> RecState]
  BY DEF WorkerLocals, TypeOK, workerVars, SubmitLock, SubmitStep, SubmitCreate,
     SubmitEnqueue, SubmitFail, SubmitRelease, SubmitCrash, Submitting, SubmitEnds
<1>2. sub' \in [Jobs -> SubmitPcs]
  BY DEF TypeOK, SubmitTo, SubmitPcs, SubmitEnds, SubmitLock, SubmitStep, SubmitCreate,
     SubmitEnqueue, SubmitFail, SubmitRelease, SubmitCrash, Submitting, SubmitEnds
<1>3. faults' \in 0..MaxFaults
      /\ exposed' \in SUBSET Jobs
  BY FaultType DEF TypeOK, SubmitLock, SubmitStep, SubmitCreate,
     SubmitEnqueue, SubmitFail, SubmitRelease, SubmitCrash, Submitting, SubmitEnds
<1>4. QueueTypeOK'
  BY QueueWrites, EnqueueType DEF TypeOK, SubmitLock, SubmitStep, SubmitCreate,
     SubmitEnqueue, SubmitFail, SubmitRelease, SubmitCrash, Submitting, SubmitEnds
<1>5. jobs' \in [Jobs -> Row] /\ now' \in 0..MaxTime
  BY StoreWrites DEF TypeOK, StoreTypeOK, SubmitLock, SubmitStep, SubmitCreate,
     SubmitEnqueue, SubmitFail, SubmitRelease, SubmitCrash, Submitting, SubmitEnds
<1>6. lock' \in [Jobs -> Workers \cup {Free, Api}]
  BY LockWrites DEF TypeOK, SubmitLock, SubmitStep, SubmitCreate,
     SubmitEnqueue, SubmitFail, SubmitRelease, SubmitCrash, Submitting, SubmitEnds
<1> QED
  BY <1>1, <1>2, <1>3, <1>4, <1>5, <1>6 DEF TypeOK, StoreTypeOK

(* Fetching, adopting and settling an RQ entry. *)
LEMMA RqTypes ==
    ASSUME TypeInv, NEW w \in Workers, 
           RqStep(w)
    PROVE  TypeInv'
<1> USE DEF TypeInv
<1>1. pc' \in [Workers -> WorkerPcs]
  BY DEF TypeOK, Goto, BackToIdle, WorkerPcs, RqPcs, RqStep, Dequeue,
     AdoptAbandoned, StartExecution, Succeed, Requeue
<1>2. /\ cur' \in [Workers -> RqIds \cup {None}]
      /\ job' \in [Workers -> Jobs \cup {None}]
      /\ rec' \in [Workers -> RecState]
  BY DEF TypeOK, QueueTypeOK, Entry, BackToIdle, RqStep, Dequeue,
     AdoptAbandoned, StartExecution, Succeed, Requeue
<1>3. WorkerLocals'
  BY DEF TypeOK, WorkerLocals, Goto, RecUnderLock, ScanSteps, BackToIdle,
     RqStep, Dequeue, AdoptAbandoned, StartExecution, Succeed, Requeue
<1>4. sub' \in [Jobs -> SubmitPcs] /\ faults' \in 0..MaxFaults
      /\ exposed' \in SUBSET Jobs
  BY FaultType DEF TypeOK, RqStep, Dequeue, AdoptAbandoned, StartExecution,
     Succeed, Requeue
<1>5. QueueTypeOK'
  BY QueueWrites DEF TypeOK, Places, RqStep, Dequeue, AdoptAbandoned,
     StartExecution, Succeed, Requeue
<1>6. jobs' \in [Jobs -> Row] /\ now' \in 0..MaxTime
  BY StoreWrites DEF TypeOK, StoreTypeOK, storeVars, RqStep, Dequeue,
     AdoptAbandoned, StartExecution, Succeed, Requeue
<1>7. lock' \in [Jobs -> Workers \cup {Free, Api}]
  BY LockWrites DEF TypeOK, StoreTypeOK, storeVars, RqStep, Dequeue,
     AdoptAbandoned, StartExecution, Succeed, Requeue
<1> QED
  BY <1>1, <1>2, <1>3, <1>4, <1>5, <1>6, <1>7 DEF TypeOK, StoreTypeOK

(* Executing a preview job. *)
LEMMA ExecutionTypes ==
    ASSUME TypeInv, NEW w \in Workers, 
           ExecutionStep(w)
    PROVE  TypeInv'
<1> USE DEF TypeInv
<1>1. pc' \in [Workers -> WorkerPcs]
  BY DEF TypeOK, Goto, Committed, WorkerPcs, RqPcs, UnderLockPcs, RunStages,
     NextStage, ExecutionStep, AcquireLock, Claim, Ineligible, Progress,
     Complete, Reject, RowVanished, PersistUnexpected, Release,
     FailureCallback
<1>2. /\ cur' \in [Workers -> RqIds \cup {None}]
      /\ job' \in [Workers -> Jobs \cup {None}]
      /\ rec' \in [Workers -> RecState]
  BY DEF TypeOK, QueueTypeOK, Entry, ExecutionStep, AcquireLock, Claim,
     Ineligible, Progress, Complete, Reject, RowVanished, PersistUnexpected,
     Release, FailureCallback
<1>3. WorkerLocals'
  BY ZenonT(60) DEF TypeOK, WorkerLocals, Goto, RecUnderLock, ScanSteps, Committed,
     RunStages, NextStage, ExecutionStep, AcquireLock, Claim, Ineligible,
     Progress, Complete, Reject, RowVanished, PersistUnexpected, Release,
     FailureCallback
<1>4. sub' \in [Jobs -> SubmitPcs] /\ faults' \in 0..MaxFaults
      /\ exposed' \in SUBSET Jobs
  BY FaultType DEF TypeOK, Committed, ExecutionStep, AcquireLock, Claim,
     Ineligible, Progress, Complete, Reject, RowVanished, PersistUnexpected,
     Release, FailureCallback
<1>5. QueueTypeOK'
  BY QueueWrites DEF TypeOK, Places, ExecutionStep, AcquireLock, Claim,
     Ineligible, Progress, Complete, Reject, RowVanished, PersistUnexpected,
     Release, FailureCallback
<1>6. jobs' \in [Jobs -> Row] /\ now' \in 0..MaxTime
  <2>1. CASE Progress(w)
    <3>1. NextStage(pc[w]) \in RunStages
      BY <2>1 DEF Progress, RunStages, NextStage
    <3> QED
      BY <2>1, <3>1, StoreWrites DEF Progress, TypeOK, StoreTypeOK
  <2>2. CASE FailureCallback(w)
    <3>1. WillRetry(cur[w]) \in BOOLEAN
      BY DEF WillRetry
    <3> QED
      BY <2>2, <3>1, StoreWrites DEF FailureCallback, TypeOK, StoreTypeOK
  <2>3. CASE PersistUnexpected(w)
    BY <2>3, StoreWrites DEF PersistUnexpected, TypeOK, StoreTypeOK
  <2> QED
    BY <2>1, <2>2, <2>3, StoreWrites DEF TypeOK, StoreTypeOK, storeVars,
       ExecutionStep, AcquireLock, Claim, Ineligible, Complete, Reject,
       RowVanished, Release
<1>7. lock' \in [Jobs -> Workers \cup {Free, Api}]
  BY LockWrites DEF TypeOK, StoreTypeOK, storeVars, ExecutionStep,
     AcquireLock, Claim, Ineligible, Progress, Complete, Reject, RowVanished,
     PersistUnexpected, Release, FailureCallback
<1> QED
  BY <1>1, <1>2, <1>3, <1>4, <1>5, <1>6, <1>7 DEF TypeOK, StoreTypeOK

LEMMA NoRecType == NoRec \in RecState
BY NoRowType DEF NoRec, RecState

LEMMA RetryCountType ==
    ASSUME TypeOK, NEW w \in Workers
    PROVE  /\ MaxRetries - rec[w].row.attempts \in Int
           /\ MaxRetries - rec[w].row.attempts <= MaxRetries
<1>1. rec[w].row.attempts \in Nat
  BY DEF TypeOK, RecState, Row
<1> QED
  BY <1>1, StoreAssumption

(* Faults and graceful stops. *)
LEMMA FaultTypes ==
    ASSUME TypeInv, NEW w \in Workers, 
           FaultStep(w) \/ Shutdown(w)
    PROVE  TypeInv'
<1> USE DEF TypeInv
<1>1. pc' \in [Workers -> WorkerPcs]
  BY DEF TypeOK, Goto, Exit, WorkerPcs, RqPcs, UnderLockPcs, workerVars,
     FaultStep, LockTimeout, LockError, TransientError, UnexpectedError,
     Kill, Crash, Shutdown, RecycleConnection, ReconciliationError
<1>2. /\ cur' \in [Workers -> RqIds \cup {None}]
      /\ job' \in [Workers -> Jobs \cup {None}]
      /\ rec' \in [Workers -> RecState]
  BY NoRecType DEF TypeOK, Exit, workerVars, FaultStep,
     LockTimeout, LockError, TransientError, UnexpectedError, Kill, Crash,
     Shutdown, RecycleConnection, ReconciliationError
<1>3. WorkerLocals'
  BY DEF TypeOK, WorkerLocals, Goto, RecUnderLock, ScanSteps, Exit,
     UnderLockPcs, RunStages, workerVars, FaultStep, LockTimeout, LockError,
     TransientError, UnexpectedError, Kill, Crash, Shutdown,
     RecycleConnection, ReconciliationError
<1>4. sub' \in [Jobs -> SubmitPcs] /\ faults' \in 0..MaxFaults
      /\ exposed' \in SUBSET Jobs
  BY FaultType DEF TypeOK, FaultStep, LockTimeout, LockError, TransientError,
     UnexpectedError, Kill, Crash, Shutdown, RecycleConnection,
     ReconciliationError
<1>5. QueueTypeOK'
  <2>1. ASSUME enqueue(job[w], MaxRetries - rec[w].row.attempts)
        PROVE  QueueTypeOK'
    <3>1. job[w] \in Jobs \cup {None}
      BY DEF TypeOK
    <3> QED
      BY <2>1, <3>1, RetryCountType, EnqueueType, StoreAssumption DEF TypeOK
  <2>2. CASE ~ReconciliationError(w)
    BY <2>2, QueueWrites DEF TypeOK, FaultStep, LockTimeout, LockError,
       TransientError, UnexpectedError, Kill, Crash, Shutdown,
       RecycleConnection
  <2> QED
    BY <2>1, <2>2, QueueWrites DEF TypeOK, ReconciliationError
<1>6. jobs' \in [Jobs -> Row] /\ now' \in 0..MaxTime
  BY StoreWrites DEF TypeOK, StoreTypeOK, storeVars, FaultStep, LockTimeout,
     LockError, TransientError, UnexpectedError, Kill, Crash, Shutdown,
     RecycleConnection, ReconciliationError
<1>7. lock' \in [Jobs -> Workers \cup {Free, Api}]
  BY LockWrites DEF TypeOK, StoreTypeOK, storeVars, Exit, FaultStep,
     LockTimeout, LockError, TransientError, UnexpectedError, Kill, Crash,
     Shutdown, RecycleConnection, ReconciliationError
<1> QED
  BY <1>1, <1>2, <1>3, <1>4, <1>5, <1>6, <1>7 DEF TypeOK, StoreTypeOK

(* The locals of the reconciliation pass: each assignment is well formed.  *)
LEMMA RecLocals ==
    ASSUME TypeInv, NEW w \in Workers, ReconciliationStep(w)
    PROVE  rec' \in [Workers -> RecState]
<1> USE DEF TypeInv
<1>0. rec \in [Workers -> RecState] /\ rec[w] \in RecState
      /\ jobs \in [Jobs -> Row] /\ now \in Nat
  BY DEF TypeOK, StoreTypeOK
<1>1. ASSUME NEW r \in RecState, RecSet(w, r) PROVE rec' \in [Workers -> RecState]
  BY <1>0, <1>1 DEF RecSet
<1>2. CASE StartWorker(w)
  <2>1. [NoRec EXCEPT !.at = now] \in RecState
    BY <1>0, NoRecType DEF RecState
  <2> QED
    BY <1>1, <1>2, <2>1 DEF StartWorker
<1>3. CASE ScanRegistry(w)
  <2> DEFINE a == rec[w].active \cup JobsAt(pc[w])
             n == IF pc[w] = "scan_scheduled" THEN 0 ELSE Collected(pc[w], rec[w].count)
  <2>1. a \in SUBSET (Jobs \cup {None})
    BY <1>0 DEF RecState, JobsAt, At, TypeOK, QueueTypeOK, Entry
  <2>2. n \in Nat
    <3>1. IsFiniteSet(At(ScannedPlace(pc[w])))
      BY QueueAssumption, FS_Subset DEF At
    <3>2. Cardinality(At(ScannedPlace(pc[w]))) \in Nat
      BY <3>1, FS_CardinalityType
    <3> QED
      BY <1>0, <3>2 DEF Collected, RecState
  <2> HIDE DEF a, n
  <2>3. [rec[w] EXCEPT !.active = a, !.count = n] \in RecState
    BY <1>0, <2>1, <2>2 DEF RecState
  <2>4. RecSet(w, [rec[w] EXCEPT !.active = a, !.count = n])
    BY <1>3 DEF ScanRegistry, a, n
  <2> QED
    BY <1>1, <2>3, <2>4
<1>4. CASE ListCandidates(w)
  <2> DEFINE S == {j \in Jobs : Nonterminal(j) /\ WorthLocking(rec[w].at, jobs[j])}
  <2>1. PICK q \in list_reconciliation_candidates(BatchSize) :
            RecSet(w, [rec[w] EXCEPT !.todo = q, !.snap = TRUE, !.worth = S])
    BY <1>4 DEF ListCandidates
  <2>2. q \in Seq(Jobs)
    <3> DEFINE Open == {j \in Jobs : Nonterminal(j)}
    <3>1. Cardinality(Open) \in Nat
      BY StoreAssumption, FS_Subset, FS_CardinalityType
    <3> DEFINE Size == IF Cardinality(Open) < BatchSize THEN Cardinality(Open) ELSE BatchSize
    <3>2. Size \in Nat
      BY <3>1, PipelineAssumption
    <3>3. q \in [1..Size -> Open]
      BY <2>1 DEF list_reconciliation_candidates
    <3> HIDE DEF Size
    <3>4. q \in [1..Size -> Jobs]
      BY <3>3
    <3> QED
      BY <3>2, <3>4
  <2>3. S \in SUBSET Jobs
    OBVIOUS
  <2> HIDE DEF S
  <2>4. [rec[w] EXCEPT !.todo = q, !.snap = TRUE, !.worth = S] \in RecState
    BY <1>0, <2>2, <2>3 DEF RecState
  <2> QED
    BY <1>1, <2>1, <2>4
<1>5. CASE SkipCandidate(w)
  <2>1. rec[w].todo \in Seq(Jobs) /\ rec[w].todo # << >>
    BY <1>0, <1>5 DEF RecState, SkipCandidate
  <2>2. Tail(rec[w].todo) \in Seq(Jobs)
    BY <2>1
  <2>3. [rec[w] EXCEPT !.todo = Tail(@)] \in RecState
    BY <1>0, <2>2 DEF RecState
  <2> QED
    BY <1>1, <1>5, <2>3 DEF SkipCandidate
<1>6. CASE RefreshCandidate(w)
  <2>1. jobs[job[w]] \in Row
    BY <1>0, <1>6 DEF RefreshCandidate, WorkerLocals, RecUnderLock
  <2>2. [rec[w] EXCEPT !.row = jobs[job[w]], !.active = {}] \in RecState
    BY <1>0, <2>1 DEF RecState
  <2> QED
    BY <1>0, <1>1, <1>6, <2>2 DEF RefreshCandidate
<1>7. CASE RecoverCandidate(w)
  <2>1. job[w] \in Jobs
    BY <1>7 DEF RecoverCandidate, WorkerLocals, RecUnderLock
  <2>2. jobs' \in [Jobs -> Row]
    BY <1>7, StoreWrites DEF RecoverCandidate, TypeOK
  <2>3. jobs'[job[w]] \in Row
    BY <2>1, <2>2
  <2>4. [rec[w] EXCEPT !.row = jobs'[job[w]]] \in RecState
    BY <1>0, <2>3 DEF RecState
  <2> QED
    BY <1>0, <1>1, <1>7, <2>4 DEF RecoverCandidate
<1>8. CASE EnqueueCandidate(w)
  <2>1. rec[w].active \cup {job[w]} \in SUBSET (Jobs \cup {None})
    BY <1>0 DEF RecState, TypeOK
  <2>2. [rec[w] EXCEPT !.active = @ \cup {job[w]}] \in RecState
    BY <1>0, <2>1 DEF RecState
  <2> QED
    BY <1>1, <1>8, <2>2 DEF EnqueueCandidate
<1>9. CASE ReleaseCandidate(w)
  <2>1. rec[w].todo \in Seq(Jobs) /\ rec[w].todo # << >>
    BY <1>0, <1>9 DEF RecState, ReleaseCandidate, WorkerLocals, RecUnderLock
  <2>2. Tail(rec[w].todo) \in Seq(Jobs)
    BY <2>1
  <2>3. /\ [rec[w] EXCEPT !.todo = Tail(@), !.snap = FALSE, !.worth = {},
                          !.row = NoRow] \in RecState
        /\ [rec[w] EXCEPT !.todo = Tail(@), !.row = NoRow] \in RecState
    BY <1>0, <2>2, NoRowType DEF RecState
  <2> QED
    BY <1>1, <1>9, <2>3 DEF ReleaseCandidate
<1>10. CASE FinishReconciliation(w)
  BY <1>1, <1>10, NoRecType DEF FinishReconciliation
<1>11. CASE AbortReconciliation(w)
  BY <1>0, <1>11, NoRecType DEF AbortReconciliation, Exit
<1>12. CASE LockCandidate(w) \/ LeaveCandidate(w) \/ FailCandidate(w)
  BY <1>0, <1>12 DEF LockCandidate, LeaveCandidate, FailCandidate
<1> QED
  BY <1>2, <1>3, <1>4, <1>5, <1>6, <1>7, <1>8, <1>9, <1>10, <1>11, <1>12
     DEF ReconciliationStep

(* The reconciliation pass. *)
LEMMA ReconciliationTypes ==
    ASSUME TypeInv, NEW w \in Workers, ReconciliationStep(w)
    PROVE  TypeInv'
<1> USE DEF TypeInv
<1>0. rec' \in [Workers -> RecState]
  BY RecLocals
<1>1. pc' \in [Workers -> WorkerPcs]
  BY DEF TypeOK, Goto, Exit, AfterScan, WorkerPcs, RecPcs, RecUnderLock,
     ScanSteps, ReconciliationStep, StartWorker, ScanRegistry, ListCandidates,
     SkipCandidate, LockCandidate, RefreshCandidate, LeaveCandidate,
     FailCandidate, RecoverCandidate, EnqueueCandidate, ReleaseCandidate,
     FinishReconciliation, AbortReconciliation
<1>2. cur' \in [Workers -> RqIds \cup {None}]
  BY DEF TypeOK, Exit, ReconciliationStep, StartWorker, ScanRegistry, ListCandidates,
     SkipCandidate, LockCandidate, RefreshCandidate, LeaveCandidate,
     FailCandidate, RecoverCandidate, EnqueueCandidate, ReleaseCandidate,
     FinishReconciliation, AbortReconciliation
<1>3. job' \in [Workers -> Jobs \cup {None}]
  <2>1. CASE LockCandidate(w)
    <3>1. rec[w].todo \in Seq(Jobs) /\ rec[w].todo # << >>
      BY <2>1 DEF LockCandidate, TypeOK, RecState
    <3>2. Candidate(w) \in Jobs
      BY <3>1 DEF Candidate
    <3> QED
      BY <2>1, <3>2 DEF LockCandidate, TypeOK
  <2> QED
    BY <2>1 DEF TypeOK, Exit, ReconciliationStep, StartWorker, ScanRegistry, ListCandidates,
     SkipCandidate, LockCandidate, RefreshCandidate, LeaveCandidate,
     FailCandidate, RecoverCandidate, EnqueueCandidate, ReleaseCandidate,
     FinishReconciliation, AbortReconciliation
<1>4. WorkerLocals'
  <2> SUFFICES ASSUME NEW v \in Workers
               PROVE  /\ pc'[v] \in {"down", "rec_list", "rec_examine"} => job'[v] = None
                      /\ pc'[v] \in RecUnderLock => job'[v] \in Jobs
                      /\ (pc'[v] \in RecUnderLock
                            \/ (pc'[v] \in ScanSteps /\ job'[v] # None))
                              => rec'[v].todo # << >>
    BY DEF WorkerLocals
  <2>1. CASE v # w
    <3>1. pc'[v] = pc[v] /\ job'[v] = job[v] /\ rec'[v] = rec[v]
      BY <2>1 DEF TypeOK, Goto, Exit, RecSet, ReconciliationStep, StartWorker, ScanRegistry, ListCandidates,
     SkipCandidate, LockCandidate, RefreshCandidate, LeaveCandidate,
     FailCandidate, RecoverCandidate, EnqueueCandidate, ReleaseCandidate,
     FinishReconciliation, AbortReconciliation
    <3> QED
      BY <3>1 DEF WorkerLocals
  <2>2. CASE v = w
    <3>1. CASE StartWorker(w)
      BY <3>1, <2>2 DEF StartWorker, TypeOK, Goto, WorkerLocals, RecUnderLock, ScanSteps
    <3>2. CASE ScanRegistry(w)
      <4>1. rec'[w].todo = rec[w].todo
        BY <3>2 DEF ScanRegistry, TypeOK, RecState, RecSet
      <4> QED
        BY <3>2, <2>2, <4>1 DEF ScanRegistry, TypeOK, Goto, AfterScan, WorkerLocals,
           RecUnderLock, ScanSteps
    <3>3. CASE ListCandidates(w) \/ SkipCandidate(w) \/ FinishReconciliation(w)
      BY <3>3, <2>2 DEF ListCandidates, SkipCandidate, FinishReconciliation, TypeOK,
         Goto, WorkerLocals, RecUnderLock, ScanSteps
    <3>4. CASE LockCandidate(w)
      <4>1. rec[w].todo \in Seq(Jobs) /\ rec[w].todo # << >>
        BY <3>4 DEF LockCandidate, TypeOK, RecState
      <4>2. Candidate(w) \in Jobs
        BY <4>1 DEF Candidate
      <4> QED
        BY <3>4, <2>2, <4>1, <4>2 DEF LockCandidate, TypeOK, Goto, RecUnderLock, ScanSteps
    <3>5. CASE RefreshCandidate(w)
      <4>1. rec'[w].todo = rec[w].todo
        BY <3>5, ZenonT(60) DEF RefreshCandidate, TypeOK, RecState, RecSet
      <4> QED
        BY <3>5, <2>2, <4>1 DEF RefreshCandidate, TypeOK, Goto, WorkerLocals,
           RecUnderLock, ScanSteps
    <3>6. CASE LeaveCandidate(w) \/ FailCandidate(w)
      BY <3>6, <2>2 DEF LeaveCandidate, FailCandidate, TypeOK, Goto, WorkerLocals,
         RecUnderLock, ScanSteps
    <3>7. CASE RecoverCandidate(w) \/ EnqueueCandidate(w)
      <4>1. rec'[w].todo = rec[w].todo
        <5>1. rec[w] \in RecState /\ rec \in [Workers -> RecState]
          BY DEF TypeOK
        <5>2. CASE RecoverCandidate(w)
          BY <5>1, <5>2, ZenonT(60) DEF RecoverCandidate, RecState, RecSet
        <5>3. CASE EnqueueCandidate(w)
          BY <5>1, <5>3 DEF EnqueueCandidate, RecState, RecSet
        <5> QED
          BY <3>7, <5>2, <5>3
      <4> QED
        BY <3>7, <2>2, <4>1 DEF RecoverCandidate, EnqueueCandidate, TypeOK, Goto,
           WorkerLocals, RecUnderLock, ScanSteps
    <3>8. CASE ReleaseCandidate(w) \/ AbortReconciliation(w)
      BY <3>8, <2>2 DEF ReleaseCandidate, AbortReconciliation, Exit, TypeOK, Goto,
         RecUnderLock, ScanSteps
    <3> QED
      BY <3>1, <3>2, <3>3, <3>4, <3>5, <3>6, <3>7, <3>8 DEF ReconciliationStep
  <2> QED
    BY <2>1, <2>2
<1>5. sub' \in [Jobs -> SubmitPcs] /\ faults' \in 0..MaxFaults /\ now' \in 0..MaxTime
      /\ exposed' \in SUBSET Jobs
  BY DEF TypeOK, StoreTypeOK, storeVars, NoFault, ReconciliationStep, StartWorker, ScanRegistry, ListCandidates,
     SkipCandidate, LockCandidate, RefreshCandidate, LeaveCandidate,
     FailCandidate, RecoverCandidate, EnqueueCandidate, ReleaseCandidate,
     FinishReconciliation, AbortReconciliation
<1>6. QueueTypeOK'
  <2>1. CASE EnqueueCandidate(w)
    <3>1. job[w] \in Jobs \cup {None}
      BY DEF TypeOK
    <3> QED
      BY <2>1, <3>1, RetryCountType, EnqueueType DEF EnqueueCandidate, TypeOK
  <2> QED
    BY <2>1, QueueWrites DEF TypeOK, ReconciliationStep, StartWorker, ScanRegistry, ListCandidates,
     SkipCandidate, LockCandidate, RefreshCandidate, LeaveCandidate,
     FailCandidate, RecoverCandidate, EnqueueCandidate, ReleaseCandidate,
     FinishReconciliation, AbortReconciliation
<1>7. jobs' \in [Jobs -> Row]
  <2>1. CASE FailCandidate(w) \/ RecoverCandidate(w)
    BY <2>1, StoreWrites DEF FailCandidate, RecoverCandidate, TypeOK
  <2> QED
    BY <2>1 DEF TypeOK, StoreTypeOK, storeVars, ReconciliationStep, StartWorker, ScanRegistry, ListCandidates,
     SkipCandidate, LockCandidate, RefreshCandidate, LeaveCandidate,
     FailCandidate, RecoverCandidate, EnqueueCandidate, ReleaseCandidate,
     FinishReconciliation, AbortReconciliation
<1>8. lock' \in [Jobs -> Workers \cup {Free, Api}]
  BY LockWrites DEF TypeOK, StoreTypeOK, storeVars, Exit, ReconciliationStep,
     StartWorker, ScanRegistry, ListCandidates,
     SkipCandidate, LockCandidate, RefreshCandidate, LeaveCandidate,
     FailCandidate, RecoverCandidate, EnqueueCandidate, ReleaseCandidate,
     FinishReconciliation, AbortReconciliation
<1> QED
  BY <1>0, <1>1, <1>2, <1>3, <1>4, <1>5, <1>6, <1>7, <1>8 DEF TypeOK, StoreTypeOK

(* RQ's scheduler, the cleanup job and the clock. *)
LEMMA EnvironmentTypes ==
    ASSUME TypeInv,
           (\E r \in RqIds : Promote(r) \/ LoseEntry(r)) \/ CleanupPreviewJobs \/ TimePasses
    PROVE  TypeInv'
<1> USE DEF TypeInv
<1>1. CASE \E r \in RqIds : Promote(r) \/ LoseEntry(r)
  BY <1>1, QueueWrites, FaultType DEF Promote, LoseEntry, TypeOK, StoreTypeOK,
     WorkerLocals, workerVars, Places
<1>2. CASE CleanupPreviewJobs
  <2>1. jobs' \in [Jobs -> Row]
    BY <1>2, StoreWrites DEF CleanupPreviewJobs, TypeOK
  <2> QED
    BY <1>2, <2>1 DEF CleanupPreviewJobs, TypeOK, StoreTypeOK, QueueTypeOK,
       WorkerLocals, workerVars, NoFault
<1>3. CASE TimePasses
  BY <1>3, StoreAssumption DEF TimePasses, Tick, TypeOK, StoreTypeOK, QueueTypeOK,
     WorkerLocals, workerVars, NoFault
<1> QED
  BY <1>1, <1>2, <1>3

(* A connection of the API's pool is closed: nothing changes but the lock  *)
(* it carried, and its job is exposed unless its submission was over.      *)
LEMMA ClosingFrame ==
    ASSUME TypeInv, NEW j \in Jobs, CloseApiConnection(j)
    PROVE  /\ UNCHANGED <<jobs, now, rq, sub, pc, cur, job, rec>>
           /\ lock[j] = Api /\ lock' = [lock EXCEPT ![j] = Free]
           /\ faults' \in 0..MaxFaults
           /\ exposed' \in SUBSET Jobs /\ exposed \subseteq exposed'
           /\ sub[j] = "leaked" \/ j \in exposed'
           /\ \A i \in Jobs \ {j} : i \in exposed' => i \in exposed
           /\ sub[j] \in {"created", "enqueue_error", "release", "leaked"}
BY PipelineAssumption DEF CloseApiConnection, release_preview_job_lock, workerVars, Strike,
   NoFault, Leaked, TypeInv, TypeOK

(* Type correctness of the whole pipeline, with the facts about worker     *)
(* locals that make it inductive.                                          *)
THEOREM TypeInvariant == Spec => []TypeInv
<1>1. Init => TypeInv
  <2> SUFFICES ASSUME Init PROVE TypeInv
    OBVIOUS
  <2>1. StoreTypeOK
    BY NoRowType, StoreAssumption DEF Init, StoreInit, StoreTypeOK
  <2>2. QueueTypeOK
    BY StoreAssumption DEF Init, QueueInit, QueueTypeOK, NoEntry, Entry, Places, NoRetry
  <2>3. WorkerLocals
    BY DEF Init, WorkerLocals, RecUnderLock, ScanSteps
  <2> QED
    BY <2>1, <2>2, <2>3, NoRecType, PipelineAssumption
       DEF Init, TypeInv, TypeOK, SubmitPcs, SubmitEnds, WorkerPcs
<1>2. TypeInv /\ [Next]_vars => TypeInv'
  <2> SUFFICES ASSUME TypeInv, [Next]_vars PROVE TypeInv'
    OBVIOUS
  <2>1. CASE UNCHANGED vars
    BY <2>1 DEF vars, TypeInv, TypeOK, StoreTypeOK, QueueTypeOK, WorkerLocals
  <2>2. CASE \E j \in Jobs : SubmitLock(j) \/ SubmitStep(j) \/ SubmitCrash(j)
    BY <2>2, SubmitTypes
  <2>5. CASE \E j \in Jobs : CloseApiConnection(j)
    BY <2>5, ClosingFrame DEF TypeInv, TypeOK, StoreTypeOK, QueueTypeOK, WorkerLocals
  <2>3. CASE \E w \in Workers : WorkerStep(w) \/ FaultStep(w) \/ Shutdown(w)
    BY <2>3, RqTypes, ExecutionTypes, ReconciliationTypes, FaultTypes DEF WorkerStep
  <2>4. CASE (\E r \in RqIds : Promote(r) \/ LoseEntry(r)) \/ CleanupPreviewJobs \/ TimePasses
    BY <2>4, EnvironmentTypes
  <2> QED
    BY <2>1, <2>2, <2>3, <2>4, <2>5 DEF Next
<1> QED
  BY <1>1, <1>2, PTL DEF Spec

(* Every variable of the pipeline keeps its type, whatever faults happen.  *)
THEOREM TypeCorrect == Spec => []TypeOK
<1>1. TypeInv => TypeOK
  BY DEF TypeInv
<1> QED
  BY <1>1, TypeInvariant, PTL

-----------------------------------------------------------------------------
(* Mutual exclusion.  The strengthening says who holds the lock: the       *)
(* worker in the job's critical section, or the request that submits it.   *)

LockInv ==
    /\ \A w \in Workers, j \in Jobs : InSection(w, j) => lock[j] = w
    /\ \A j \in Jobs \ exposed : Submitting(j) => lock[j] = Api

(* The lock, once it is with its holder, gives exclusion. *)
LEMMA LockExcludes == LockInv => MutualExclusion
BY StoreAssumption DEF LockInv, MutualExclusion

LEMMA SubmitLocks ==
    ASSUME TypeInv, LockInv, NEW j \in Jobs,
           SubmitLock(j) \/ SubmitStep(j) \/ SubmitCrash(j)
    PROVE  LockInv'
<1>1. \A i \in Jobs \ {j} : lock'[i] = lock[i] /\ sub'[i] = sub[i]
  BY DEF TypeInv, TypeOK, StoreTypeOK, SubmitTo, SubmitLock, SubmitStep,
     SubmitCreate, SubmitEnqueue, SubmitFail, SubmitRelease, SubmitCrash, Submitting, SubmitEnds,
     try_acquire_preview_job_lock, release_preview_job_lock
<1>2. \A w \in Workers, i \in Jobs : InSection(w, i)' <=> InSection(w, i)
  BY DEF InSection, workerVars, SubmitLock, SubmitStep,
     SubmitCreate, SubmitEnqueue, SubmitFail, SubmitRelease, SubmitCrash, Submitting, SubmitEnds
<1>0. exposed' = exposed
  BY NothingExposed
<1>3. Submitting(j)' /\ j \notin exposed => lock'[j] = Api
  BY DEF LockInv, Submitting, SubmitEnds, TypeInv, TypeOK, StoreTypeOK, SubmitTo, SubmitLock,
     SubmitStep, SubmitCreate, SubmitEnqueue, SubmitFail, SubmitRelease,
     SubmitCrash, Submitting, SubmitEnds, try_acquire_preview_job_lock, release_preview_job_lock
<1>4. \A w \in Workers : InSection(w, j) => lock'[j] = w
  BY StoreAssumption DEF LockInv, TypeInv, TypeOK, StoreTypeOK, SubmitLock,
     SubmitStep, SubmitCreate, SubmitEnqueue, SubmitFail, SubmitRelease,
     SubmitCrash, Submitting, SubmitEnds, try_acquire_preview_job_lock, release_preview_job_lock
<1> QED
  BY <1>0, <1>1, <1>2, <1>3, <1>4 DEF LockInv, Submitting, SubmitEnds

(* What a step of worker w must show: it stays within its own locks, and   *)
(* it is in a critical section only with the lock.                         *)
LEMMA WorkerLocks ==
    ASSUME LockInv, NEW w \in Workers, UNCHANGED <<sub, exposed>>,
           \A v \in Workers \ {w} : pc'[v] = pc[v] /\ job'[v] = job[v],
           \A j \in Jobs : lock[j] \notin {w, Free} => lock'[j] = lock[j],
           \A j \in Jobs : InSection(w, j)' => lock'[j] = w
    PROVE  LockInv'
<1>1. ASSUME NEW v \in Workers, NEW j \in Jobs, InSection(v, j)'
      PROVE  lock'[j] = v
  <2>1. CASE v = w
    BY <1>1, <2>1
  <2>2. CASE v # w
    <3>1. InSection(v, j)
      BY <1>1, <2>2 DEF InSection
    <3> QED
      BY <2>2, <3>1, StoreAssumption DEF LockInv
  <2> QED
    BY <2>1, <2>2
<1>2. ASSUME NEW j \in Jobs \ exposed, Submitting(j)'
      PROVE  lock'[j] = Api
  BY <1>2, StoreAssumption DEF LockInv, Submitting, SubmitEnds, Free, Api
<1> QED
  BY <1>1, <1>2 DEF LockInv

LEMMA RqLocks ==
    ASSUME TypeInv, LockInv, NEW w \in Workers, RqStep(w)
    PROVE  LockInv'
<1>1. UNCHANGED <<sub, lock>>
      /\ \A v \in Workers \ {w} : pc'[v] = pc[v] /\ job'[v] = job[v]
  BY DEF TypeInv, TypeOK, RqStep, Dequeue, AdoptAbandoned, StartExecution, Succeed,
     Requeue, BackToIdle, Goto
<1>2. \A j \in Jobs : ~InSection(w, j)'
  BY DEF TypeInv, TypeOK, RqStep, Dequeue, AdoptAbandoned, StartExecution, Succeed,
     Requeue, BackToIdle, Goto, InSection, UnderLockPcs, RunStages, RecUnderLock,
     ScanSteps
<1> QED
  BY <1>1, <1>2, WorkerLocks, NothingExposed DEF WorkerStep

LEMMA ExecutionLocks ==
    ASSUME TypeInv, LockInv, NEW w \in Workers, ExecutionStep(w)
    PROVE  LockInv'
<1>1. UNCHANGED <<sub, job>> /\ \A v \in Workers \ {w} : pc'[v] = pc[v]
  BY DEF TypeInv, TypeOK, Goto, Committed, ExecutionStep, AcquireLock, Claim,
     Ineligible, Progress, Complete, Reject, RowVanished, PersistUnexpected,
     Release, FailureCallback
<1>2. \A j \in Jobs : lock[j] \notin {w, Free} => lock'[j] = lock[j]
  BY DEF TypeInv, TypeOK, StoreTypeOK, storeVars, ExecutionStep, AcquireLock,
     Claim, Ineligible, Progress, Complete, Reject, RowVanished,
     PersistUnexpected, Release, FailureCallback,
     try_acquire_preview_job_lock, release_preview_job_lock
<1>3. \A j \in Jobs : InSection(w, j)' => lock'[j] = w
  <2>1. CASE AcquireLock(w)
    BY <2>1 DEF AcquireLock, try_acquire_preview_job_lock, InSection, TypeInv,
       TypeOK, StoreTypeOK
  <2>2. CASE Release(w) \/ FailureCallback(w) \/ pc[w] = "unlocked_error"
    BY <2>2 DEF Release, FailureCallback, InSection, TypeInv, TypeOK, Goto,
       UnderLockPcs, RunStages, RecUnderLock, ScanSteps, ExecutionStep,
       AcquireLock, Claim, Ineligible, Progress, Complete, Reject, RowVanished,
       PersistUnexpected, Committed
  <2>3. CASE ~AcquireLock(w) /\ ~Release(w) /\ ~FailureCallback(w) /\ pc[w] # "unlocked_error"
    <3>1. pc[w] \in UnderLockPcs /\ UNCHANGED lock
      BY <2>3 DEF UnderLockPcs, RunStages, storeVars, ExecutionStep, Claim,
         Ineligible, Progress, Complete, Reject, RowVanished, PersistUnexpected
    <3> QED
      BY <1>1, <3>1 DEF InSection, LockInv
  <2> QED
    BY <2>1, <2>2, <2>3
<1> QED
  BY <1>1, <1>2, <1>3, WorkerLocks, NothingExposed DEF WorkerStep

LEMMA ReconciliationLocks ==
    ASSUME TypeInv, LockInv, NEW w \in Workers, ReconciliationStep(w)
    PROVE  LockInv'
<1>1. UNCHANGED sub /\ \A v \in Workers \ {w} : pc'[v] = pc[v] /\ job'[v] = job[v]
  BY DEF TypeInv, TypeOK, Goto, Exit, ReconciliationStep, StartWorker, ScanRegistry, ListCandidates,
     SkipCandidate, LockCandidate, RefreshCandidate, LeaveCandidate,
     FailCandidate, RecoverCandidate, EnqueueCandidate, ReleaseCandidate,
     FinishReconciliation, AbortReconciliation
<1>2. \A j \in Jobs : lock[j] \notin {w, Free} => lock'[j] = lock[j]
  BY ZenonT(60) DEF TypeInv, TypeOK, StoreTypeOK, storeVars, Exit, DropLocks,
     try_acquire_preview_job_lock, release_preview_job_lock,
     ReconciliationStep, StartWorker, ScanRegistry, ListCandidates,
     SkipCandidate, LockCandidate, RefreshCandidate, LeaveCandidate,
     FailCandidate, RecoverCandidate, EnqueueCandidate, ReleaseCandidate,
     FinishReconciliation, AbortReconciliation
<1>3. \A j \in Jobs : InSection(w, j)' => lock'[j] = w
  <2>1. CASE \/ StartWorker(w) \/ ListCandidates(w) \/ SkipCandidate(w)
             \/ ReleaseCandidate(w) \/ FinishReconciliation(w) \/ AbortReconciliation(w)
    <3>1. job'[w] = None
      BY <2>1 DEF StartWorker, ListCandidates, SkipCandidate, ReleaseCandidate,
         FinishReconciliation, AbortReconciliation, Exit, TypeInv, TypeOK, WorkerLocals
    <3> QED
      BY <3>1, StoreAssumption DEF InSection
  <2>2. CASE LockCandidate(w)
    BY <2>2 DEF LockCandidate, try_acquire_preview_job_lock, InSection, TypeInv,
       TypeOK, StoreTypeOK
  <2>3. CASE \/ ScanRegistry(w) \/ RefreshCandidate(w) \/ LeaveCandidate(w)
             \/ FailCandidate(w) \/ RecoverCandidate(w) \/ EnqueueCandidate(w)
    <3>1. pc[w] \in RecUnderLock \cup ScanSteps /\ UNCHANGED <<lock, job>>
      BY <2>3 DEF ScanRegistry, RefreshCandidate, LeaveCandidate, FailCandidate,
         RecoverCandidate, EnqueueCandidate, RecUnderLock, storeVars
    <3> QED
      BY <3>1 DEF InSection, LockInv
  <2> QED
    BY <2>1, <2>2, <2>3 DEF ReconciliationStep
<1> QED
  BY <1>1, <1>2, <1>3, WorkerLocks, NothingExposed DEF WorkerStep

(* The only fault that takes a lock away from a running worker is the      *)
(* replacement of its connection.                                          *)
LEMMA FaultLocks ==
    ASSUME TypeInv, LockInv, NEW w \in Workers, FaultStep(w) \/ Shutdown(w),
           "recycle" \notin FaultKinds
    PROVE  LockInv'
<1>0. ~RecycleConnection(w)
  BY DEF RecycleConnection, Fault, Strike
<1>1. UNCHANGED sub /\ \A v \in Workers \ {w} : pc'[v] = pc[v] /\ job'[v] = job[v]
  BY <1>0 DEF TypeInv, TypeOK, Goto, Exit, FaultStep, LockTimeout, LockError,
     TransientError, UnexpectedError, Kill, Crash, Shutdown, ReconciliationError
<1>2. \A j \in Jobs : lock[j] \notin {w, Free} => lock'[j] = lock[j]
  BY <1>0 DEF TypeInv, TypeOK, StoreTypeOK, storeVars, Exit, DropLocks, FaultStep,
     LockTimeout, LockError, TransientError, UnexpectedError, Kill, Crash,
     Shutdown, ReconciliationError
<1>3. \A j \in Jobs : InSection(w, j)' => lock'[j] = w
  <2>1. CASE \/ LockTimeout(w) \/ LockError(w) \/ Kill(w) \/ Crash(w) \/ Shutdown(w)
             \/ ReconciliationError(w) \/ pc[w] = "waiting"
    <3>1. pc'[w] \in {"succeed", "callback", "requeue", "down", "unlocked_error"}
      BY <1>0, <2>1 DEF LockTimeout, LockError, Kill, Crash, Shutdown,
         ReconciliationError, Exit, Goto, TypeInv, TypeOK, FaultStep,
         TransientError, UnexpectedError, RunStages
    <3> QED
      BY <3>1 DEF InSection, UnderLockPcs, RunStages, RecUnderLock, ScanSteps
  <2>2. CASE pc[w] # "waiting" /\ (TransientError(w) \/ UnexpectedError(w))
    <3>1. pc[w] \in UnderLockPcs /\ UNCHANGED <<lock, job>>
      BY <2>2 DEF TransientError, UnexpectedError, UnderLockPcs, storeVars
    <3> QED
      BY <3>1 DEF InSection, LockInv
  <2> QED
    BY <1>0, <2>1, <2>2 DEF FaultStep
<1> QED
  BY <1>1, <1>2, <1>3, WorkerLocks, NothingExposed DEF WorkerStep

(* The advisory lock is enough: submission, execution and reconciliation   *)
(* of one preview job never overlap, for any number of workers and jobs    *)
(* and under every fault except the replacement of the connection that     *)
(* carries a worker's lock; a submission that has lost its own is excepted *)
(* for its job, and for that job only.                                     *)
THEOREM Exclusion ==
    ASSUME "recycle" \notin FaultKinds
    PROVE  Spec => []MutualExclusion
<1>1. Init => LockInv
  BY DEF Init, LockInv, InSection, Submitting, SubmitEnds, UnderLockPcs, RunStages,
     RecUnderLock, ScanSteps
<1>2. TypeInv /\ LockInv /\ [Next]_vars => LockInv'
  <2> SUFFICES ASSUME TypeInv, LockInv, [Next]_vars PROVE LockInv'
    OBVIOUS
  <2>1. CASE UNCHANGED vars
    BY <2>1 DEF vars, LockInv, InSection, Submitting, SubmitEnds
  <2>2. CASE \E j \in Jobs : SubmitLock(j) \/ SubmitStep(j) \/ SubmitCrash(j)
    BY <2>2, SubmitLocks
  <2>5. CASE \E j \in Jobs : CloseApiConnection(j)
    <3>1. PICK j \in Jobs : CloseApiConnection(j)
      BY <2>5
    <3>2. /\ UNCHANGED <<sub, pc, job>> /\ lock[j] = Api
          /\ \A i \in Jobs \ {j} : lock'[i] = lock[i]
          /\ exposed \subseteq exposed' /\ (sub[j] = "leaked" \/ j \in exposed')
      BY <3>1, ClosingFrame DEF TypeInv, TypeOK, StoreTypeOK
    <3>3. \A w \in Workers : ~InSection(w, j)
      BY <3>2, StoreAssumption DEF LockInv, Api
    <3> QED
      BY <3>2, <3>3 DEF LockInv, InSection, Submitting, SubmitEnds
  <2>3. CASE \E w \in Workers : WorkerStep(w) \/ FaultStep(w) \/ Shutdown(w)
    BY <2>3, RqLocks, ExecutionLocks, ReconciliationLocks, FaultLocks DEF WorkerStep
  <2>4. CASE (\E r \in RqIds : Promote(r) \/ LoseEntry(r)) \/ CleanupPreviewJobs \/ TimePasses
    BY <2>4, NothingExposed DEF Promote, LoseEntry, CleanupPreviewJobs, TimePasses, workerVars,
       LockInv, InSection, Submitting, SubmitEnds
  <2> QED
    BY <2>1, <2>2, <2>3, <2>4, <2>5 DEF Next
<1> QED
  BY <1>1, <1>2, TypeInvariant, LockExcludes, PTL DEF Spec

-----------------------------------------------------------------------------
(* Ownership of RQ entries: an entry that a worker has taken is its own    *)
(* until it settles it, and is about the job the worker works on.          *)

HoldingPcs == RqPcs \cup UnderLockPcs

Owns(w) ==
    /\ pc[w] \in HoldingPcs =>
          /\ cur[w] \in RqIds /\ Live(cur[w]) /\ rq[cur[w]].job = job[w]
          /\ pc[w] = "fetched" => rq[cur[w]].place = "intermediate"
          /\ pc[w] = "requeue" => rq[cur[w]].place \in {"intermediate", "started"}
          /\ pc[w] \notin {"fetched", "requeue"} => rq[cur[w]].place = "started"
    /\ pc[w] \notin HoldingPcs => cur[w] = None
    /\ pc[w] = "idle" => job[w] = None

EntriesHaveJobs == \A r \in RqIds : Live(r) => rq[r].job \in Jobs

OwnInv ==
    /\ \A w \in Workers : Owns(w)
    /\ \A v, w \in Workers : cur[v] = cur[w] /\ cur[w] # None => v = w
    /\ EntriesHaveJobs

(* What a step of worker w must show: it leaves the entries of the other   *)
(* workers alone and takes none of them.                                   *)
LEMMA WorkerOwns ==
    ASSUME OwnInv, NEW w \in Workers,
           \A v \in Workers \ {w} :
               pc'[v] = pc[v] /\ cur'[v] = cur[v] /\ job'[v] = job[v],
           \A v \in Workers \ {w} :
               cur[v] # None => rq'[cur[v]] = rq[cur[v]] /\ cur'[w] # cur[v],
           Owns(w)', EntriesHaveJobs'
    PROVE  OwnInv'
<1>1. ASSUME NEW v \in Workers PROVE Owns(v)'
  <2>1. CASE v = w
    BY <2>1
  <2>2. CASE v # w
    <3>1. CASE pc[v] \in HoldingPcs
      <4>1. cur[v] # None /\ Owns(v)
        BY <3>1, QueueAssumption DEF OwnInv, Owns
      <4>2. rq'[cur[v]] = rq[cur[v]]
        BY <2>2, <4>1
      <4> QED
        BY <2>2, <3>1, <4>1, <4>2 DEF Owns, Live
    <3>2. CASE pc[v] \notin HoldingPcs
      BY <2>2, <3>2 DEF Owns, OwnInv
    <3> QED
      BY <3>1, <3>2
  <2> QED
    BY <2>1, <2>2
<1>2. \A u, v \in Workers : cur'[u] = cur'[v] /\ cur'[v] # None => u = v
  BY DEF OwnInv
<1> QED
  BY <1>1, <1>2 DEF OwnInv

(* An owned entry is in the intermediate list or the started registry.     *)
LEMMA OwnedPlaces ==
    ASSUME TypeInv, OwnInv, NEW w \in Workers, cur[w] # None
    PROVE  /\ cur[w] \in RqIds
           /\ rq[cur[w]].place \in {"intermediate", "started"}
           /\ rq[cur[w]].job = job[w] /\ job[w] \in Jobs
           /\ pc[w] \in HoldingPcs
BY DEF OwnInv, Owns, EntriesHaveJobs

LEMMA RqOwns ==
    ASSUME TypeInv, OwnInv, NEW w \in Workers, RqStep(w)
    PROVE  OwnInv'
<1> USE DEF TypeInv, TypeOK, QueueTypeOK
<1>1. \A v \in Workers \ {w} :
          pc'[v] = pc[v] /\ cur'[v] = cur[v] /\ job'[v] = job[v]
  BY DEF RqStep, Dequeue, AdoptAbandoned, StartExecution, Succeed, Requeue,
     BackToIdle, Goto
<1>2. ASSUME NEW v \in Workers \ {w}, cur[v] # None
      PROVE  rq'[cur[v]] = rq[cur[v]] /\ cur'[w] # cur[v]
  <2>1. cur[v] \in RqIds /\ rq[cur[v]].place \in {"intermediate", "started"}
    BY <1>2, OwnedPlaces
  <2>2. cur[v] # cur[w]
    BY <1>2 DEF OwnInv
  <2> QED
    BY <1>2, <2>1, <2>2 DEF RqStep, Dequeue, AdoptAbandoned, StartExecution, Succeed,
       Requeue, BackToIdle, RqMove, RqRemove, RqHandleFailure, Owned
<1>3. Owns(w)' /\ EntriesHaveJobs'
  <2>1. ASSUME NEW r \in RqIds, Dequeue(w, r) PROVE Owns(w)' /\ EntriesHaveJobs'
    BY <2>1 DEF Dequeue, RqMove, Goto, Owns, EntriesHaveJobs, Live, HoldingPcs,
       RqPcs, Entry, OwnInv
  <2>2. ASSUME NEW r \in RqIds, AdoptAbandoned(w, r) PROVE Owns(w)' /\ EntriesHaveJobs'
    BY <2>2 DEF AdoptAbandoned, Goto, Owns, EntriesHaveJobs, Live, HoldingPcs,
       RqPcs, OwnInv
  <2>3. CASE StartExecution(w)
    BY <2>3 DEF StartExecution, RqMove, Goto, Owns, EntriesHaveJobs, Live, HoldingPcs,
       RqPcs, Entry, OwnInv
  <2>4. CASE Succeed(w)
    BY <2>4 DEF Succeed, RqRemove, BackToIdle, Goto, Owns, EntriesHaveJobs, Live,
       HoldingPcs, RqPcs, UnderLockPcs, RunStages, NoEntry, OwnInv
  <2>5. CASE Requeue(w)
    <3>1. Owns(w)'
      BY <2>5 DEF Requeue, BackToIdle, Goto, Owns, HoldingPcs, RqPcs, UnderLockPcs,
         RunStages
    <3>2. EntriesHaveJobs'
      BY <2>5 DEF Requeue, RqHandleFailure, RqRemove, EntriesHaveJobs, Live, NoEntry,
         Entry, OwnInv, Owns, HoldingPcs, RqPcs
    <3> QED
      BY <3>1, <3>2
  <2> QED
    BY <2>1, <2>2, <2>3, <2>4, <2>5 DEF RqStep
<1> QED
  BY <1>1, <1>2, <1>3, WorkerOwns

LEMMA ExecutionOwns ==
    ASSUME TypeInv, OwnInv, NEW w \in Workers, ExecutionStep(w)
    PROVE  OwnInv'
<1> USE DEF TypeInv, TypeOK, QueueTypeOK
<1>1. UNCHANGED <<rq, cur, job>>
  BY DEF ExecutionStep, AcquireLock, Claim, Ineligible, Progress, Complete, Reject,
     RowVanished, PersistUnexpected, Release, FailureCallback
<1>2. \A v \in Workers \ {w} : pc'[v] = pc[v]
  BY DEF Goto, Committed, ExecutionStep, AcquireLock, Claim,
     Ineligible, Progress, Complete, Reject, RowVanished, PersistUnexpected,
     Release, FailureCallback
<1>3. /\ pc[w] \in HoldingPcs \ {"fetched", "requeue"}
      /\ pc'[w] \in HoldingPcs \ {"fetched", "idle"}
  BY DEF HoldingPcs, RqPcs, UnderLockPcs, RunStages, NextStage, Goto, Committed,
     ExecutionStep, AcquireLock, Claim,
     Ineligible, Progress, Complete, Reject, RowVanished, PersistUnexpected,
     Release, FailureCallback
<1>4. Owns(w)' /\ EntriesHaveJobs'
  BY <1>1, <1>3 DEF Owns, EntriesHaveJobs, OwnInv, Live
<1> QED
  BY <1>1, <1>2, <1>4, WorkerOwns DEF OwnInv

(* Only an entry of the reconciliation pass or of a submission is new: it  *)
(* takes the place of one that is gone.                                    *)
LEMMA EnqueueEntries ==
    ASSUME TypeInv, OwnInv, NEW j \in Jobs, NEW c, enqueue(j, c)
    PROVE  /\ EntriesHaveJobs'
           /\ \A v \in Workers : cur[v] # None => rq'[cur[v]] = rq[cur[v]]
<1> USE DEF TypeInv, TypeOK, QueueTypeOK
<1>1. PICK r \in RqIds : /\ ~Live(r)
                         /\ rq' = [rq EXCEPT ![r] = [job |-> j, place |-> "queue",
                                                     retries |-> RetriesFor(c)]]
  BY DEF enqueue
<1>2. EntriesHaveJobs'
  BY <1>1 DEF EntriesHaveJobs, Live, OwnInv
<1>3. ASSUME NEW v \in Workers, cur[v] # None PROVE rq'[cur[v]] = rq[cur[v]]
  <2>1. cur[v] # r
    BY <1>1, <1>3, OwnedPlaces DEF Live
  <2> QED
    BY <1>1, <2>1
<1> QED
  BY <1>2, <1>3

LEMMA ReconciliationOwns ==
    ASSUME TypeInv, OwnInv, NEW w \in Workers, ReconciliationStep(w)
    PROVE  OwnInv'
<1> USE DEF TypeInv, TypeOK, QueueTypeOK
<1>1. \A v \in Workers \ {w} :
          pc'[v] = pc[v] /\ cur'[v] = cur[v] /\ job'[v] = job[v]
  BY DEF Goto, Exit, ReconciliationStep, StartWorker, ScanRegistry, ListCandidates,
     SkipCandidate, LockCandidate, RefreshCandidate, LeaveCandidate,
     FailCandidate, RecoverCandidate, EnqueueCandidate, ReleaseCandidate,
     FinishReconciliation, AbortReconciliation
<1>2. pc[w] \in {"down"} \cup RecPcs /\ pc'[w] \in {"down", "idle"} \cup RecPcs
  BY DEF Goto, Exit, AfterScan, RecPcs, RecUnderLock, ScanSteps,
     ReconciliationStep, StartWorker, ScanRegistry, ListCandidates,
     SkipCandidate, LockCandidate, RefreshCandidate, LeaveCandidate,
     FailCandidate, RecoverCandidate, EnqueueCandidate, ReleaseCandidate,
     FinishReconciliation, AbortReconciliation
<1>3. pc[w] \notin HoldingPcs /\ pc'[w] \notin HoldingPcs
  BY <1>2 DEF HoldingPcs, RqPcs, UnderLockPcs, RunStages, RecPcs, RecUnderLock, ScanSteps
<1>4. cur[w] = None /\ cur'[w] = None
  BY <1>3 DEF OwnInv, Owns, Exit, ReconciliationStep, StartWorker, ScanRegistry, ListCandidates,
     SkipCandidate, LockCandidate, RefreshCandidate, LeaveCandidate,
     FailCandidate, RecoverCandidate, EnqueueCandidate, ReleaseCandidate,
     FinishReconciliation, AbortReconciliation
<1>5. pc'[w] = "idle" => job'[w] = None
  BY <1>2 DEF WorkerLocals, Goto, Exit, AfterScan, RecPcs, RecUnderLock, ScanSteps,
     ReconciliationStep, StartWorker, ScanRegistry, ListCandidates,
     SkipCandidate, LockCandidate, RefreshCandidate, LeaveCandidate,
     FailCandidate, RecoverCandidate, EnqueueCandidate, ReleaseCandidate,
     FinishReconciliation, AbortReconciliation
<1>6. /\ EntriesHaveJobs'
      /\ \A v \in Workers : cur[v] # None => rq'[cur[v]] = rq[cur[v]]
  <2>1. CASE EnqueueCandidate(w)
    <3>1. job[w] \in Jobs
      BY <2>1 DEF EnqueueCandidate, WorkerLocals, RecUnderLock
    <3> QED
      BY <2>1, <3>1, EnqueueEntries DEF EnqueueCandidate
  <2>2. CASE ~EnqueueCandidate(w)
    <3>1. UNCHANGED rq
      BY <2>2 DEF ReconciliationStep, StartWorker, ScanRegistry, ListCandidates,
         SkipCandidate, LockCandidate, RefreshCandidate, LeaveCandidate,
         FailCandidate, RecoverCandidate, ReleaseCandidate,
         FinishReconciliation, AbortReconciliation
    <3> QED
      BY <3>1 DEF EntriesHaveJobs, OwnInv, Live
  <2> QED
    BY <2>1, <2>2
<1>7. Owns(w)'
  BY <1>3, <1>4, <1>5 DEF Owns
<1> QED
  BY <1>1, <1>4, <1>6, <1>7, WorkerOwns

LEMMA FaultOwns ==
    ASSUME TypeInv, OwnInv, NEW w \in Workers, FaultStep(w) \/ Shutdown(w)
    PROVE  OwnInv'
<1> USE DEF TypeInv, TypeOK, QueueTypeOK
<1>1. \A v \in Workers \ {w} :
          pc'[v] = pc[v] /\ cur'[v] = cur[v] /\ job'[v] = job[v]
  BY DEF Goto, Exit, workerVars, FaultStep, LockTimeout, LockError, TransientError,
     UnexpectedError, Kill, Crash, Shutdown, RecycleConnection, ReconciliationError
<1>2. /\ EntriesHaveJobs'
      /\ \A v \in Workers : cur[v] # None => rq'[cur[v]] = rq[cur[v]]
  <2>1. CASE enqueue(job[w], MaxRetries - rec[w].row.attempts) /\ pc[w] = "rec_enqueue"
    <3>1. job[w] \in Jobs
      BY <2>1 DEF WorkerLocals, RecUnderLock
    <3> QED
      BY <2>1, <3>1, EnqueueEntries
  <2>2. CASE UNCHANGED rq
    BY <2>2 DEF EntriesHaveJobs, OwnInv, Live
  <2> QED
    BY <2>1, <2>2 DEF FaultStep, LockTimeout, LockError, TransientError,
       UnexpectedError, Kill, Crash, Shutdown, RecycleConnection, ReconciliationError
<1>3. Owns(w)' /\ cur'[w] \in {cur[w], None}
  <2>1. CASE Crash(w) \/ Shutdown(w) \/ ReconciliationError(w)
    BY <2>1 DEF Crash, Shutdown, ReconciliationError, Exit, Goto, Owns, HoldingPcs,
       RqPcs, UnderLockPcs, RunStages
  <2>2. CASE RecycleConnection(w)
    BY <2>2 DEF RecycleConnection, workerVars, Owns, Live, OwnInv
  <2>3. CASE LockTimeout(w) \/ LockError(w) \/ TransientError(w) \/ UnexpectedError(w) \/ Kill(w)
    <3>1. UNCHANGED <<rq, cur, job>>
      BY <2>3 DEF LockTimeout, LockError, TransientError, UnexpectedError, Kill
    <3>2. /\ pc[w] \in HoldingPcs \ {"fetched", "requeue"}
          /\ pc'[w] \in HoldingPcs \ {"fetched", "idle"}
      BY <2>3 DEF LockTimeout, LockError, TransientError, UnexpectedError, Kill, Goto,
         HoldingPcs, RqPcs, UnderLockPcs, RunStages
    <3> QED
      BY <3>1, <3>2 DEF Owns, OwnInv, Live
  <2> QED
    BY <2>1, <2>2, <2>3 DEF FaultStep
<1>4. \A v \in Workers \ {w} : cur[v] # None => cur'[w] # cur[v]
  BY <1>3 DEF OwnInv
<1> QED
  BY <1>1, <1>2, <1>3, <1>4, WorkerOwns

LEMMA SubmitOwns ==
    ASSUME TypeInv, OwnInv, NEW j \in Jobs,
           SubmitLock(j) \/ SubmitStep(j) \/ SubmitCrash(j)
    PROVE  OwnInv'
<1> USE DEF TypeInv, TypeOK, QueueTypeOK
<1>1. UNCHANGED <<pc, cur, job>>
  BY DEF workerVars, SubmitLock, SubmitStep, SubmitCreate, SubmitEnqueue,
     SubmitFail, SubmitRelease, SubmitCrash, Submitting, SubmitEnds
<1>2. /\ EntriesHaveJobs'
      /\ \A v \in Workers : cur[v] # None => rq'[cur[v]] = rq[cur[v]]
  <2>1. CASE enqueue(j, None)
    BY <2>1, EnqueueEntries
  <2>2. CASE UNCHANGED rq
    BY <2>2 DEF EntriesHaveJobs, OwnInv, Live
  <2> QED
    BY <2>1, <2>2 DEF SubmitLock, SubmitStep, SubmitCreate, SubmitEnqueue,
     SubmitFail, SubmitRelease, SubmitCrash, Submitting, SubmitEnds
<1>3. ASSUME NEW w \in Workers PROVE Owns(w)'
  <2>1. CASE cur[w] = None
    BY <1>1, <2>1, QueueAssumption DEF Owns, OwnInv
  <2>2. CASE cur[w] # None
    BY <1>1, <1>2, <2>2 DEF Owns, OwnInv, Live
  <2> QED
    BY <2>1, <2>2
<1> QED
  BY <1>1, <1>2, <1>3 DEF OwnInv

LEMMA EnvironmentOwns ==
    ASSUME TypeInv, OwnInv,
           (\E r \in RqIds : Promote(r) \/ LoseEntry(r)) \/ CleanupPreviewJobs \/ TimePasses
    PROVE  OwnInv'
<1> USE DEF TypeInv, TypeOK, QueueTypeOK
<1>1. UNCHANGED <<pc, cur, job>>
  BY DEF Promote, LoseEntry, CleanupPreviewJobs, TimePasses, workerVars
<1>2. EntriesHaveJobs'
  BY SMTT(30) DEF Promote, LoseEntry, CleanupPreviewJobs, TimePasses, RqMove, RqRemove, NoEntry,
     Entry, EntriesHaveJobs, OwnInv, Live
<1>3. ASSUME NEW w \in Workers PROVE Owns(w)'
  <2>1. CASE cur[w] = None
    BY <1>1, <2>1, QueueAssumption DEF Owns, OwnInv
  <2>2. CASE cur[w] # None
    <3>1. cur[w] \in RqIds /\ rq[cur[w]].place \in {"intermediate", "started"}
      BY <2>2, OwnedPlaces
    <3>2. rq'[cur[w]] = rq[cur[w]]
      BY <3>1 DEF Promote, LoseEntry, CleanupPreviewJobs, TimePasses, RqMove, RqRemove
    <3> QED
      BY <1>1, <2>2, <3>2 DEF Owns, OwnInv, Live
  <2> QED
    BY <2>1, <2>2
<1> QED
  BY <1>1, <1>2, <1>3 DEF OwnInv

(* Ownership holds for any number of workers and under every fault: no two *)
(* workers ever process the same RQ entry, and an entry is taken to be     *)
(* abandoned only when nobody has it.                                      *)
THEOREM Ownership == Spec => []OwnInv
<1>1. Init => OwnInv
  BY DEF Init, QueueInit, NoEntry, OwnInv, Owns, EntriesHaveJobs, Live, HoldingPcs, RqPcs,
     UnderLockPcs, RunStages
<1>2. TypeInv /\ OwnInv /\ [Next]_vars => OwnInv'
  <2> SUFFICES ASSUME TypeInv, OwnInv, [Next]_vars PROVE OwnInv'
    OBVIOUS
  <2>1. CASE UNCHANGED vars
    BY <2>1 DEF vars, OwnInv, Owns, EntriesHaveJobs, Live
  <2>2. CASE \E j \in Jobs : SubmitLock(j) \/ SubmitStep(j) \/ SubmitCrash(j)
    BY <2>2, SubmitOwns
  <2>5. CASE \E j \in Jobs : CloseApiConnection(j)
    BY <2>5, ClosingFrame DEF OwnInv, Owns, EntriesHaveJobs, Live
  <2>3. CASE \E w \in Workers : WorkerStep(w) \/ FaultStep(w) \/ Shutdown(w)
    BY <2>3, RqOwns, ExecutionOwns, ReconciliationOwns, FaultOwns DEF WorkerStep
  <2>4. CASE (\E r \in RqIds : Promote(r) \/ LoseEntry(r)) \/ CleanupPreviewJobs \/ TimePasses
    BY <2>4, EnvironmentOwns
  <2> QED
    BY <2>1, <2>2, <2>3, <2>4, <2>5 DEF Next
<1> QED
  BY <1>1, <1>2, TypeInvariant, PTL DEF Spec

-----------------------------------------------------------------------------
(* Submission and the rest.  A row, an entry and a worker's interest in a  *)
(* job exist only after the request that submits it has created them; the  *)
(* request keeps the lock to its end, and is over when a worker has it.    *)

Unborn == {"idle", "locked"}    \* before the transaction that creates the row

RowsAreBorn == \A j \in Jobs : sub[j] \in Unborn => ~Exists(j)

RowsWait ==
    \A j \in Jobs \ exposed :
        /\ sub[j] = "created" => jobs[j].status \in {"queued", "absent"} /\ jobs[j].attempts = 0
        /\ sub[j] = "enqueue_error" => jobs[j].status \in {"queued", "failed", "absent"}

(* The request still has to enqueue j, which only an exposed job may find  *)
(* done already.                                                           *)
Early(j) == sub[j] \in Unborn \/ (sub[j] = "created" /\ j \notin exposed)

EntriesAreBorn == \A r \in RqIds : Live(r) => ~Early(rq[r].job)

ApiKeepsLock == \A j \in Jobs \ exposed : Submitting(j) => lock[j] = Api

(* The submission of j is over, or has lost its lock.                      *)
Past(j) == sub[j] \notin Unborn /\ (sub[j] \in SubmitEnds \/ j \in exposed)

SectionsAfter == \A w \in Workers, j \in Jobs : InSection(w, j) => Past(j)

CandidatesAreBorn ==
    \A w \in Workers : \A k \in DOMAIN rec[w].todo : sub[rec[w].todo[k]] \notin Unborn

BirthInv == /\ RowsAreBorn /\ RowsWait /\ EntriesAreBorn
            /\ ApiKeepsLock /\ SectionsAfter /\ CandidatesAreBorn

(* A worker writes only to the row of its job, which is born, and before   *)
(* the submission is over only by the guarded transition.                  *)
LEMMA WorkerRows ==
    ASSUME TypeInv, OwnInv, BirthInv, NEW w \in Workers,
           WorkerStep(w) \/ FaultStep(w) \/ Shutdown(w),
           NEW j \in Jobs, jobs'[j] # jobs[j]
    PROVE  /\ job[w] = j /\ ~Early(j)
           /\ \/ Past(j) /\ InSection(w, j)
              \/ /\ Nonterminal(j)
                 /\ jobs'[j] \in {QueuedRow(jobs[j]), FailedRow(jobs[j])}
<1> USE DEF TypeInv, TypeOK, StoreTypeOK
<1>0. ~RqStep(w) /\ ~FaultStep(w) /\ ~Shutdown(w)
  BY DEF RqStep, Dequeue, AdoptAbandoned, StartExecution, Succeed, Requeue, FaultStep,
     LockTimeout, LockError, TransientError, UnexpectedError, Kill, Crash, Shutdown,
     RecycleConnection, ReconciliationError, storeVars
<1>1. CASE Claim(w) \/ Progress(w) \/ Complete(w) \/ Reject(w)
  <2>1. job[w] = j
    BY <1>1 DEF Claim, Progress, Complete, Reject, claim_job, update_progress,
       complete_job, fail_job, SetRow
  <2>2. InSection(w, j)
    BY <1>1, <2>1 DEF InSection, UnderLockPcs, RunStages, Claim, Progress, Complete, Reject
  <2> QED
    BY <2>1, <2>2 DEF BirthInv, SectionsAfter, Past, Early, SubmitEnds
<1>2. CASE PersistUnexpected(w) \/ FailureCallback(w)
  <2>1. /\ job[w] = j /\ Nonterminal(j)
        /\ jobs'[j] \in {QueuedRow(jobs[j]), FailedRow(jobs[j])}
    BY <1>2 DEF PersistUnexpected, FailureCallback, SetRow,
       transition_job_after_operational_failure
  <2>2. pc[w] \in HoldingPcs
    BY <1>2 DEF PersistUnexpected, FailureCallback, HoldingPcs, RqPcs, UnderLockPcs
  <2>3. cur[w] \in RqIds /\ Live(cur[w]) /\ rq[cur[w]].job = j
    BY <2>1, <2>2 DEF OwnInv, Owns
  <2> QED
    BY <2>1, <2>3 DEF BirthInv, EntriesAreBorn
<1>3. CASE FailCandidate(w) \/ RecoverCandidate(w)
  <2>1. job[w] = j
    BY <1>3 DEF FailCandidate, RecoverCandidate, SetRow,
       transition_job_after_operational_failure
  <2>2. InSection(w, j)
    BY <1>3, <2>1 DEF InSection, RecUnderLock, FailCandidate, RecoverCandidate
  <2> QED
    BY <2>1, <2>2 DEF BirthInv, SectionsAfter, Past, Early, SubmitEnds
<1>4. CASE /\ ~Claim(w) /\ ~Progress(w) /\ ~Complete(w) /\ ~Reject(w)
           /\ ~PersistUnexpected(w) /\ ~FailureCallback(w)
           /\ ~FailCandidate(w) /\ ~RecoverCandidate(w)
  <2>1. UNCHANGED jobs
    BY <1>0, <1>4 DEF WorkerStep, ExecutionStep, ReconciliationStep, storeVars,
       AcquireLock, Ineligible, RowVanished, Release,
       StartWorker, ScanRegistry, ListCandidates, SkipCandidate, LockCandidate,
       RefreshCandidate, LeaveCandidate, EnqueueCandidate,
       ReleaseCandidate, FinishReconciliation, AbortReconciliation
  <2> QED
    BY <2>1
<1> QED
  BY <1>1, <1>2, <1>3, <1>4

(* No step of a worker touches the lock that a request holds. *)
LEMMA WorkerLockFrame ==
    ASSUME TypeInv, NEW w \in Workers, WorkerStep(w) \/ FaultStep(w) \/ Shutdown(w)
    PROVE  \A j \in Jobs : lock[j] \notin {w, Free} => lock'[j] = lock[j]
<1> USE DEF TypeInv, TypeOK, StoreTypeOK, storeVars, Exit, DropLocks,
     try_acquire_preview_job_lock, release_preview_job_lock
<1>1. CASE RqStep(w) \/ ExecutionStep(w)
  BY <1>1 DEF RqStep, Dequeue, AdoptAbandoned, StartExecution, Succeed, Requeue,
     ExecutionStep, AcquireLock, Claim, Ineligible, Progress, Complete, Reject,
     RowVanished, PersistUnexpected, Release, FailureCallback
<1>2. CASE ReconciliationStep(w)
  BY <1>2, ZenonT(60) DEF ReconciliationStep, StartWorker, ScanRegistry, ListCandidates,
     SkipCandidate, LockCandidate, RefreshCandidate, LeaveCandidate,
     FailCandidate, RecoverCandidate, EnqueueCandidate, ReleaseCandidate,
     FinishReconciliation, AbortReconciliation
<1>3. CASE FaultStep(w) \/ Shutdown(w)
  BY <1>3 DEF FaultStep, LockTimeout, LockError, TransientError, UnexpectedError,
     Kill, Crash, Shutdown, RecycleConnection, ReconciliationError
<1> QED
  BY <1>1, <1>2, <1>3 DEF WorkerStep

(* A worker step is a step of no request and of no other worker. *)
LEMMA WorkerFrame ==
    ASSUME TypeInv, NEW w \in Workers, WorkerStep(w) \/ FaultStep(w) \/ Shutdown(w)
    PROVE  /\ UNCHANGED <<sub, now, exposed>>
           /\ \A v \in Workers \ {w} : /\ pc'[v] = pc[v] /\ cur'[v] = cur[v]
                                       /\ job'[v] = job[v] /\ rec'[v] = rec[v]
<1>0. exposed' = exposed
  BY NothingExposed
<1> USE DEF TypeInv, TypeOK, storeVars, workerVars, Exit, Goto, RecSet, BackToIdle
<1>1. CASE RqStep(w) \/ ExecutionStep(w)
  BY <1>0, <1>1 DEF Committed, RqStep, Dequeue, AdoptAbandoned, StartExecution, Succeed, Requeue,
     ExecutionStep, AcquireLock, Claim, Ineligible, Progress, Complete, Reject,
     RowVanished, PersistUnexpected, Release, FailureCallback
<1>2. CASE ReconciliationStep(w)
  BY <1>0, <1>2 DEF ReconciliationStep, StartWorker, ScanRegistry, ListCandidates,
     SkipCandidate, LockCandidate, RefreshCandidate, LeaveCandidate,
     FailCandidate, RecoverCandidate, EnqueueCandidate, ReleaseCandidate,
     FinishReconciliation, AbortReconciliation
<1>3. CASE FaultStep(w) \/ Shutdown(w)
  BY <1>0, <1>3 DEF FaultStep, LockTimeout, LockError, TransientError, UnexpectedError,
     Kill, Crash, Shutdown, RecycleConnection, ReconciliationError
<1> QED
  BY <1>0, <1>1, <1>2, <1>3 DEF WorkerStep

(* The entries after an action: those before it, moved or removed, and at  *)
(* most one new one.                                                       *)
LEMMA MovedEntries ==
    ASSUME TypeInv, NEW r,
           (\E p \in Places \ {"gone"} : RqMove(r, p) /\ Live(r)) \/ RqRemove(r)
               \/ (RqHandleFailure(r) /\ Live(r)) \/ UNCHANGED rq
    PROVE  \A s \in RqIds : Live(s)' => Live(s) /\ rq'[s].job = rq[s].job
BY DEF TypeInv, TypeOK, QueueTypeOK, Entry, Live, RqMove, RqRemove, RqHandleFailure, NoEntry

LEMMA NewEntry ==
    ASSUME TypeInv, NEW j, NEW c, enqueue(j, c)
    PROVE  \E r \in RqIds :
              /\ ~Live(r) /\ rq'[r] = [job |-> j, place |-> "queue", retries |-> RetriesFor(c)]
              /\ \A s \in RqIds \ {r} : rq'[s] = rq[s]
BY DEF TypeInv, TypeOK, QueueTypeOK, enqueue

(* The entries a worker step makes or keeps. *)
LEMMA WorkerEntries ==
    ASSUME TypeInv, OwnInv, NEW w \in Workers, WorkerStep(w) \/ FaultStep(w) \/ Shutdown(w),
           NEW s \in RqIds, Live(s)'
    PROVE  \/ Live(s) /\ rq'[s].job = rq[s].job
           \/ rq'[s].job = job[w] /\ pc[w] = "rec_enqueue"
<1>1. CASE \E r \in RqIds : Dequeue(w, r)
  BY <1>1, MovedEntries DEF Dequeue, Places, Live
<1>2. CASE StartExecution(w) \/ Succeed(w) \/ Requeue(w)
  <2>1. pc[w] \in HoldingPcs
    BY <1>2 DEF StartExecution, Succeed, Requeue, HoldingPcs, RqPcs
  <2>2. Live(cur[w])
    BY <2>1 DEF OwnInv, Owns
  <2> QED
    BY <1>2, <2>2, MovedEntries DEF StartExecution, Succeed, Requeue, Places
<1>3. CASE pc[w] = "rec_enqueue" /\ enqueue(job[w], MaxRetries - rec[w].row.attempts)
  <2> DEFINE c == MaxRetries - rec[w].row.attempts
  <2> HIDE DEF c
  <2>1. enqueue(job[w], c)
    BY <1>3 DEF c
  <2>2. PICK r \in RqIds :
            /\ rq'[r] = [job |-> job[w], place |-> "queue", retries |-> RetriesFor(c)]
            /\ \A t \in RqIds \ {r} : rq'[t] = rq[t]
    BY <2>1, NewEntry
  <2> QED
    BY <1>3, <2>2 DEF Live
<1>4. CASE UNCHANGED rq
  BY <1>4 DEF Live
<1>5. CASE EnqueueCandidate(w) \/ ReconciliationError(w)
  BY <1>3, <1>4, <1>5 DEF EnqueueCandidate, ReconciliationError
<1> QED
  BY <1>1, <1>2, <1>3, <1>4, <1>5 DEF WorkerStep, RqStep, AdoptAbandoned, ExecutionStep,
     AcquireLock, Claim, Ineligible, Progress, Complete, Reject, RowVanished,
     PersistUnexpected, Release, FailureCallback, ReconciliationStep, StartWorker,
     ScanRegistry, ListCandidates, SkipCandidate, LockCandidate, RefreshCandidate,
     LeaveCandidate, FailCandidate, RecoverCandidate, ReleaseCandidate,
     FinishReconciliation, AbortReconciliation, FaultStep, LockTimeout, LockError,
     TransientError, UnexpectedError, Kill, Crash, Shutdown, RecycleConnection

(* How a worker comes into a critical section: it was there, or it has     *)
(* just been given the free lock of a job that is born.                    *)
LEMMA EntersSection ==
    ASSUME TypeInv, OwnInv, BirthInv, NEW w \in Workers,
           WorkerStep(w) \/ FaultStep(w) \/ Shutdown(w),
           NEW j \in Jobs, InSection(w, j)'
    PROVE  \/ InSection(w, j)
           \/ lock[j] = Free /\ sub[j] \notin Unborn
<1> USE DEF TypeInv, TypeOK, Goto
<1>1. CASE RqStep(w)
  <2>1. \A i \in Jobs : ~InSection(w, i)'
    BY <1>1 DEF RqStep, Dequeue, AdoptAbandoned, StartExecution, Succeed,
       Requeue, BackToIdle, InSection, UnderLockPcs, RunStages, RecUnderLock, ScanSteps
  <2> QED
    BY <2>1
<1>2. CASE AcquireLock(w)
  <2>1. pc[w] \in HoldingPcs /\ job[w] = j /\ lock[j] = Free
    BY <1>2 DEF AcquireLock, HoldingPcs, RqPcs, InSection, try_acquire_preview_job_lock
  <2>2. cur[w] \in RqIds /\ Live(cur[w]) /\ rq[cur[w]].job = j
    BY <2>1 DEF OwnInv, Owns
  <2> QED
    BY <2>1, <2>2 DEF BirthInv, EntriesAreBorn, Early
<1>3. CASE ExecutionStep(w) /\ ~AcquireLock(w)
  <2>1. /\ job'[w] = job[w]
        /\ pc[w] \in UnderLockPcs \/ pc'[w] \in {"succeed", "requeue"}
    BY <1>3 DEF ExecutionStep, Claim, Ineligible, Progress, Complete, Reject,
       RowVanished, PersistUnexpected, Release, FailureCallback, UnderLockPcs, RunStages
  <2> QED
    BY <2>1 DEF InSection, UnderLockPcs, RunStages, RecUnderLock, ScanSteps
<1>4. CASE LockCandidate(w)
  <2>1. rec[w].todo \in Seq(Jobs) /\ rec[w].todo # << >>
    BY <1>4 DEF LockCandidate, RecState
  <2>2. j = rec[w].todo[1] /\ 1 \in DOMAIN rec[w].todo
    BY <1>4, <2>1 DEF LockCandidate, Candidate, InSection
  <2> QED
    BY <1>4, <2>2 DEF LockCandidate, Candidate, InSection, try_acquire_preview_job_lock,
       BirthInv, CandidatesAreBorn
<1>5. CASE ReconciliationStep(w) /\ ~LockCandidate(w)
  <2>1. CASE \/ StartWorker(w) \/ ListCandidates(w) \/ SkipCandidate(w)
             \/ ReleaseCandidate(w) \/ FinishReconciliation(w) \/ AbortReconciliation(w)
    <3>1. job'[w] = None
      BY <2>1 DEF StartWorker, ListCandidates, SkipCandidate, ReleaseCandidate,
         FinishReconciliation, AbortReconciliation, Exit, WorkerLocals
    <3> QED
      BY <3>1, StoreAssumption DEF InSection
  <2>2. CASE \/ ScanRegistry(w) \/ RefreshCandidate(w) \/ LeaveCandidate(w)
             \/ FailCandidate(w) \/ RecoverCandidate(w) \/ EnqueueCandidate(w)
    <3>1. pc[w] \in RecUnderLock \cup ScanSteps /\ UNCHANGED job
      BY <2>2 DEF ScanRegistry, RefreshCandidate, LeaveCandidate, FailCandidate,
         RecoverCandidate, EnqueueCandidate, RecUnderLock
    <3> QED
      BY <3>1 DEF InSection
  <2> QED
    BY <1>5, <2>1, <2>2 DEF ReconciliationStep
<1>6. CASE FaultStep(w) \/ Shutdown(w)
  <2>1. CASE RecycleConnection(w)
    BY <2>1 DEF RecycleConnection, workerVars, InSection
  <2>2. CASE TransientError(w) \/ (UnexpectedError(w) /\ pc[w] # "waiting")
    <3>1. pc[w] \in UnderLockPcs /\ UNCHANGED job
      BY <2>2 DEF TransientError, UnexpectedError, UnderLockPcs
    <3> QED
      BY <3>1 DEF InSection
  <2>3. CASE ~RecycleConnection(w) /\ ~TransientError(w) /\ ~(UnexpectedError(w) /\ pc[w] # "waiting")
    <3>1. pc'[w] \in {"succeed", "callback", "requeue", "down", "unlocked_error"}
      BY <1>6, <2>3 DEF FaultStep, LockTimeout, LockError, Kill, Crash, Shutdown,
         ReconciliationError, UnexpectedError, Exit
    <3> QED
      BY <3>1 DEF InSection, UnderLockPcs, RunStages, RecUnderLock, ScanSteps
  <2> QED
    BY <2>1, <2>2, <2>3
<1> QED
  BY <1>1, <1>2, <1>3, <1>4, <1>5, <1>6 DEF WorkerStep

(* A candidate is taken from the rows that are there; nothing else enters  *)
(* the list.                                                               *)
LEMMA WorkerCandidates ==
    ASSUME TypeInv, BirthInv, NEW w \in Workers, WorkerStep(w) \/ FaultStep(w) \/ Shutdown(w)
    PROVE  \A k \in DOMAIN rec'[w].todo : sub[rec'[w].todo[k]] \notin Unborn
<1> USE DEF TypeInv, TypeOK, RecSet
<1>0. rec[w].todo \in Seq(Jobs) /\ \A k \in DOMAIN rec[w].todo : sub[rec[w].todo[k]] \notin Unborn
  BY DEF RecState, BirthInv, CandidatesAreBorn
<1>1. CASE rec'[w].todo = rec[w].todo
  BY <1>0, <1>1
<1>2. CASE rec'[w].todo = << >>
  BY <1>2
<1>3. CASE rec'[w].todo = Tail(rec[w].todo) /\ rec[w].todo # << >>
  <2>1. \A k \in DOMAIN rec'[w].todo :
            k + 1 \in DOMAIN rec[w].todo /\ rec'[w].todo[k] = rec[w].todo[k + 1]
    BY <1>0, <1>3
  <2> QED
    BY <1>0, <2>1
<1>4. CASE ListCandidates(w)
  <2> DEFINE Open == {j \in Jobs : Nonterminal(j)}
             Size == IF Cardinality(Open) < BatchSize THEN Cardinality(Open) ELSE BatchSize
             S == {j \in Jobs : Nonterminal(j) /\ WorthLocking(rec[w].at, jobs[j])}
  <2>1. PICK q \in list_reconciliation_candidates(BatchSize) :
            RecSet(w, [rec[w] EXCEPT !.todo = q, !.snap = TRUE, !.worth = S])
    BY <1>4 DEF ListCandidates
  <2>2. q \in [1..Size -> Open]
    BY <2>1 DEF list_reconciliation_candidates
  <2> HIDE DEF Size, S
  <2>3. rec'[w].todo = q
    BY <2>1 DEF RecState
  <2>4. ASSUME NEW k \in DOMAIN q PROVE sub[q[k]] \notin Unborn
    BY <2>2, <2>4 DEF BirthInv, RowsAreBorn, Nonterminal, Exists
  <2> QED
    BY <2>3, <2>4
<1>5. CASE SkipCandidate(w) \/ ReleaseCandidate(w)
  <2>1. rec[w].todo # << >>
    BY <1>5 DEF SkipCandidate, ReleaseCandidate, WorkerLocals, RecUnderLock
  <2>2. rec'[w].todo = Tail(rec[w].todo)
    BY <1>5, ZenonT(60) DEF SkipCandidate, ReleaseCandidate, RecState
  <2> QED
    BY <1>3, <2>1, <2>2
<1>6. CASE StartWorker(w) \/ FinishReconciliation(w)
  BY <1>2, <1>6 DEF StartWorker, FinishReconciliation, NoRec
<1>7. CASE AbortReconciliation(w) \/ Crash(w) \/ Shutdown(w) \/ ReconciliationError(w)
  BY <1>2, <1>7 DEF AbortReconciliation, Crash, Shutdown, ReconciliationError, Exit, NoRec
<1>8. CASE ScanRegistry(w) \/ RefreshCandidate(w)
  BY <1>1, <1>8, ZenonT(60) DEF ScanRegistry, RefreshCandidate, RecState
<1>9. CASE RecoverCandidate(w) \/ EnqueueCandidate(w)
  <2>1. rec[w] \in RecState /\ rec \in [Workers -> RecState]
    OBVIOUS
  <2>2. CASE RecoverCandidate(w)
    BY <1>1, <2>1, <2>2, ZenonT(60) DEF RecoverCandidate, RecState
  <2>3. CASE EnqueueCandidate(w)
    BY <1>1, <2>1, <2>3 DEF EnqueueCandidate, RecState
  <2> QED
    BY <1>9, <2>2, <2>3
<1>10. CASE UNCHANGED rec
  BY <1>1, <1>10
<1> QED
  BY <1>4, <1>5, <1>6, <1>7, <1>8, <1>9, <1>10 DEF WorkerStep, RqStep, Dequeue,
     StartExecution, Succeed, Requeue, AdoptAbandoned, ExecutionStep,
     AcquireLock, Claim, Ineligible, Progress, Complete, Reject, RowVanished,
     PersistUnexpected, Release, FailureCallback, ReconciliationStep,
     LockCandidate, LeaveCandidate, FailCandidate, FaultStep, LockTimeout, LockError,
     TransientError, UnexpectedError, Kill, RecycleConnection, workerVars

LEMMA WorkerBirths ==
    ASSUME TypeInv, OwnInv, BirthInv, NEW w \in Workers,
           WorkerStep(w) \/ FaultStep(w) \/ Shutdown(w)
    PROVE  BirthInv'
<1>1. /\ UNCHANGED <<sub, now, exposed>>
      /\ \A v \in Workers \ {w} : /\ pc'[v] = pc[v] /\ cur'[v] = cur[v]
                                  /\ job'[v] = job[v] /\ rec'[v] = rec[v]
  BY WorkerFrame
<1>2. RowsAreBorn'
  <2> SUFFICES ASSUME NEW j \in Jobs, sub[j] \in Unborn PROVE ~Exists(j)'
    BY <1>1 DEF RowsAreBorn
  <2>1. jobs'[j] = jobs[j]
    BY WorkerRows DEF Early
  <2> QED
    BY <2>1 DEF BirthInv, RowsAreBorn, Exists
<1>3. RowsWait'
  <2> SUFFICES ASSUME NEW j \in Jobs \ exposed
               PROVE  /\ sub[j] = "created" => /\ jobs'[j].status \in {"queued", "absent"}
                                               /\ jobs'[j].attempts = 0
                      /\ sub[j] = "enqueue_error" =>
                             jobs'[j].status \in {"queued", "failed", "absent"}
    BY <1>1 DEF RowsWait
  <2>1. CASE jobs'[j] = jobs[j]
    BY <2>1 DEF BirthInv, RowsWait
  <2>2. CASE jobs'[j] # jobs[j]
    <3>1. sub[j] # "created" /\ (sub[j] \in SubmitEnds \/ jobs'[j] \in {QueuedRow(jobs[j]), FailedRow(jobs[j])})
      BY <2>2, WorkerRows DEF Early, Past
    <3>2. jobs[j] \in Row
      BY DEF TypeInv, TypeOK, StoreTypeOK
    <3>3. QueuedRow(jobs[j]).status = "queued" /\ FailedRow(jobs[j]).status = "failed"
      BY <3>2 DEF Row, QueuedRow, FailedRow
    <3> QED
      BY <3>1, <3>3 DEF SubmitEnds
  <2> QED
    BY <2>1, <2>2
<1>4. EntriesAreBorn'
  <2> SUFFICES ASSUME NEW r \in RqIds, Live(r)'
               PROVE  ~Early(rq'[r].job)
    BY <1>1 DEF EntriesAreBorn, Early
  <2>1. CASE Live(r) /\ rq'[r].job = rq[r].job
    BY <2>1 DEF BirthInv, EntriesAreBorn
  <2>2. CASE rq'[r].job = job[w] /\ pc[w] = "rec_enqueue"
    <3>1. job[w] \in Jobs /\ InSection(w, job[w])
      BY <2>2 DEF TypeInv, WorkerLocals, RecUnderLock, InSection
    <3> QED
      BY <2>2, <3>1 DEF BirthInv, SectionsAfter, SubmitEnds, Past, Early
  <2> QED
    BY <2>1, <2>2, WorkerEntries
<1>5. ApiKeepsLock'
  <2>1. \A j \in Jobs : lock[j] \notin {w, Free} => lock'[j] = lock[j]
    BY WorkerLockFrame
  <2>2. Api # Free /\ Api # w
    BY StoreAssumption DEF Api, Free
  <2> QED
    BY <1>1, <2>1, <2>2 DEF BirthInv, ApiKeepsLock, Submitting, SubmitEnds
<1>6. SectionsAfter'
  <2> SUFFICES ASSUME NEW v \in Workers, NEW j \in Jobs, InSection(v, j)'
               PROVE  Past(j)
    BY <1>1 DEF SectionsAfter, Past
  <2>1. CASE InSection(v, j)
    BY <2>1 DEF BirthInv, SectionsAfter
  <2>2. CASE v = w /\ lock[j] = Free /\ sub[j] \notin Unborn
    BY <2>2 DEF BirthInv, ApiKeepsLock, Submitting, SubmitEnds, Unborn, Past, Api, Free
  <2>3. CASE v # w
    BY <1>1, <2>1, <2>3 DEF InSection
  <2> QED
    BY <2>1, <2>2, <2>3, EntersSection
<1>7. CandidatesAreBorn'
  <2>1. \A k \in DOMAIN rec'[w].todo : sub[rec'[w].todo[k]] \notin Unborn
    BY WorkerCandidates
  <2> QED
    BY <1>1, <2>1 DEF BirthInv, CandidatesAreBorn
<1> QED
  BY <1>2, <1>3, <1>4, <1>5, <1>6, <1>7 DEF BirthInv

LEMMA SubmitBirths ==
    ASSUME TypeInv, OwnInv, BirthInv, NEW j \in Jobs,
           SubmitLock(j) \/ SubmitStep(j) \/ SubmitCrash(j)
    PROVE  BirthInv'
<1> USE DEF TypeInv, TypeOK, StoreTypeOK, QueueTypeOK
<1>0. exposed' = exposed
  BY NothingExposed
<1>1. /\ UNCHANGED <<pc, cur, job, rec>>
      /\ \A i \in Jobs \ {j} : /\ sub'[i] = sub[i] /\ jobs'[i] = jobs[i]
                               /\ lock'[i] = lock[i]
  BY DEF workerVars, SubmitTo, SubmitLock, SubmitStep, SubmitCreate, SubmitEnqueue,
     SubmitFail, SubmitRelease, SubmitCrash, Submitting, SubmitEnds, create_job, fail_job, SetRow,
     try_acquire_preview_job_lock, release_preview_job_lock
<1>2. /\ sub'[j] \in Unborn => sub[j] = "idle" /\ jobs'[j] = jobs[j]
      /\ sub[j] \notin SubmitEnds
      /\ sub'[j] = "created" => sub[j] = "locked"
      /\ sub[j] = "idle" => sub'[j] = "locked"
  BY DEF SubmitTo, Unborn, SubmitLock, SubmitStep, SubmitCreate, SubmitEnqueue,
     SubmitFail, SubmitRelease, SubmitCrash, Submitting, SubmitEnds
<1>3. RowsAreBorn'
  BY <1>1, <1>2 DEF BirthInv, RowsAreBorn, Exists, Unborn
<1>4. RowsWait'
  <2>1. CASE sub'[j] = "created"
    <3>1. create_job(j)
      BY <2>1 DEF SubmitTo, SubmitLock, SubmitStep, SubmitCreate, SubmitEnqueue,
         SubmitFail, SubmitRelease, SubmitCrash, Submitting, SubmitEnds
    <3>2. jobs'[j].status = "queued" /\ jobs'[j].attempts = 0
      BY <3>1 DEF create_job, NoRow
    <3> QED
      BY <1>0, <1>1, <2>1, <3>2 DEF BirthInv, RowsWait
  <2>2. CASE sub'[j] = "enqueue_error"
    BY <1>0, <1>1, <2>2 DEF BirthInv, RowsWait, SubmitTo, SubmitLock, SubmitStep, SubmitCreate,
       SubmitEnqueue, SubmitFail, SubmitRelease, SubmitCrash, Submitting, SubmitEnds
  <2> QED
    BY <1>0, <1>1, <2>1, <2>2 DEF BirthInv, RowsWait
<1>5. EntriesAreBorn'
  <2> SUFFICES ASSUME NEW r \in RqIds, Live(r)'
               PROVE  sub'[rq'[r].job] \notin Unborn
                      /\ (sub'[rq'[r].job] = "created" => rq'[r].job \in exposed)
    BY <1>0 DEF EntriesAreBorn, Early
  <2>1. CASE Live(r) /\ rq'[r].job = rq[r].job
    <3>1. rq[r].job \in Jobs /\ ~Early(rq[r].job)
      BY <2>1 DEF BirthInv, EntriesAreBorn, OwnInv, EntriesHaveJobs
    <3> QED
      BY <1>1, <1>2, <2>1, <3>1 DEF Unborn, Early
  <2>2. CASE ~(Live(r) /\ rq'[r].job = rq[r].job)
    <3>1. SubmitEnqueue(j) /\ enqueue(j, None)
      BY <2>2 DEF Live, SubmitLock, SubmitStep, SubmitCreate, SubmitEnqueue,
         SubmitFail, SubmitRelease, SubmitCrash, Submitting, SubmitEnds
    <3>2. PICK s \in RqIds :
              /\ rq'[s] = [job |-> j, place |-> "queue", retries |-> RetriesFor(None)]
              /\ \A t \in RqIds \ {s} : rq'[t] = rq[t]
      BY <3>1, NewEntry
    <3>4. rq'[r].job = j
      BY <2>2, <3>2 DEF Live
    <3>3. sub'[j] \in {"release", "enqueue_error"}
      BY <3>1 DEF SubmitEnqueue, SubmitTo
    <3> QED
      BY <3>4, <3>3 DEF Unborn
  <2> QED
    BY <2>1, <2>2
<1>6. ApiKeepsLock'
  <2>1. Submitting(j)' /\ j \notin exposed => lock'[j] = Api
    BY DEF BirthInv, ApiKeepsLock, Submitting, SubmitEnds, SubmitTo, SubmitLock,
       SubmitStep, SubmitCreate, SubmitEnqueue, SubmitFail, SubmitRelease,
       SubmitCrash, Submitting, SubmitEnds, try_acquire_preview_job_lock, release_preview_job_lock
  <2> QED
    BY <1>0, <1>1, <2>1 DEF BirthInv, ApiKeepsLock, Submitting, SubmitEnds
<1>7. SectionsAfter'
  BY <1>0, <1>1, <1>2 DEF BirthInv, SectionsAfter, InSection, Past, Unborn
<1>8. CandidatesAreBorn'
  <2> SUFFICES ASSUME NEW w \in Workers, NEW k \in DOMAIN rec[w].todo
               PROVE  sub'[rec[w].todo[k]] \notin Unborn
    BY <1>1 DEF CandidatesAreBorn
  <2>1. rec[w].todo[k] \in Jobs /\ sub[rec[w].todo[k]] \notin Unborn
    <3>1. rec[w].todo \in Seq(Jobs)
      BY DEF RecState
    <3> QED
      BY <3>1 DEF BirthInv, CandidatesAreBorn
  <2> QED
    BY <1>1, <1>2, <2>1 DEF Unborn
<1> QED
  BY <1>3, <1>4, <1>5, <1>6, <1>7, <1>8 DEF BirthInv

LEMMA EnvironmentBirths ==
    ASSUME TypeInv, OwnInv, BirthInv,
           (\E r \in RqIds : Promote(r) \/ LoseEntry(r)) \/ CleanupPreviewJobs \/ TimePasses
    PROVE  BirthInv'
<1> USE DEF TypeInv, TypeOK, StoreTypeOK, QueueTypeOK
<1>1. UNCHANGED <<lock, sub, pc, cur, job, rec, exposed>>
  BY NothingExposed DEF Promote, LoseEntry, CleanupPreviewJobs, TimePasses, workerVars
<1>2. \A j \in Jobs : jobs'[j] \in {jobs[j], NoRow}
  BY DEF Promote, LoseEntry, CleanupPreviewJobs, TimePasses, delete_expired_jobs
<1>3. \A r \in RqIds : Live(r)' => Live(r) /\ rq'[r].job = rq[r].job
  BY MovedEntries DEF Promote, LoseEntry, CleanupPreviewJobs, TimePasses, Places, Live
<1>4. RowsAreBorn' /\ RowsWait'
  BY <1>1, <1>2 DEF BirthInv, RowsAreBorn, RowsWait, Exists, NoRow
<1>5. EntriesAreBorn'
  BY <1>1, <1>3 DEF BirthInv, EntriesAreBorn, Early
<1>6. ApiKeepsLock' /\ SectionsAfter' /\ CandidatesAreBorn'
  BY <1>1 DEF BirthInv, ApiKeepsLock, SectionsAfter, CandidatesAreBorn, Submitting,
     SubmitEnds, InSection, Past
<1> QED
  BY <1>4, <1>5, <1>6 DEF BirthInv

(* For any number of workers and every kind of fault: the request that     *)
(* submits a job and the workers that execute or recover it work on it at  *)
(* the same time only if the API's pool closed the connection with the     *)
(* lock of that very request, and a job whose row is deleted never comes   *)
(* back.                                                                   *)
THEOREM Births == Spec => []BirthInv
<1>1. Init => BirthInv
  BY DEF Init, StoreInit, QueueInit, NoRow, NoEntry, BirthInv, RowsAreBorn, RowsWait,
     EntriesAreBorn, ApiKeepsLock, SectionsAfter, CandidatesAreBorn, Exists, Live,
     Submitting, SubmitEnds, InSection, UnderLockPcs, RunStages, RecUnderLock, ScanSteps, NoRec, Unborn,
     Early, Past
<1>2. TypeInv /\ OwnInv /\ BirthInv /\ [Next]_vars => BirthInv'
  <2> SUFFICES ASSUME TypeInv, OwnInv, BirthInv, [Next]_vars PROVE BirthInv'
    OBVIOUS
  <2>1. CASE UNCHANGED vars
    BY <2>1 DEF vars, BirthInv, RowsAreBorn, RowsWait, EntriesAreBorn, ApiKeepsLock,
       SectionsAfter, CandidatesAreBorn, Exists, Live, Submitting, SubmitEnds, InSection,
       Early, Past
  <2>2. CASE \E j \in Jobs : SubmitLock(j) \/ SubmitStep(j) \/ SubmitCrash(j)
    BY <2>2, SubmitBirths
  <2>5. CASE \E j \in Jobs : CloseApiConnection(j)
    <3>1. PICK j \in Jobs : CloseApiConnection(j)
      BY <2>5
    <3>2. /\ UNCHANGED <<jobs, rq, sub, pc, job, rec>>
          /\ \A i \in Jobs \ {j} : lock'[i] = lock[i]
          /\ exposed \subseteq exposed' /\ (sub[j] = "leaked" \/ j \in exposed')
      BY <3>1, ClosingFrame DEF TypeInv, TypeOK, StoreTypeOK
    <3>3. RowsAreBorn' /\ RowsWait' /\ CandidatesAreBorn'
      BY <3>2 DEF BirthInv, RowsAreBorn, RowsWait, CandidatesAreBorn, Exists
    <3>4. EntriesAreBorn' /\ SectionsAfter'
      BY <3>2 DEF BirthInv, EntriesAreBorn, SectionsAfter, Live, Early, Past, InSection
    <3>5. ApiKeepsLock'
      BY <3>2 DEF BirthInv, ApiKeepsLock, Submitting, SubmitEnds
    <3> QED
      BY <3>3, <3>4, <3>5 DEF BirthInv
  <2>3. CASE \E w \in Workers : WorkerStep(w) \/ FaultStep(w) \/ Shutdown(w)
    BY <2>3, WorkerBirths
  <2>4. CASE (\E r \in RqIds : Promote(r) \/ LoseEntry(r)) \/ CleanupPreviewJobs \/ TimePasses
    BY <2>4, EnvironmentBirths
  <2> QED
    BY <2>1, <2>2, <2>3, <2>4, <2>5 DEF Next
<1> QED
  BY <1>1, <1>2, TypeInvariant, Ownership, PTL DEF Spec

-----------------------------------------------------------------------------
(* One entry for each job.  Reconciliation looks at the queue, the started *)
(* and the scheduled registry, one after the other and without a lock on   *)
(* Redis.  With a single worker nothing moves while it looks, and the one  *)
(* place it does not look at, the intermediate list, is empty unless a     *)
(* worker has died while it took an entry from the queue.                  *)

OneWorker == \A v, w \in Workers : v = w

FetchedByOwner ==
    \A r \in RqIds : rq[r].place = "intermediate" =>
        \E w \in Workers : cur[w] = r /\ pc[w] = "fetched"

ScanInv ==
    \A w \in Workers, r \in RqIds : Live(r) /\ rq[r].job = job[w] /\ job[w] \notin exposed =>
        /\ pc[w] \in {"scan_started", "scan_scheduled"} /\ rq[r].place = "queue"
               => job[w] \in rec[w].active
        /\ pc[w] = "scan_scheduled" /\ rq[r].place = "started" => job[w] \in rec[w].active
        /\ pc[w] = "rec_decide" => job[w] \in rec[w].active
        /\ pc[w] # "rec_enqueue"

LEMMA WorkerFetches ==
    ASSUME TypeInv, OwnInv, FetchedByOwner, "limbo" \notin FaultKinds,
           NEW w \in Workers, WorkerStep(w) \/ FaultStep(w) \/ Shutdown(w)
    PROVE  FetchedByOwner'
<1> USE DEF TypeInv, TypeOK, QueueTypeOK
<1>1. SUFFICES ASSUME NEW r \in RqIds, rq'[r].place = "intermediate"
               PROVE  \E v \in Workers : cur'[v] = r /\ pc'[v] = "fetched"
  BY DEF FetchedByOwner
<1>2. \A v \in Workers \ {w} : pc'[v] = pc[v] /\ cur'[v] = cur[v]
  BY WorkerFrame
<1>3. CASE \E s \in RqIds : Dequeue(w, s)
  <2>1. PICK s \in RqIds : Dequeue(w, s)
    BY <1>3
  <2>2. CASE r = s
    BY <2>1, <2>2 DEF Dequeue, Goto
  <2>3. CASE r # s
    <3>1. rq[r].place = "intermediate"
      BY <1>1, <2>1, <2>3 DEF Dequeue, RqMove
    <3>2. PICK v \in Workers : cur[v] = r /\ pc[v] = "fetched"
      BY <3>1 DEF FetchedByOwner
    <3> QED
      BY <1>2, <2>1, <3>2 DEF Dequeue
  <2> QED
    BY <2>2, <2>3
<1>4. CASE ~\E s \in RqIds : Dequeue(w, s)
  <2>1. rq[r].place = "intermediate"
    <3>1. CASE enqueue(job[w], MaxRetries - rec[w].row.attempts)
      BY <1>1, <3>1 DEF enqueue
    <3>2. CASE UNCHANGED rq
      BY <1>1, <3>2
    <3>3. CASE StartExecution(w) \/ Succeed(w) \/ Requeue(w)
      BY <1>1, <3>3 DEF StartExecution, Succeed, Requeue, RqMove, RqRemove,
         RqHandleFailure, NoEntry, Entry
    <3> QED
      BY <1>4, <3>1, <3>2, <3>3 DEF WorkerStep, RqStep, AdoptAbandoned, ExecutionStep,
         AcquireLock, Claim, Ineligible, Progress, Complete, Reject, RowVanished,
         PersistUnexpected, Release, FailureCallback, ReconciliationStep, StartWorker,
         ScanRegistry, ListCandidates, SkipCandidate, LockCandidate, RefreshCandidate,
         LeaveCandidate, FailCandidate, RecoverCandidate, EnqueueCandidate, ReleaseCandidate,
         FinishReconciliation, AbortReconciliation, FaultStep, LockTimeout, LockError,
         TransientError, UnexpectedError, Kill, Crash, Shutdown, RecycleConnection,
         ReconciliationError
  <2>2. PICK v \in Workers : cur[v] = r /\ pc[v] = "fetched"
    BY <2>1 DEF FetchedByOwner
  <2>3. CASE v = w
    <3>1. StartExecution(w)
      BY <1>4, <2>2, <2>3 DEF WorkerStep, RqStep, AdoptAbandoned, Succeed, Requeue, Dequeue,
         ExecutionStep, RunStages,
         AcquireLock, Claim, Ineligible, Progress, Complete, Reject, RowVanished,
         PersistUnexpected, Release, FailureCallback, ReconciliationStep, StartWorker,
         ScanRegistry, ListCandidates, SkipCandidate, LockCandidate, RefreshCandidate,
         LeaveCandidate, FailCandidate, RecoverCandidate, EnqueueCandidate, ReleaseCandidate,
         FinishReconciliation, AbortReconciliation, FaultStep, LockTimeout, LockError,
         TransientError, UnexpectedError, Kill, Crash, Shutdown, RecycleConnection,
         ReconciliationError, Fault, Strike, UnderLockPcs, RecPcs, RecUnderLock, ScanSteps
    <3> QED
      BY <1>1, <2>2, <2>3, <3>1 DEF StartExecution, RqMove, Entry
  <2>4. CASE v # w
    BY <1>2, <2>2, <2>4
  <2> QED
    BY <2>3, <2>4
<1> QED
  BY <1>3, <1>4

(* While the only worker reconciles, its scans stay true. *)
LEMMA WorkerScans ==
    ASSUME TypeInv, OwnInv, BirthInv, FetchedByOwner, ScanInv, OneWorker,
           NEW w \in Workers, WorkerStep(w) \/ FaultStep(w) \/ Shutdown(w)
    PROVE  ScanInv'
<1> USE DEF TypeInv, TypeOK, QueueTypeOK, Goto
<1> DEFINE Looking == {"scan_started", "scan_scheduled", "rec_decide", "rec_enqueue"}
<1>5. exposed' = exposed
  BY NothingExposed
<1>0. SUFFICES ASSUME NEW r \in RqIds, Live(r)', rq'[r].job = job'[w], job'[w] \notin exposed,
                      pc'[w] \in Looking
               PROVE  /\ pc'[w] \in {"scan_started", "scan_scheduled"} /\ rq'[r].place = "queue"
                             => job'[w] \in rec'[w].active
                      /\ pc'[w] = "scan_scheduled" /\ rq'[r].place = "started"
                             => job'[w] \in rec'[w].active
                      /\ pc'[w] = "rec_decide" => job'[w] \in rec'[w].active
                      /\ pc'[w] # "rec_enqueue"
  BY <1>5 DEF ScanInv, OneWorker
<1>1. CASE ScanRegistry(w)
  <2>1. /\ UNCHANGED <<rq, job>> /\ pc'[w] = AfterScan(w) /\ pc[w] \in ScanSteps
        /\ rec'[w].active = rec[w].active \cup JobsAt(pc[w])
    BY <1>1 DEF ScanRegistry, RecSet, RecState
  <2>2. rq[r].place = ScannedPlace(pc[w]) => job[w] \in JobsAt(pc[w])
    BY <1>0, <2>1 DEF JobsAt, At
  <2>3. rq[r].place # "intermediate"
    BY <2>1 DEF FetchedByOwner, OneWorker, ScanSteps
  <2>4. rq[r].place \in {"queue", "started", "scheduled"}
    BY <1>0, <2>1, <2>3 DEF Live, Entry, Places
  <2> QED
    BY <1>0, <2>1, <2>2, <2>4 DEF ScanInv, Live, AfterScan, ScanSteps, ScannedPlace
<1>2. CASE RecoverCandidate(w)
  <2>1. UNCHANGED <<rq, job>> /\ pc[w] = "rec_decide" /\ job[w] \notin rec[w].active
    BY <1>2 DEF RecoverCandidate
  <2> QED
    BY <1>0, <2>1 DEF ScanInv, Live
<1>3. CASE RecycleConnection(w)
  BY <1>0, <1>3 DEF RecycleConnection, workerVars, ScanInv, Live
<1>4. CASE ~ScanRegistry(w) /\ ~RecoverCandidate(w) /\ ~RecycleConnection(w)
  <2>1. pc'[w] \notin Looking
    <3>1. CASE RqStep(w) \/ ExecutionStep(w)
      BY <3>1 DEF RqStep, AdoptAbandoned, Succeed, Requeue, Dequeue, StartExecution,
         BackToIdle, ExecutionStep, RunStages, NextStage, Committed,
         AcquireLock, Claim, Ineligible, Progress, Complete, Reject, RowVanished,
         PersistUnexpected, Release, FailureCallback
    <3>2. CASE ReconciliationStep(w)
      BY <1>4, <3>2 DEF Exit, ReconciliationStep, StartWorker,
         ListCandidates, SkipCandidate, LockCandidate, RefreshCandidate,
         LeaveCandidate, FailCandidate, EnqueueCandidate, ReleaseCandidate,
         FinishReconciliation, AbortReconciliation
    <3>3. CASE FaultStep(w) \/ Shutdown(w)
      BY <1>4, <3>3 DEF Exit, FaultStep, LockTimeout, LockError,
         TransientError, UnexpectedError, Kill, Crash, Shutdown, ReconciliationError
    <3> QED
      BY <3>1, <3>2, <3>3 DEF WorkerStep
  <2> QED
    BY <1>0, <2>1
<1> QED
  BY <1>1, <1>2, <1>3, <1>4

(* A step that makes no entry keeps them distinct. *)
LEMMA KeptEntries ==
    ASSUME NoDuplicateEntry, exposed' = exposed,
           \A s \in RqIds : Live(s)' => Live(s) /\ rq'[s].job = rq[s].job
    PROVE  NoDuplicateEntry'
BY DEF NoDuplicateEntry

(* An entry that is made for a job that has none keeps them distinct; so   *)
(* does one for a job that is exposed.                                     *)
LEMMA AddedEntry ==
    ASSUME TypeInv, NoDuplicateEntry, exposed' = exposed, NEW j, NEW c, enqueue(j, c),
           ~HasEntry(j) \/ j \in exposed
    PROVE  NoDuplicateEntry'
<1>1. PICK r \in RqIds : /\ rq'[r] = [job |-> j, place |-> "queue", retries |-> RetriesFor(c)]
                         /\ \A s \in RqIds \ {r} : rq'[s] = rq[s]
  BY NewEntry
<1>2. \A s \in RqIds \ {r} : Live(s)' =>
          Live(s) /\ rq'[s].job = rq[s].job /\ (rq'[s].job # j \/ j \in exposed)
  BY <1>1 DEF Live, HasEntry
<1>3. rq'[r].job = j
  BY <1>1
<1> QED
  BY <1>2, <1>3 DEF NoDuplicateEntry

LEMMA WorkerDuplicates ==
    ASSUME TypeInv, OwnInv, ScanInv, NoDuplicateEntry,
           NEW w \in Workers, WorkerStep(w) \/ FaultStep(w) \/ Shutdown(w)
    PROVE  NoDuplicateEntry'
<1>1. CASE pc[w] = "rec_enqueue" /\ enqueue(job[w], MaxRetries - rec[w].row.attempts)
  <2>1. ~HasEntry(job[w]) \/ job[w] \in exposed
    BY <1>1 DEF ScanInv, HasEntry
  <2> QED
    BY <1>1, <2>1, AddedEntry, NothingExposed
<1>2. CASE ~(pc[w] = "rec_enqueue" /\ enqueue(job[w], MaxRetries - rec[w].row.attempts))
  <2>1. pc[w] # "rec_enqueue" \/ UNCHANGED rq
    BY <1>2 DEF WorkerStep, RqStep, AdoptAbandoned, Succeed, Requeue, Dequeue,
       StartExecution, ExecutionStep, RunStages,
       AcquireLock, Claim, Ineligible, Progress, Complete, Reject, RowVanished,
       PersistUnexpected, Release, FailureCallback, ReconciliationStep, StartWorker,
       ScanRegistry, ListCandidates, SkipCandidate, LockCandidate, RefreshCandidate,
       LeaveCandidate, FailCandidate, RecoverCandidate, EnqueueCandidate, ReleaseCandidate,
       FinishReconciliation, AbortReconciliation, FaultStep, LockTimeout, LockError,
       TransientError, UnexpectedError, Kill, Crash, Shutdown, RecycleConnection,
       ReconciliationError
  <2>2. \A s \in RqIds : Live(s)' => Live(s) /\ rq'[s].job = rq[s].job
    BY <2>1, WorkerEntries DEF Live
  <2> QED
    BY <2>2, KeptEntries, NothingExposed
<1> QED
  BY <1>1, <1>2

(* A submission makes the first entry of its job, and looks at no place.   *)
LEMMA SubmitEntries ==
    ASSUME TypeInv, OwnInv, BirthInv, FetchedByOwner, ScanInv, NoDuplicateEntry,
           NEW j \in Jobs, SubmitLock(j) \/ SubmitStep(j) \/ SubmitCrash(j)
    PROVE  FetchedByOwner' /\ ScanInv' /\ NoDuplicateEntry'
<1> USE DEF TypeInv, TypeOK, QueueTypeOK
<1>1. UNCHANGED <<pc, cur, job, rec, exposed>>
  BY NothingExposed DEF workerVars, SubmitLock, SubmitStep, SubmitCreate, SubmitEnqueue,
     SubmitFail, SubmitRelease, SubmitCrash, Submitting, SubmitEnds
<1>2. CASE UNCHANGED rq
  BY <1>1, <1>2 DEF FetchedByOwner, ScanInv, NoDuplicateEntry, Live
<1>3. CASE sub[j] = "created" /\ enqueue(j, None)
  <2>1. ~HasEntry(j) \/ j \in exposed
    BY <1>3 DEF HasEntry, BirthInv, EntriesAreBorn, Early
  <2>2. PICK r \in RqIds :
            /\ ~Live(r)
            /\ rq'[r] = [job |-> j, place |-> "queue", retries |-> RetriesFor(None)]
            /\ \A s \in RqIds \ {r} : rq'[s] = rq[s]
    BY <1>3, NewEntry
  <2>3. FetchedByOwner'
    BY <1>1, <2>2 DEF FetchedByOwner
  <2>4. ASSUME NEW w \in Workers, job[w] = j, j \notin exposed
        PROVE  pc[w] \notin {"scan_started", "scan_scheduled", "rec_decide", "rec_enqueue"}
    <3>1. ~InSection(w, j)
      BY <1>3, <2>4 DEF BirthInv, SectionsAfter, SubmitEnds, Past
    <3> QED
      BY <2>4, <3>1 DEF InSection, RecUnderLock, ScanSteps
  <2>5. ScanInv'
    BY <1>1, <2>2, <2>4 DEF ScanInv, Live
  <2> QED
    BY <1>1, <1>3, <2>1, <2>3, <2>5, AddedEntry
<1> QED
  BY <1>2, <1>3 DEF SubmitLock, SubmitStep, SubmitCreate, SubmitEnqueue,
     SubmitFail, SubmitRelease, SubmitCrash, Submitting, SubmitEnds

LEMMA EnvironmentEntries ==
    ASSUME TypeInv, OwnInv, FetchedByOwner, ScanInv, NoDuplicateEntry, OneWorker,
           (\E r \in RqIds : Promote(r) \/ LoseEntry(r)) \/ CleanupPreviewJobs \/ TimePasses
    PROVE  FetchedByOwner' /\ ScanInv' /\ NoDuplicateEntry'
<1> USE DEF TypeInv, TypeOK, QueueTypeOK
<1>1. UNCHANGED <<pc, cur, job, rec, exposed>>
  BY NothingExposed DEF Promote, LoseEntry, CleanupPreviewJobs, TimePasses, workerVars
<1>2. CASE UNCHANGED rq
  BY <1>1, <1>2 DEF FetchedByOwner, ScanInv, NoDuplicateEntry, Live
<1>3. ASSUME NEW r \in RqIds, Promote(r) \/ LoseEntry(r)
      PROVE  FetchedByOwner' /\ ScanInv' /\ NoDuplicateEntry'
  <2>1. \A s \in RqIds : Live(s)' => Live(s) /\ rq'[s].job = rq[s].job
    BY <1>3, MovedEntries DEF Promote, LoseEntry, Places, Live
  <2>2. FetchedByOwner'
    BY <1>1, <1>3 DEF FetchedByOwner, Promote, LoseEntry, RqMove, RqRemove, NoEntry, Entry
  <2>3. ScanInv'
    <3>1. CASE Promote(r)
      <4>1. \A w \in Workers : pc[w] \notin RecPcs
        BY <3>1 DEF Promote, Listening, OneWorker
      <4> QED
        BY <1>1, <4>1 DEF ScanInv, RecPcs, RecUnderLock, ScanSteps
    <3>2. CASE LoseEntry(r)
      BY <1>1, <2>1, <3>2 DEF LoseEntry, RqRemove, NoEntry, ScanInv, Live
    <3> QED
      BY <1>3, <3>1, <3>2
  <2> QED
    BY <1>1, <2>1, <2>2, <2>3, KeptEntries
<1> QED
  BY <1>2, <1>3 DEF CleanupPreviewJobs, TimePasses

EntryInv == FetchedByOwner /\ ScanInv /\ NoDuplicateEntry

(* A single worker's scans of Redis are true when it acts on them, and no  *)
(* entry is in the intermediate list without the worker that moved it.     *)
THEOREM ScansAreTrue ==
    ASSUME OneWorker, "limbo" \notin FaultKinds
    PROVE  Spec => []EntryInv
<1>1. Init => EntryInv
  BY DEF EntryInv, Init, QueueInit, NoEntry, FetchedByOwner, ScanInv, NoDuplicateEntry, Live
<1>2. TypeInv /\ OwnInv /\ BirthInv /\ EntryInv /\ [Next]_vars => EntryInv'
  <2> SUFFICES ASSUME TypeInv, OwnInv, BirthInv, EntryInv, [Next]_vars PROVE EntryInv'
    OBVIOUS
  <2>1. CASE UNCHANGED vars
    BY <2>1 DEF vars, EntryInv, FetchedByOwner, ScanInv, NoDuplicateEntry, Live
  <2>2. CASE \E j \in Jobs : SubmitLock(j) \/ SubmitStep(j) \/ SubmitCrash(j)
    BY <2>2, SubmitEntries DEF EntryInv
  <2>5. CASE \E j \in Jobs : CloseApiConnection(j)
    BY <2>5, ClosingFrame DEF EntryInv, FetchedByOwner, ScanInv, NoDuplicateEntry, Live
  <2>3. CASE \E w \in Workers : WorkerStep(w) \/ FaultStep(w) \/ Shutdown(w)
    BY <2>3, WorkerFetches, WorkerScans, WorkerDuplicates DEF EntryInv
  <2>4. CASE (\E r \in RqIds : Promote(r) \/ LoseEntry(r)) \/ CleanupPreviewJobs \/ TimePasses
    BY <2>4, EnvironmentEntries DEF EntryInv
  <2> QED
    BY <2>1, <2>2, <2>3, <2>4, <2>5 DEF Next
<1> QED
  BY <1>1, <1>2, TypeInvariant, Ownership, Births, PTL DEF Spec

(* "without duplicating active RQ jobs": with one worker, as the           *)
(* repository deploys it, a preview job never has two live RQ entries,     *)
(* whatever is retried, recovered, lost or repeated, with two exceptions:  *)
(* a worker dies between the two Redis commands that take an entry from    *)
(* the queue (assumed not to happen), or the submission of this job has    *)
(* lost its lock (then this job is exposed, and only this one).            *)
THEOREM OneEntryEach ==
    ASSUME OneWorker, "limbo" \notin FaultKinds
    PROVE  Spec => []NoDuplicateEntry
<1>1. EntryInv => NoDuplicateEntry
  BY DEF EntryInv
<1> QED
  BY <1>1, ScansAreTrue, PTL

-----------------------------------------------------------------------------
(* The budget of attempts.  Every entry carries the executions RQ may      *)
(* still start for its job; one more is pending while it waits to be       *)
(* claimed.  A claim turns the pending one into an attempt, a retry turns  *)
(* a remaining one into a pending one, and recovery grants what is left.   *)

Remaining(r) == IF rq[r].retries > 0 THEN rq[r].retries ELSE 0

Pending(r) ==
    \/ rq[r].place \in {"queue", "scheduled", "intermediate"}
    \/ \E w \in Workers : cur[w] = r /\ pc[w] \in {"waiting", "locked"}

EntriesInBudget ==
    \A r \in RqIds : Live(r) /\ Nonterminal(rq[r].job) /\ rq[r].job \notin exposed =>
        jobs[rq[r].job].attempts + Remaining(r) + (IF Pending(r) THEN 1 ELSE 0) <= MaxRetries + 1

AttemptsBounded == \A j \in Jobs \ exposed : jobs[j].attempts <= MaxRetries + 1

(* Reconciliation decides on the row it refreshed under the lock. *)
FreshRows ==
    \A w \in Workers :
        /\ \A j \in Jobs \ exposed :
              InSection(w, j) /\ Exists(j) /\ pc[w] \in ScanSteps \cup {"rec_decide", "rec_enqueue"}
                  => rec[w].row.attempts = jobs[j].attempts
        /\ pc[w] = "rec_enqueue" /\ job[w] \notin exposed => rec[w].row.attempts <= MaxRetries

BudgetInv == EntriesInBudget /\ AttemptsBounded /\ FreshRows

(* No two workers are in the critical section of one job. *)
SectionsApart ==
    \A u, v \in Workers, j \in Jobs : InSection(u, j) /\ InSection(v, j) => u = v

(* A worker never makes a row nonterminal that was not, and only a claim   *)
(* counts an attempt.                                                      *)
LEMMA WorkerStatus ==
    ASSUME TypeInv, NEW w \in Workers, WorkerStep(w) \/ FaultStep(w) \/ Shutdown(w),
           NEW j \in Jobs
    PROVE  /\ Nonterminal(j)' => Nonterminal(j)
           /\ Exists(j)' => Exists(j)
           /\ ~(Claim(w) /\ job[w] = j) => jobs'[j].attempts = jobs[j].attempts
<1> USE DEF TypeInv, TypeOK, StoreTypeOK
<1>0. jobs[j] \in Row
  OBVIOUS
<1>1. CASE Claim(w)
  <2>1. CASE job[w] = j
    BY <1>1, <2>1 DEF Claim, Claimable, Nonterminal, Exists
  <2>2. CASE job[w] # j
    BY <1>1, <2>2 DEF Claim, claim_job, SetRow, Nonterminal, Exists
  <2> QED
    BY <2>1, <2>2
<1>2. CASE Progress(w)
  BY <1>0, <1>2 DEF Progress, update_progress, SetRow, Nonterminal, Exists, Row
<1>3. CASE Complete(w)
  BY <1>0, <1>3 DEF Complete, complete_job, SetRow, Nonterminal, Exists, Row
<1>4. CASE Reject(w)
  BY <1>0, <1>4 DEF Reject, fail_job, FailedRow, SetRow, Nonterminal, Exists, Row
<1>5. CASE PersistUnexpected(w) \/ FailureCallback(w) \/ FailCandidate(w) \/ RecoverCandidate(w)
  <2>1. jobs'[j] \in {jobs[j], QueuedRow(jobs[j]), FailedRow(jobs[j])}
        /\ (jobs'[j] # jobs[j] => Nonterminal(j))
    BY <1>5 DEF PersistUnexpected, FailureCallback, FailCandidate, RecoverCandidate, SetRow,
       transition_job_after_operational_failure
  <2> QED
    BY <1>0, <2>1 DEF QueuedRow, FailedRow, Nonterminal, Exists, Row
<1>6. CASE UNCHANGED jobs
  BY <1>6 DEF Nonterminal, Exists
<1> QED
  BY <1>1, <1>2, <1>3, <1>4, <1>5, <1>6 DEF WorkerStep, RqStep, AdoptAbandoned,
     Dequeue, StartExecution, Succeed, Requeue, ExecutionStep, storeVars,
     AcquireLock, Ineligible, RowVanished, Release, ReconciliationStep, StartWorker,
     ScanRegistry, ListCandidates, SkipCandidate, LockCandidate, RefreshCandidate,
     LeaveCandidate, EnqueueCandidate, ReleaseCandidate,
     FinishReconciliation, AbortReconciliation, FaultStep, LockTimeout, LockError,
     TransientError, UnexpectedError, Kill, Crash, Shutdown, RecycleConnection,
     ReconciliationError

(* How a worker comes to wait for a claim: it started the execution. *)
LEMMA WorkerWaits ==
    ASSUME TypeInv, NEW w \in Workers, WorkerStep(w) \/ FaultStep(w) \/ Shutdown(w),
           ~StartExecution(w), pc'[w] \in {"waiting", "locked"}
    PROVE  pc[w] \in {"waiting", "locked"} /\ cur'[w] = cur[w]
<1> USE DEF TypeInv, TypeOK, Goto
<1>1. CASE RqStep(w) \/ ExecutionStep(w)
  BY <1>1 DEF RqStep, AdoptAbandoned, Succeed, Requeue, Dequeue,
     BackToIdle, ExecutionStep, RunStages, NextStage, Committed,
     AcquireLock, Claim, Ineligible, Progress, Complete, Reject, RowVanished,
     PersistUnexpected, Release, FailureCallback
<1>2. CASE ReconciliationStep(w)
  BY <1>2 DEF Exit, AfterScan, ReconciliationStep, StartWorker, ScanRegistry, ScanSteps,
     ListCandidates, SkipCandidate, LockCandidate, RefreshCandidate,
     LeaveCandidate, FailCandidate, RecoverCandidate, EnqueueCandidate, ReleaseCandidate,
     FinishReconciliation, AbortReconciliation
<1>3. CASE FaultStep(w) \/ Shutdown(w)
  BY <1>3 DEF Exit, FaultStep, LockTimeout, LockError, TransientError, UnexpectedError,
     Kill, Crash, Shutdown, RecycleConnection, workerVars, ReconciliationError
<1> QED
  BY <1>1, <1>2, <1>3 DEF WorkerStep

(* What remains for an entry that is there before and after the step of a  *)
(* worker, apart from claims.                                              *)
LEMMA WorkerRemaining ==
    ASSUME TypeInv, OwnInv, NEW w \in Workers, WorkerStep(w) \/ FaultStep(w) \/ Shutdown(w),
           NEW r \in RqIds, Live(r), Live(r)'
    PROVE  /\ rq'[r].job = rq[r].job
           /\ \/ Remaining(r)' = Remaining(r) /\ (Pending(r)' => Pending(r))
              \/ Remaining(r)' = Remaining(r) - 1
<1> USE DEF TypeInv, TypeOK, QueueTypeOK
<1>0. rq[r] \in Entry /\ rq[r].retries \in Int
  BY DEF Entry, NoRetry
<1>1. \A v \in Workers \ {w} : pc'[v] = pc[v] /\ cur'[v] = cur[v]
  BY WorkerFrame
<1>2. CASE \E s \in RqIds : Dequeue(w, s)
  <2>1. PICK s \in RqIds : Dequeue(w, s)
    BY <1>2
  <2>2. pc'[w] = "fetched"
    BY <2>1 DEF Dequeue, Goto
  <2>3. rq'[r].retries = rq[r].retries /\ rq'[r].job = rq[r].job
        /\ (rq'[r].place = rq[r].place \/ rq[r].place = "queue")
    BY <1>0, <2>1 DEF Dequeue, RqMove, Entry
  <2> QED
    BY <1>1, <2>2, <2>3 DEF Remaining, Pending
<1>3. CASE StartExecution(w)
  <2>1. rq[cur[w]].place = "intermediate" /\ UNCHANGED cur
    BY <1>3 DEF StartExecution, OwnInv, Owns, HoldingPcs, RqPcs
  <2>2. CASE r = cur[w]
    BY <1>0, <1>3, <2>1, <2>2 DEF StartExecution, RqMove, Entry, Remaining, Pending
  <2>3. CASE r # cur[w]
    BY <1>1, <1>3, <2>1, <2>3 DEF StartExecution, RqMove, Remaining, Pending
  <2> QED
    BY <2>2, <2>3
<1>4. CASE Succeed(w)
  <2>1. pc'[w] = "idle" /\ (rq'[r] = rq[r] \/ rq'[r] = NoEntry)
    BY <1>4 DEF Succeed, RqRemove, BackToIdle, Goto
  <2> QED
    BY <1>1, <2>1 DEF Remaining, Pending, Live, NoEntry
<1>5. CASE Requeue(w)
  <2>1. pc'[w] = "idle"
    BY <1>5 DEF Requeue, BackToIdle, Goto
  <2>2. CASE rq'[r] = rq[r]
    BY <1>1, <2>1, <2>2 DEF Remaining, Pending
  <2>3. CASE rq'[r] # rq[r]
    <3>1. r = cur[w] /\ WillRetry(r)
      BY <1>5, <2>3 DEF Requeue, RqHandleFailure, RqRemove, Live, NoEntry
    <3>2. rq'[r].retries = rq[r].retries - 1 /\ rq'[r].job = rq[r].job
      <4>1. rq' = [rq EXCEPT ![r].place = "scheduled", ![r].retries = rq[r].retries - 1]
        BY <1>5, <3>1 DEF Requeue, RqHandleFailure
      <4> QED
        BY <1>0, <4>1 DEF Entry
    <3> QED
      BY <1>0, <3>1, <3>2 DEF WillRetry, Remaining
  <2> QED
    BY <2>2, <2>3
<1>6. CASE ~StartExecution(w) /\ rq'[r] = rq[r]
  <2>1. Remaining(r)' = Remaining(r)
    BY <1>6 DEF Remaining
  <2>2. Pending(r)' => Pending(r)
    BY <1>1, <1>6, WorkerWaits DEF Pending
  <2> QED
    BY <1>6, <2>1, <2>2
<1>7. CASE rq'[r] # rq[r]
  <2>1. RqStep(w) \/ EnqueueCandidate(w) \/ ReconciliationError(w)
    BY <1>7 DEF WorkerStep, ExecutionStep, AcquireLock, Claim, Ineligible,
       Progress, Complete, Reject, RowVanished,
       PersistUnexpected, Release, FailureCallback, ReconciliationStep, StartWorker,
       ScanRegistry, ListCandidates, SkipCandidate, LockCandidate, RefreshCandidate,
       LeaveCandidate, FailCandidate, RecoverCandidate, ReleaseCandidate,
       FinishReconciliation, AbortReconciliation, FaultStep, LockTimeout, LockError,
       TransientError, UnexpectedError, Kill, Crash, Shutdown, RecycleConnection
  <2>2. RqStep(w)
    BY <1>7, <2>1 DEF EnqueueCandidate, ReconciliationError, enqueue
  <2> QED
    BY <1>2, <1>3, <1>4, <1>5, <1>7, <2>2 DEF RqStep, AdoptAbandoned
<1> QED
  BY <1>3, <1>6, <1>7

(* An entry that is new after the step of a worker is the one that         *)
(* reconciliation has put there, with the executions that are left.        *)
LEMMA WorkerEnqueues ==
    ASSUME TypeInv, OwnInv, NEW w \in Workers, WorkerStep(w) \/ FaultStep(w) \/ Shutdown(w),
           NEW r \in RqIds, ~Live(r), Live(r)'
    PROVE  /\ pc[w] = "rec_enqueue" /\ UNCHANGED jobs
           /\ rq'[r] = [job |-> job[w], place |-> "queue",
                        retries |-> RetriesFor(MaxRetries - rec[w].row.attempts)]
<1> DEFINE c == MaxRetries - rec[w].row.attempts
<1>1. pc[w] = "rec_enqueue"
  BY WorkerEntries
<1>2. enqueue(job[w], c) /\ UNCHANGED jobs
  <2>1. EnqueueCandidate(w) \/ ReconciliationError(w) \/ UNCHANGED rq
    BY <1>1 DEF WorkerStep, RqStep, Dequeue, AdoptAbandoned, StartExecution, Succeed, Requeue,
       ExecutionStep, AcquireLock, Claim, Ineligible, Progress, Complete, Reject, RowVanished,
       PersistUnexpected, Release, FailureCallback, ReconciliationStep, StartWorker,
       ScanRegistry, ListCandidates, SkipCandidate, LockCandidate, RefreshCandidate,
       LeaveCandidate, FailCandidate, RecoverCandidate, ReleaseCandidate,
       FinishReconciliation, AbortReconciliation, FaultStep, LockTimeout, LockError,
       TransientError, UnexpectedError, Kill, Crash, Shutdown, RecycleConnection
  <2> QED
    BY <2>1 DEF EnqueueCandidate, ReconciliationError, Live, storeVars
<1> HIDE DEF c
<1>3. PICK s \in RqIds :
          /\ rq'[s] = [job |-> job[w], place |-> "queue", retries |-> RetriesFor(c)]
          /\ \A t \in RqIds \ {s} : rq'[t] = rq[t]
  BY <1>2, NewEntry
<1>4. r = s
  BY <1>3 DEF Live
<1> QED
  BY <1>1, <1>2, <1>3, <1>4 DEF c

(* The attempts and the budget are numbers. *)
LEMMA BudgetTypes ==
    ASSUME TypeInv
    PROVE  /\ \A j \in Jobs : jobs[j].attempts \in Nat
           /\ \A w \in Workers : rec[w].row.attempts \in Nat
           /\ \A r \in RqIds : rq[r].retries \in Int /\ Remaining(r) \in Nat
           /\ MaxRetries \in Nat
BY StoreAssumption DEF TypeInv, TypeOK, StoreTypeOK, QueueTypeOK, Row, RecState, Entry, NoRetry,
   Remaining

(* A claim: the worker's own entry is the only one of the job, and the     *)
(* execution that was pending becomes an attempt.                          *)
LEMMA ClaimInBudget ==
    ASSUME TypeInv, OwnInv, BudgetInv, NoDuplicateEntry, NEW w \in Workers, Claim(w),
           job[w] \notin exposed
    PROVE  /\ job[w] \in Jobs /\ Nonterminal(job[w])
           /\ jobs'[job[w]].attempts = jobs[job[w]].attempts + 1
           /\ jobs[job[w]].attempts + 1 <= MaxRetries + 1
           /\ \A r \in RqIds : Live(r) /\ rq[r].job = job[w] =>
                 /\ ~Pending(r)'
                 /\ jobs[job[w]].attempts + Remaining(r) + 1 <= MaxRetries + 1
<1> USE DEF TypeInv, TypeOK, StoreTypeOK
<1>1. /\ pc[w] = "locked" /\ UNCHANGED <<rq, cur>> /\ Claimable(job[w], AllowRunningRetry(w))
      /\ claim_job(job[w]) /\ pc' = [pc EXCEPT ![w] = pc'[w]]
      /\ pc'[w] \in {"parsing", "release_raise"}
  BY DEF Claim, Committed, Goto
<1>2. /\ cur[w] \in RqIds /\ Live(cur[w]) /\ rq[cur[w]].job = job[w]
      /\ rq[cur[w]].place = "started"
  BY <1>1 DEF OwnInv, Owns, HoldingPcs, UnderLockPcs
<1>3. job[w] \in Jobs
  BY <1>2 DEF OwnInv, EntriesHaveJobs
<1>4. Nonterminal(job[w])
  BY <1>1 DEF Claimable, Nonterminal
<1>5. jobs'[job[w]].attempts = jobs[job[w]].attempts + 1
  BY <1>1, <1>3 DEF claim_job, SetRow, Row
<1>6. Pending(cur[w]) /\ ~Pending(cur[w])'
  <2>1. Pending(cur[w])
    BY <1>1 DEF Pending
  <2>2. \A v \in Workers : cur[v] = cur[w] => v = w
    BY <1>2, QueueAssumption DEF OwnInv
  <2> QED
    BY <1>1, <1>2, <2>1, <2>2 DEF Pending
<1>7. jobs[job[w]].attempts + Remaining(cur[w]) + 1 <= MaxRetries + 1
  BY <1>2, <1>4, <1>6 DEF BudgetInv, EntriesInBudget
<1>8. \A r \in RqIds : Live(r) /\ rq[r].job = job[w] => r = cur[w]
  BY <1>2 DEF NoDuplicateEntry
<1>9. ~Pending(cur[w])' /\ UNCHANGED cur
  BY <1>1, <1>6
<1>10. jobs[job[w]].attempts + 1 <= MaxRetries + 1
  BY <1>2, <1>3, <1>7, BudgetTypes
<1>11. ASSUME NEW r \in RqIds, r = cur[w] PROVE ~Pending(r)'
  BY <1>1, <1>2, <1>11, QueueAssumption DEF Pending, OwnInv
<1> QED
  BY <1>3, <1>4, <1>5, <1>7, <1>8, <1>10, <1>11

LEMMA WorkerBudget ==
    ASSUME TypeInv, TypeInv', OwnInv, OwnInv', BirthInv, BudgetInv, NoDuplicateEntry,
           NEW w \in Workers, WorkerStep(w) \/ FaultStep(w) \/ Shutdown(w)
    PROVE  EntriesInBudget' /\ AttemptsBounded'
<1>0. exposed' = exposed
  BY NothingExposed
<1>1. AttemptsBounded'
  <2> SUFFICES ASSUME NEW j \in Jobs \ exposed PROVE jobs'[j].attempts <= MaxRetries + 1
    BY <1>0 DEF AttemptsBounded
  <2>1. CASE Claim(w) /\ job[w] = j
    BY <2>1, ClaimInBudget
  <2>2. CASE ~(Claim(w) /\ job[w] = j)
    BY <2>2, WorkerStatus DEF BudgetInv, AttemptsBounded
  <2> QED
    BY <2>1, <2>2
<1>2. ASSUME NEW r \in RqIds, Live(r)', Nonterminal(rq[r].job)', rq'[r].job \notin exposed
      PROVE  jobs'[rq'[r].job].attempts + Remaining(r)' + (IF Pending(r)' THEN 1 ELSE 0)
                 <= MaxRetries + 1
  <2> DEFINE j == rq'[r].job
             pend == IF Pending(r) THEN 1 ELSE 0
             pend2 == IF Pending(r)' THEN 1 ELSE 0
             left == Remaining(r)
             left2 == Remaining(r)'
             n == jobs[j].attempts
             n2 == jobs'[j].attempts
  <2>0. /\ j \in Jobs /\ n \in Nat /\ n2 \in Nat /\ left \in Nat /\ left2 \in Nat
        /\ pend \in 0..1 /\ pend2 \in 0..1 /\ MaxRetries \in Nat
    <3>1. j \in Jobs
      BY <1>2 DEF OwnInv, EntriesHaveJobs
    <3>2. n \in Nat /\ left \in Nat /\ MaxRetries \in Nat
      BY <3>1, BudgetTypes
    <3>3. n2 \in Nat /\ left2 \in Nat
      BY <3>1 DEF TypeInv, TypeOK, StoreTypeOK, QueueTypeOK, Row, Entry, NoRetry, Remaining
    <3> QED
      BY <3>1, <3>2, <3>3
  <2>1. Nonterminal(j) /\ ((~Claim(w) \/ job[w] # j) => n2 = n)
    BY <1>2, <2>0, WorkerStatus DEF Nonterminal
  <2>2. CASE Live(r)
    <3>1. /\ j = rq[r].job
          /\ \/ left2 = left /\ (Pending(r)' => Pending(r))
             \/ left2 = left - 1
      BY <1>2, <2>2, WorkerRemaining
    <3>2. n + left + pend <= MaxRetries + 1
      BY <1>2, <2>1, <2>2, <3>1 DEF BudgetInv, EntriesInBudget
    <3>3. CASE Claim(w) /\ job[w] = j
      <4>1. n2 = n + 1 /\ pend2 = 0 /\ n + left + 1 <= MaxRetries + 1
        BY <1>2, <2>2, <3>1, <3>3, ClaimInBudget
      <4> HIDE DEF j, pend, pend2, left, left2, n, n2
      <4>2. n2 + left2 + pend2 <= MaxRetries + 1
        BY <2>0, <3>1, <4>1
      <4> QED
        BY <4>2 DEF j, pend2, left2, n2
    <3>4. CASE ~Claim(w) \/ job[w] # j
      <4>1. n2 = n
        BY <2>1, <3>4
      <4>2. (Pending(r)' => Pending(r)) => pend2 <= pend
        OBVIOUS
      <4> HIDE DEF j, pend, pend2, left, left2, n, n2
      <4>3. n2 + left2 + pend2 <= MaxRetries + 1
        BY <2>0, <3>1, <3>2, <4>1, <4>2
      <4> QED
        BY <4>3 DEF j, pend2, left2, n2
    <3> QED
      BY <3>3, <3>4
  <2>3. CASE ~Live(r)
    <3> DEFINE m == rec[w].row.attempts
    <3>1. /\ pc[w] = "rec_enqueue" /\ UNCHANGED jobs
          /\ rq'[r] = [job |-> job[w], place |-> "queue", retries |-> RetriesFor(MaxRetries - m)]
      BY <1>2, <2>3, WorkerEnqueues
    <3>2. j = job[w] /\ Exists(j) /\ InSection(w, j)
      BY <2>1, <3>1 DEF Nonterminal, Exists, InSection, RecUnderLock
    <3>3. m = n /\ n <= MaxRetries
      BY <1>2, <2>0, <3>1, <3>2 DEF BudgetInv, FreshRows
    <3>4. n2 = n
      BY <3>1
    <3>5. MaxRetries - m # None /\ MaxRetries - m \in Int
      BY <2>0, <3>3, StoreAssumption
    <3>6. left2 = MaxRetries - n
      <4>1. rq'[r].retries = RetriesFor(MaxRetries - m)
        BY <3>1
      <4>2. rq'[r].retries = IF MaxRetries - n > 0 THEN MaxRetries - n ELSE NoRetry
        BY <3>3, <3>5, <4>1 DEF RetriesFor
      <4> HIDE DEF n
      <4> QED
        BY <2>0, <3>3, <4>2 DEF NoRetry, Remaining
    <3> HIDE DEF j, pend, pend2, left, left2, n, n2
    <3>7. n2 + left2 + pend2 <= MaxRetries + 1
      BY <2>0, <3>3, <3>4, <3>6
    <3> QED
      BY <3>7 DEF j, pend2, left2, n2
  <2> QED
    BY <2>2, <2>3
<1> QED
  BY <1>0, <1>1, <1>2 DEF EntriesInBudget

(* The row a reconciling worker decides on is the row in the table, as far *)
(* as the attempts go: it refreshed it under the lock.                     *)
LEMMA WorkerFresh ==
    ASSUME TypeInv, OwnInv, BirthInv, BudgetInv, SectionsApart,
           NEW w \in Workers, WorkerStep(w) \/ FaultStep(w) \/ Shutdown(w)
    PROVE  FreshRows'
<1> USE DEF TypeInv, TypeOK
<1> DEFINE Deciding == ScanSteps \cup {"rec_decide", "rec_enqueue"}
<1>0. exposed' = exposed
  BY NothingExposed
<1>1. \A v \in Workers \ {w} : pc'[v] = pc[v] /\ job'[v] = job[v] /\ rec'[v] = rec[v]
  BY WorkerFrame
<1>2. ASSUME NEW v \in Workers \ {w}
      PROVE  /\ \A j \in Jobs \ exposed : InSection(v, j)' /\ Exists(j)' /\ pc'[v] \in Deciding
                    => rec'[v].row.attempts = jobs'[j].attempts
             /\ pc'[v] = "rec_enqueue" /\ job'[v] \notin exposed => rec'[v].row.attempts <= MaxRetries
  <2>1. ASSUME NEW j \in Jobs \ exposed, InSection(v, j)', Exists(j)', pc'[v] \in Deciding
        PROVE  rec'[v].row.attempts = jobs'[j].attempts
    <3>1. InSection(v, j) /\ Exists(j) /\ pc[v] \in Deciding
      BY <1>1, <1>2, <2>1, WorkerStatus DEF InSection
    <3>2. ~InSection(w, j)
      BY <1>2, <3>1 DEF SectionsApart
    <3>3. ~(Claim(w) /\ job[w] = j)
      BY <3>2 DEF Claim, InSection, UnderLockPcs
    <3>4. jobs'[j].attempts = jobs[j].attempts
      BY <3>3, WorkerStatus
    <3> QED
      BY <1>1, <1>2, <3>1, <3>4 DEF BudgetInv, FreshRows
  <2> QED
    BY <1>1, <1>2, <2>1 DEF BudgetInv, FreshRows
<1>3. /\ \A j \in Jobs \ exposed : InSection(w, j)' /\ Exists(j)' /\ pc'[w] \in Deciding
             => rec'[w].row.attempts = jobs'[j].attempts
      /\ pc'[w] = "rec_enqueue" /\ job'[w] \notin exposed => rec'[w].row.attempts <= MaxRetries
  <2>1. CASE pc'[w] \notin Deciding
    BY <2>1
  <2>2. CASE StartWorker(w)
    <3>1. pc'[w] = "scan_queue" /\ job'[w] = None
      BY <2>2 DEF StartWorker, Goto, WorkerLocals
    <3> QED
      BY <3>1, StoreAssumption DEF InSection
  <2>3. CASE RefreshCandidate(w)
    <3>1. /\ UNCHANGED <<jobs, job>> /\ pc'[w] \in {"rec_release", "scan_queue"}
          /\ pc'[w] = "scan_queue" => rec'[w].row = jobs[job[w]]
      BY <2>3 DEF RefreshCandidate, RecSet, Goto, storeVars, RecState
    <3> QED
      BY <3>1 DEF InSection, ScanSteps
  <2>4. CASE ScanRegistry(w)
    <3>1. /\ UNCHANGED <<jobs, job>> /\ pc[w] \in ScanSteps /\ rec'[w].row = rec[w].row
          /\ pc'[w] # "rec_enqueue"
      BY <2>4 DEF ScanRegistry, RecSet, Goto, storeVars, RecState, AfterScan, ScanSteps
    <3> QED
      BY <3>1 DEF InSection, BudgetInv, FreshRows, Exists
  <2>5. CASE RecoverCandidate(w)
    <3>1. /\ pc[w] = "rec_decide" /\ pc'[w] = "rec_enqueue" /\ UNCHANGED job
          /\ ~Hopeless(w) /\ job[w] \in Jobs
      BY <2>5 DEF RecoverCandidate, Goto, WorkerLocals, RecUnderLock
    <3>2. InSection(w, job[w])
      BY <3>1 DEF InSection, RecUnderLock
    <3>3. Exists(job[w]) /\ job[w] \notin exposed => rec[w].row.attempts = jobs[job[w]].attempts
      BY <3>1, <3>2 DEF BudgetInv, FreshRows
    <3>4. rec[w].row.attempts <= MaxRetries
      BY <3>1, BudgetTypes DEF Hopeless, Exhausted
    <3>5. \A j \in Jobs : jobs'[j].attempts = jobs[j].attempts /\ (Exists(j)' => Exists(j))
      BY <3>1, WorkerStatus DEF Claim
    <3>6. CASE UNCHANGED <<jobs, rec>>
      BY <3>1, <3>3, <3>4, <3>6 DEF InSection, Exists
    <3>7. CASE Exists(job[w]) /\ RecSet(w, [rec[w] EXCEPT !.row = jobs'[job[w]]])
      <4>1. rec'[w].row = jobs'[job[w]]
        BY <3>7 DEF RecSet, RecState
      <4> QED
        BY <3>1, <3>3, <3>4, <3>5, <3>7, <4>1 DEF InSection
    <3> QED
      BY <2>5, <3>6, <3>7 DEF RecoverCandidate
  <2>6. CASE RecycleConnection(w)
    BY <2>6 DEF RecycleConnection, workerVars, BudgetInv, FreshRows, InSection, Exists
  <2>7. CASE \/ RqStep(w) \/ ExecutionStep(w)
             \/ ReconciliationStep(w) /\ ~StartWorker(w) /\ ~RefreshCandidate(w)
                   /\ ~ScanRegistry(w) /\ ~RecoverCandidate(w)
             \/ FaultStep(w) /\ ~RecycleConnection(w)
             \/ Shutdown(w)
    <3>1. CASE RqStep(w) \/ ExecutionStep(w)
      BY <2>1, <3>1 DEF Goto, RqStep, Dequeue, AdoptAbandoned, StartExecution, Succeed, Requeue,
         BackToIdle, ExecutionStep, RunStages, NextStage, Committed, ScanSteps,
         AcquireLock, Claim, Ineligible, Progress, Complete, Reject, RowVanished,
         PersistUnexpected, Release, FailureCallback
    <3>2. CASE ReconciliationStep(w) /\ ~StartWorker(w) /\ ~RefreshCandidate(w)
                   /\ ~ScanRegistry(w) /\ ~RecoverCandidate(w)
      BY <2>1, <3>2 DEF Goto, Exit, ScanSteps, ReconciliationStep, ListCandidates,
         SkipCandidate, LockCandidate, LeaveCandidate, FailCandidate, EnqueueCandidate,
         ReleaseCandidate, FinishReconciliation, AbortReconciliation
    <3>3. CASE (FaultStep(w) /\ ~RecycleConnection(w)) \/ Shutdown(w)
      BY <2>1, <3>3 DEF Goto, Exit, ScanSteps, FaultStep, LockTimeout, LockError,
         TransientError, UnexpectedError, Kill, Crash, Shutdown, ReconciliationError
    <3> QED
      BY <2>7, <3>1, <3>2, <3>3
  <2> QED
    BY <2>2, <2>3, <2>4, <2>5, <2>6, <2>7 DEF WorkerStep
<1> QED
  BY <1>0, <1>2, <1>3 DEF FreshRows

LEMMA SubmitBudget ==
    ASSUME TypeInv, OwnInv, BirthInv, BudgetInv, NEW j \in Jobs,
           SubmitLock(j) \/ SubmitStep(j) \/ SubmitCrash(j)
    PROVE  BudgetInv'
<1> USE DEF TypeInv, TypeOK, StoreTypeOK, QueueTypeOK
<1>0. jobs[j] \in Row
  OBVIOUS
<1>1. /\ UNCHANGED <<pc, cur, job, rec, exposed>> /\ sub[j] \notin SubmitEnds
      /\ \A i \in Jobs \ {j} : jobs'[i] = jobs[i]
  BY NothingExposed DEF workerVars, SubmitLock, SubmitStep, SubmitCreate, SubmitEnqueue,
     SubmitFail, SubmitRelease, SubmitCrash, Submitting, SubmitEnds, create_job, fail_job, SetRow
<1>2. \A w \in Workers : ~InSection(w, j) \/ j \in exposed
  BY <1>1 DEF BirthInv, SectionsAfter, Past
<1>3. FreshRows'
  BY <1>1, <1>2 DEF FreshRows, BudgetInv, InSection, Exists
<1>4. CASE UNCHANGED <<jobs, rq>>
  BY <1>1, <1>3, <1>4 DEF BudgetInv, EntriesInBudget, AttemptsBounded, Live, Nonterminal,
     Remaining, Pending
<1>5. CASE sub[j] = "locked" /\ create_job(j) /\ UNCHANGED rq
  <2>1. jobs'[j].attempts = 0
    BY <1>5 DEF create_job, NoRow
  <2>2. AttemptsBounded'
    BY <1>1, <2>1, BudgetTypes DEF AttemptsBounded, BudgetInv
  <2>3. \A r \in RqIds : Live(r) => rq[r].job \in Jobs \ {j}
    BY <1>5 DEF BirthInv, EntriesAreBorn, Early, Unborn, OwnInv, EntriesHaveJobs
  <2>4. EntriesInBudget'
    BY <1>1, <1>5, <2>3 DEF BudgetInv, EntriesInBudget, Live, Nonterminal, Remaining, Pending
  <2> QED
    BY <1>3, <2>2, <2>4 DEF BudgetInv
<1>6. CASE fail_job(j) /\ UNCHANGED rq
  <2>1. jobs'[j].attempts = jobs[j].attempts /\ ~Nonterminal(j)'
    BY <1>0, <1>6 DEF fail_job, FailedRow, SetRow, Nonterminal, Row
  <2>2. AttemptsBounded'
    BY <1>1, <2>1 DEF AttemptsBounded, BudgetInv
  <2>3. \A r \in RqIds : Live(r) => rq[r].job \in Jobs
    BY DEF OwnInv, EntriesHaveJobs
  <2>4. EntriesInBudget'
    BY <1>1, <1>6, <2>1, <2>3 DEF BudgetInv, EntriesInBudget, Live, Nonterminal, Remaining,
       Pending
  <2> QED
    BY <1>3, <2>2, <2>4 DEF BudgetInv
<1>7. CASE sub[j] = "created" /\ enqueue(j, None) /\ UNCHANGED jobs
  <2>1. PICK s \in RqIds :
            /\ rq'[s] = [job |-> j, place |-> "queue", retries |-> RetriesFor(None)]
            /\ \A t \in RqIds \ {s} : rq'[t] = rq[t]
    BY <1>7, NewEntry
  <2>2. jobs[j].attempts = 0 \/ j \in exposed
    BY <1>7 DEF BirthInv, RowsWait
  <2>3. rq'[s].job = j /\ Remaining(s)' = MaxRetries
    BY <2>1, StoreAssumption DEF Remaining, RetriesFor, NoRetry
  <2>4. j \notin exposed => jobs'[rq'[s].job].attempts + Remaining(s)' + (IF Pending(s)' THEN 1 ELSE 0)
            <= MaxRetries + 1
    BY <1>7, <2>2, <2>3, StoreAssumption
  <2>5. ASSUME NEW r \in RqIds \ {s}, Live(r)', Nonterminal(rq[r].job)',
               rq'[r].job \notin exposed
        PROVE  jobs'[rq'[r].job].attempts + Remaining(r)' + (IF Pending(r)' THEN 1 ELSE 0)
                   <= MaxRetries + 1
    BY <1>1, <1>7, <2>1, <2>5 DEF BudgetInv, EntriesInBudget, Live, Nonterminal, Remaining,
       Pending
  <2>6. EntriesInBudget'
    BY <1>1, <2>3, <2>4, <2>5 DEF EntriesInBudget
  <2> QED
    BY <1>1, <1>3, <1>7, <2>6 DEF BudgetInv, AttemptsBounded
<1> QED
  BY <1>4, <1>5, <1>6, <1>7 DEF SubmitLock, SubmitStep, SubmitCreate, SubmitEnqueue,
     SubmitFail, SubmitRelease, SubmitCrash, Submitting, SubmitEnds

LEMMA EnvironmentBudget ==
    ASSUME TypeInv, OwnInv, BudgetInv,
           (\E r \in RqIds : Promote(r) \/ LoseEntry(r)) \/ CleanupPreviewJobs \/ TimePasses
    PROVE  BudgetInv'
<1> USE DEF TypeInv, TypeOK, StoreTypeOK, QueueTypeOK
<1>1. UNCHANGED <<pc, cur, job, rec, exposed>>
  BY NothingExposed DEF Promote, LoseEntry, CleanupPreviewJobs, TimePasses, workerVars
<1>2. CASE CleanupPreviewJobs \/ TimePasses
  <2>1. /\ UNCHANGED rq
        /\ \A j \in Jobs : jobs'[j] = jobs[j] \/ (jobs'[j].attempts = 0 /\ ~Exists(j)')
    BY <1>2 DEF CleanupPreviewJobs, TimePasses, delete_expired_jobs, NoRow, Exists
  <2>2. AttemptsBounded'
    BY <1>1, <2>1, BudgetTypes DEF AttemptsBounded, BudgetInv
  <2>3. FreshRows'
    BY <1>1, <2>1 DEF FreshRows, BudgetInv, InSection, Exists
  <2>4. \A r \in RqIds : Live(r) => rq[r].job \in Jobs
    BY DEF OwnInv, EntriesHaveJobs
  <2>5. EntriesInBudget'
    BY <1>1, <2>1, <2>4 DEF EntriesInBudget, BudgetInv, Nonterminal, Exists, Live,
       Remaining, Pending
  <2> QED
    BY <2>2, <2>3, <2>5 DEF BudgetInv
<1>3. ASSUME NEW r \in RqIds, Promote(r) \/ LoseEntry(r)
      PROVE  BudgetInv'
  <2>1. UNCHANGED jobs
    BY <1>3 DEF Promote, LoseEntry
  <2>2. AttemptsBounded' /\ FreshRows'
    BY <1>1, <2>1 DEF AttemptsBounded, FreshRows, BudgetInv, InSection, Exists
  <2>3. ASSUME NEW s \in RqIds, Live(s)'
        PROVE  /\ Live(s) /\ rq'[s].job = rq[s].job /\ rq'[s].retries = rq[s].retries
               /\ Pending(s)' => Pending(s)
    BY <1>1, <1>3, <2>3 DEF Promote, LoseEntry, RqMove, RqRemove, Entry, NoEntry, Live, Pending
  <2>4. EntriesInBudget'
    <3> SUFFICES ASSUME NEW s \in RqIds, Live(s)', Nonterminal(rq[s].job)',
                        rq'[s].job \notin exposed
                 PROVE  jobs'[rq'[s].job].attempts + Remaining(s)'
                            + (IF Pending(s)' THEN 1 ELSE 0) <= MaxRetries + 1
      BY <1>1 DEF EntriesInBudget
    <3>1. /\ Live(s) /\ rq'[s].job = rq[s].job /\ Remaining(s)' = Remaining(s)
          /\ Pending(s)' => Pending(s)
      BY <2>3 DEF Remaining
    <3>2. /\ jobs[rq[s].job].attempts + Remaining(s) + (IF Pending(s) THEN 1 ELSE 0)
                <= MaxRetries + 1
          /\ rq[s].job \in Jobs
      BY <2>1, <3>1 DEF EntriesInBudget, BudgetInv, Nonterminal, OwnInv, EntriesHaveJobs
    <3>3. /\ jobs[rq[s].job].attempts \in Nat /\ Remaining(s) \in Nat /\ MaxRetries \in Nat
      BY <3>2, BudgetTypes
    <3> QED
      BY <2>1, <3>1, <3>2, <3>3
  <2> QED
    BY <2>2, <2>4 DEF BudgetInv
<1> QED
  BY <1>2, <1>3

(* From the budget that counts the execution a worker is about to claim to *)
(* the one that is stated of the queue.                                    *)
LEMMA BudgetSuffices ==
    ASSUME TypeInv, OwnInv, BudgetInv
    PROVE  AttemptBudget
<1>1. ASSUME NEW r \in RqIds, Live(r), Nonterminal(rq[r].job), rq[r].job \notin exposed
      PROVE  jobs[rq[r].job].attempts + ExecutionsLeft(r) <= MaxRetries + 1
  <2>1. rq[r].job \in Jobs
    BY <1>1 DEF OwnInv, EntriesHaveJobs
  <2>2. /\ jobs[rq[r].job].attempts \in Nat /\ Remaining(r) \in Nat /\ MaxRetries \in Nat
    BY <2>1, BudgetTypes
  <2>3. jobs[rq[r].job].attempts + Remaining(r) + (IF Pending(r) THEN 1 ELSE 0) <= MaxRetries + 1
    BY <1>1 DEF BudgetInv, EntriesInBudget
  <2>4. CASE rq[r].place \in {"queue", "scheduled", "intermediate"}
    BY <2>2, <2>3, <2>4 DEF ExecutionsLeft, Remaining, Pending
  <2>5. CASE rq[r].place \notin {"queue", "scheduled", "intermediate"}
    BY <2>2, <2>3, <2>5 DEF ExecutionsLeft, Remaining
  <2> QED
    BY <2>4, <2>5
<1> QED
  BY <1>1 DEF AttemptBudget, BudgetInv, AttemptsBounded

LEMMA BudgetStep ==
    ASSUME TypeInv, TypeInv', OwnInv, OwnInv', BirthInv, BudgetInv, NoDuplicateEntry,
           SectionsApart, [Next]_vars
    PROVE  BudgetInv'
<1>1. CASE UNCHANGED vars
  BY <1>1 DEF vars, BudgetInv, EntriesInBudget, AttemptsBounded, FreshRows, Live, Nonterminal,
     Remaining, Pending, InSection, Exists
<1>2. CASE \E j \in Jobs : SubmitLock(j) \/ SubmitStep(j) \/ SubmitCrash(j)
  BY <1>2, SubmitBudget
<1>5. CASE \E j \in Jobs : CloseApiConnection(j)
  BY <1>5, ClosingFrame DEF BudgetInv, EntriesInBudget, AttemptsBounded, FreshRows, Live,
     Nonterminal, Remaining, Pending, InSection, Exists
<1>3. CASE \E w \in Workers : WorkerStep(w) \/ FaultStep(w) \/ Shutdown(w)
  BY <1>3, WorkerBudget, WorkerFresh DEF BudgetInv
<1>4. CASE (\E r \in RqIds : Promote(r) \/ LoseEntry(r)) \/ CleanupPreviewJobs \/ TimePasses
  BY <1>4, EnvironmentBudget
<1> QED
  BY <1>1, <1>2, <1>3, <1>4, <1>5 DEF Next

LEMMA BudgetAtFirst == Init => BudgetInv
BY StoreAssumption DEF Init, StoreInit, QueueInit, NoEntry, NoRow, NoRec, BudgetInv,
   EntriesInBudget, AttemptsBounded, FreshRows, Live, Exists

(* With one worker, as deployed, the executions of a preview job never     *)
(* exceed max_retries + 1: not through RQ's retries, not through lost      *)
(* acknowledgements, crashes or connections, and not through recovery,     *)
(* which grants only what the row has left.  A crash between the two       *)
(* halves of a dequeue is assumed not to happen; a submission that loses   *)
(* its lock costs the bound for its own job and for no other.              *)
THEOREM OneWorkerBudget ==
    ASSUME OneWorker, "limbo" \notin FaultKinds
    PROVE  Spec => []AttemptBudget
<1>1. SectionsApart
  BY DEF OneWorker, SectionsApart
<1>2. TypeInv /\ TypeInv' /\ OwnInv /\ OwnInv' /\ BirthInv /\ BudgetInv /\ NoDuplicateEntry
          /\ [Next]_vars => BudgetInv'
  BY <1>1, BudgetStep
<1>3. TypeInv /\ OwnInv /\ BudgetInv => AttemptBudget
  BY BudgetSuffices
<1> QED
  BY <1>2, <1>3, BudgetAtFirst, TypeInvariant, Ownership, Births, OneEntryEach, PTL DEF Spec

(* With any number of workers the budget rests on two things: that the     *)
(* connection which carries a lock is not replaced, and that no job has    *)
(* two entries.  Nothing else a fault can do exceeds it, exposed jobs      *)
(* excepted.                                                               *)
THEOREM SharedBudget ==
    ASSUME "recycle" \notin FaultKinds
    PROVE  Spec /\ []NoDuplicateEntry => []AttemptBudget
<1>1. MutualExclusion => SectionsApart
  BY DEF MutualExclusion, SectionsApart
<1>2. TypeInv /\ TypeInv' /\ OwnInv /\ OwnInv' /\ BirthInv /\ MutualExclusion /\ BudgetInv
          /\ NoDuplicateEntry /\ [Next]_vars => BudgetInv'
  BY <1>1, BudgetStep
<1>3. TypeInv /\ OwnInv /\ BudgetInv => AttemptBudget
  BY BudgetSuffices
<1> QED
  BY <1>2, <1>3, BudgetAtFirst, TypeInvariant, Ownership, Births, Exclusion, PTL DEF Spec

-----------------------------------------------------------------------------
(* The ORM writes of an execution do not look at the row they overwrite:   *)
(* they are right because the row is what the worker has last written.     *)
ExecInv ==
    \A w \in Workers : Executing(w) /\ Exists(job[w]) /\ job[w] \notin exposed =>
        jobs[job[w]].status = "running" /\ jobs[job[w]].stage = pc[w]

RowInv == RowCoherent /\ ExecInv

(* While a worker executes a job nobody else is about to write to its row: *)
(* neither another holder of an RQ entry nor a reconciling worker.         *)
ExecutesAlone ==
    \A v, w \in Workers :
        /\ Executing(v) /\ job[v] \notin exposed /\ job[w] = job[v]
        /\ pc[w] \in HoldingPcs \cup RecUnderLock
        => w = v

LEMMA ApartFromOneEntry ==
    ASSUME TypeInv, OwnInv, NoDuplicateEntry, SectionsApart
    PROVE  ExecutesAlone
<1> SUFFICES ASSUME NEW v \in Workers, NEW w \in Workers, Executing(v), job[v] \notin exposed,
                    job[w] = job[v], pc[w] \in HoldingPcs \cup RecUnderLock
             PROVE  w = v
  BY DEF ExecutesAlone
<1>1. /\ cur[v] \in RqIds /\ Live(cur[v]) /\ rq[cur[v]].job = job[v]
  BY DEF Executing, OwnInv, Owns, HoldingPcs, UnderLockPcs
<1>2. job[v] \in Jobs
  BY <1>1 DEF OwnInv, EntriesHaveJobs
<1>3. CASE pc[w] \in HoldingPcs
  <2>1. cur[w] \in RqIds /\ Live(cur[w]) /\ rq[cur[w]].job = job[w]
    BY <1>3 DEF OwnInv, Owns
  <2>2. cur[v] = cur[w]
    BY <1>1, <2>1 DEF NoDuplicateEntry
  <2> QED
    BY <1>1, <2>2, QueueAssumption DEF OwnInv
<1>4. CASE pc[w] \in RecUnderLock
  BY <1>2, <1>4 DEF SectionsApart, InSection, Executing, UnderLockPcs
<1> QED
  BY <1>3, <1>4

(* What may happen to one row: it is written as its story allows, or it is *)
(* deleted.                                                                *)
RowMoves(j) ==
    \/ jobs'[j] = jobs[j]
    \/ jobs[j] = NoRow /\ jobs'[j] = [NoRow EXCEPT !.status = "queued", !.expires = now + Ttl]
    \/ Exists(j) /\ jobs'[j] = NoRow
    \/ Nonterminal(j) /\ jobs'[j] = [jobs[j] EXCEPT !.status = "running", !.stage = "parsing",
                                                    !.started = now, !.finished = FALSE,
                                                    !.error = FALSE, !.attempts = @ + 1]
    \/ /\ jobs[j].status = "running" /\ jobs[j].stage \in RunStages \ {"generating_results"}
       /\ jobs'[j] = [jobs[j] EXCEPT !.stage = NextStage(jobs[j].stage)]
    \/ /\ jobs[j].status = "running" /\ jobs[j].stage = "generating_results"
       /\ jobs'[j] = [jobs[j] EXCEPT !.status = "completed", !.stage = "completed",
                                     !.result = TRUE, !.finished = TRUE]
    \/ Nonterminal(j) /\ jobs'[j] \in {QueuedRow(jobs[j]), FailedRow(jobs[j])}
    \/ jobs[j].status = "failed" /\ jobs'[j] = FailedRow(jobs[j])

Coherent(j) ==
    Exists(j) =>
        LET row == jobs[j]
        IN  /\ row.result <=> row.status = "completed"
            /\ row.error <=> row.status = "failed"
            /\ row.finished <=> Terminal(j)
            /\ row.status = "queued" => row.started = None
            /\ row.status = "running" => row.started # None
            /\ IF row.status = "running" THEN row.stage \in RunStages
                                         ELSE row.stage = row.status

LEMMA NextStageType ==
    \A s \in RunStages \ {"generating_results"} : NextStage(s) \in RunStages
BY DEF NextStage, RunStages

(* A row that moves that way stays coherent, and a terminal one terminal.  *)
LEMMA MovesAreCoherent ==
    ASSUME TypeInv, NEW j \in Jobs, Coherent(j), RowMoves(j)
    PROVE  /\ Coherent(j)'
           /\ Terminal(j) => jobs'[j].status \in {jobs[j].status, "absent"}
<1> USE DEF TypeInv, TypeOK, StoreTypeOK
<1>0. jobs[j] \in Row /\ now \in Nat /\ now # None
  BY StoreAssumption
<1> USE DEF Coherent, Exists, Nonterminal, Terminal
<1>1. CASE jobs'[j] = jobs[j] \/ jobs'[j] = NoRow
  BY <1>1 DEF NoRow
<1>2. CASE jobs[j] = NoRow /\ jobs'[j] = [NoRow EXCEPT !.status = "queued", !.expires = now + Ttl]
  BY <1>2 DEF NoRow
<1>3. CASE Nonterminal(j) /\ jobs'[j] = [jobs[j] EXCEPT !.status = "running", !.stage = "parsing",
                                             !.started = now, !.finished = FALSE,
                                             !.error = FALSE, !.attempts = @ + 1]
  BY <1>0, <1>3 DEF Row, RunStages
<1>4. CASE /\ jobs[j].status = "running" /\ jobs[j].stage \in RunStages \ {"generating_results"}
           /\ jobs'[j] = [jobs[j] EXCEPT !.stage = NextStage(jobs[j].stage)]
  <2> DEFINE s == NextStage(jobs[j].stage)
  <2>1. s \in RunStages
    BY <1>4, NextStageType
  <2>2. jobs'[j] = [jobs[j] EXCEPT !.stage = s]
    BY <1>4
  <2> HIDE DEF s
  <2> QED
    BY <1>0, <1>4, <2>1, <2>2 DEF Row
<1>5. CASE /\ jobs[j].status = "running" /\ jobs[j].stage = "generating_results"
           /\ jobs'[j] = [jobs[j] EXCEPT !.status = "completed", !.stage = "completed",
                                         !.result = TRUE, !.finished = TRUE]
  BY <1>0, <1>5 DEF Row
<1>6. CASE Nonterminal(j) /\ jobs'[j] \in {QueuedRow(jobs[j]), FailedRow(jobs[j])}
  <2>1. ~jobs[j].result
    BY <1>6
  <2>2. CASE jobs'[j] = QueuedRow(jobs[j])
    <3>1. /\ jobs'[j].status = "queued" /\ jobs'[j].stage = "queued" /\ jobs'[j].started = None
          /\ jobs'[j].result = jobs[j].result /\ ~jobs'[j].error /\ ~jobs'[j].finished
      BY <1>0, <2>2 DEF Row, QueuedRow
    <3> QED
      BY <1>6, <2>1, <3>1
  <2>3. CASE jobs'[j] = FailedRow(jobs[j])
    <3>1. /\ jobs'[j].status = "failed" /\ jobs'[j].stage = "failed"
          /\ jobs'[j].result = jobs[j].result /\ jobs'[j].error /\ jobs'[j].finished
      BY <1>0, <2>3 DEF Row, FailedRow
    <3> QED
      BY <1>6, <2>1, <3>1
  <2> QED
    BY <1>6, <2>2, <2>3
<1>7. CASE jobs[j].status = "failed" /\ jobs'[j] = FailedRow(jobs[j])
  BY <1>0, <1>7 DEF Row, FailedRow
<1> QED
  BY <1>1, <1>2, <1>3, <1>4, <1>5, <1>6, <1>7 DEF RowMoves

(* Every write of a worker is one of these moves, because the row of the   *)
(* job it executes is the one it has last written.                         *)
LEMMA WorkerMoves ==
    ASSUME TypeInv, ExecInv, NEW w \in Workers, WorkerStep(w) \/ FaultStep(w) \/ Shutdown(w),
           NEW j \in Jobs \ exposed
    PROVE  RowMoves(j)
<1> USE DEF TypeInv, TypeOK, StoreTypeOK
<1>0. jobs[j] \in Row
  OBVIOUS
<1>1. CASE Claim(w)
  BY <1>1 DEF Claim, Claimable, claim_job, SetRow, Nonterminal, RowMoves
<1>2. CASE Progress(w)
  <2>1. CASE job[w] = j
    <3>1. /\ pc[w] \in RunStages \ {"generating_results"} /\ Exists(j)
          /\ jobs' = [jobs EXCEPT ![j] = [jobs[j] EXCEPT !.stage = NextStage(pc[w])]]
      BY <1>2, <2>1 DEF Progress, update_progress, SetRow
    <3>2. jobs[j].status = "running" /\ jobs[j].stage = pc[w]
      BY <2>1, <3>1 DEF ExecInv, Executing
    <3> QED
      BY <3>1, <3>2 DEF RowMoves
  <2>2. CASE job[w] # j
    BY <1>2, <2>2 DEF Progress, update_progress, SetRow, RowMoves
  <2> QED
    BY <2>1, <2>2
<1>3. CASE Complete(w)
  <2>1. CASE job[w] = j
    <3>1. jobs[j].status = "running" /\ jobs[j].stage = "generating_results"
      BY <1>3, <2>1 DEF Complete, ExecInv, Executing, RunStages
    <3> QED
      BY <1>3, <2>1, <3>1 DEF Complete, complete_job, SetRow, RowMoves
  <2>2. CASE job[w] # j
    BY <1>3, <2>2 DEF Complete, complete_job, SetRow, RowMoves
  <2> QED
    BY <2>1, <2>2
<1>4. CASE Reject(w)
  <2>1. CASE job[w] = j
    <3>1. Nonterminal(j) /\ jobs'[j] = FailedRow(jobs[j])
      BY <1>4, <2>1 DEF Reject, ExecInv, Executing, Nonterminal, fail_job, SetRow
    <3> QED
      BY <3>1 DEF RowMoves
  <2>2. CASE job[w] # j
    BY <1>4, <2>2 DEF Reject, fail_job, SetRow, RowMoves
  <2> QED
    BY <2>1, <2>2
<1>5. CASE PersistUnexpected(w) \/ FailureCallback(w) \/ FailCandidate(w) \/ RecoverCandidate(w)
  <2>1. \/ jobs'[j] = jobs[j]
        \/ Nonterminal(j) /\ jobs'[j] \in {QueuedRow(jobs[j]), FailedRow(jobs[j])}
    BY <1>5 DEF PersistUnexpected, FailureCallback, FailCandidate, RecoverCandidate, SetRow,
       transition_job_after_operational_failure
  <2> QED
    BY <2>1 DEF RowMoves
<1>6. CASE UNCHANGED jobs
  BY <1>6 DEF RowMoves
<1> QED
  BY <1>1, <1>2, <1>3, <1>4, <1>5, <1>6 DEF WorkerStep, RqStep, AdoptAbandoned,
     Dequeue, StartExecution, Succeed, Requeue, ExecutionStep, storeVars,
     AcquireLock, Ineligible, RowVanished, Release, ReconciliationStep, StartWorker,
     ScanRegistry, ListCandidates, SkipCandidate, LockCandidate, RefreshCandidate,
     LeaveCandidate, EnqueueCandidate, ReleaseCandidate,
     FinishReconciliation, AbortReconciliation, FaultStep, LockTimeout, LockError,
     TransientError, UnexpectedError, Kill, Crash, Shutdown, RecycleConnection,
     ReconciliationError

(* ... and so is every write of a request or of the cleanup job.           *)
LEMMA OtherMoves ==
    ASSUME TypeInv, BirthInv, NEW j \in Jobs \ exposed,
           \/ \E i \in Jobs : SubmitLock(i) \/ SubmitStep(i) \/ SubmitCrash(i)
           \/ (\E r \in RqIds : Promote(r) \/ LoseEntry(r)) \/ CleanupPreviewJobs \/ TimePasses
    PROVE  RowMoves(j)
<1> USE DEF TypeInv, TypeOK, StoreTypeOK
<1>1. CASE UNCHANGED jobs
  BY <1>1 DEF RowMoves
<1>2. CASE \E i \in Jobs : create_job(i)
  BY <1>2 DEF create_job, RowMoves
<1>3. ASSUME NEW i \in Jobs, sub[i] = "enqueue_error", Exists(i), fail_job(i)
      PROVE  RowMoves(j)
  <2>1. i = j => jobs[i].status \in {"queued", "failed"}
    BY <1>3 DEF BirthInv, RowsWait, Exists
  <2> QED
    BY <1>3, <2>1 DEF fail_job, SetRow, RowMoves, Nonterminal
<1>4. CASE delete_expired_jobs
  BY <1>4 DEF delete_expired_jobs, Expirable, RowMoves
<1> QED
  BY <1>1, <1>2, <1>3, <1>4 DEF SubmitLock, SubmitStep, SubmitCreate, SubmitEnqueue,
     SubmitFail, SubmitRelease, SubmitCrash, Submitting, SubmitEnds, Promote, LoseEntry, CleanupPreviewJobs, TimePasses

(* The executing worker keeps knowing its row. *)
LEMMA WorkerExecs ==
    ASSUME TypeInv, ExecInv, ExecutesAlone, NEW w \in Workers,
           WorkerStep(w) \/ FaultStep(w) \/ Shutdown(w), OwnInv, BirthInv
    PROVE  ExecInv'
<1> USE DEF TypeInv, TypeOK, StoreTypeOK
<1>0. exposed' = exposed
  BY NothingExposed
<1>1. \A v \in Workers \ {w} : pc'[v] = pc[v] /\ job'[v] = job[v]
  BY WorkerFrame
<1>2. ASSUME NEW v \in Workers \ {w}, Executing(v)', Exists(job[v])', (job[v] \notin exposed)'
      PROVE  jobs'[job'[v]].status = "running" /\ jobs'[job'[v]].stage = pc'[v]
  <2>1. /\ Executing(v) /\ job'[v] = job[v] /\ pc'[v] = pc[v] /\ job[v] \in Jobs
        /\ job[v] \notin exposed
    BY <1>0, <1>1, <1>2 DEF Executing, OwnInv, Owns, EntriesHaveJobs, HoldingPcs, UnderLockPcs
  <2>2. jobs'[job[v]] = jobs[job[v]]
    <3>1. SUFFICES ASSUME jobs'[job[v]] # jobs[job[v]] PROVE FALSE
      OBVIOUS
    <3>2. job[w] = job[v]
      BY <2>1, <3>1, WorkerRows
    <3>3. pc[w] \in HoldingPcs \cup RecUnderLock
      <4>1. \/ Claim(w) \/ Progress(w) \/ Complete(w) \/ Reject(w) \/ PersistUnexpected(w)
            \/ FailureCallback(w) \/ FailCandidate(w) \/ RecoverCandidate(w)
        BY <3>1 DEF WorkerStep, RqStep, AdoptAbandoned,
           Dequeue, StartExecution, Succeed, Requeue, ExecutionStep, storeVars,
           AcquireLock, Ineligible, RowVanished, Release, ReconciliationStep, StartWorker,
           ScanRegistry, ListCandidates, SkipCandidate, LockCandidate, RefreshCandidate,
           LeaveCandidate, EnqueueCandidate, ReleaseCandidate,
           FinishReconciliation, AbortReconciliation, FaultStep, LockTimeout, LockError,
           TransientError, UnexpectedError, Kill, Crash, Shutdown, RecycleConnection,
           ReconciliationError
      <4>2. pc[w] \in {"locked", "unexpected", "unlocked_error", "callback", "rec_decide"}
                          \cup RunStages
        BY <4>1 DEF Claim, Progress, Complete, Reject, PersistUnexpected, FailureCallback,
           FailCandidate, RecoverCandidate, RunStages
      <4> QED
        BY <4>2 DEF HoldingPcs, RqPcs, UnderLockPcs, RecUnderLock
    <3> QED
      BY <1>2, <2>1, <3>2, <3>3 DEF ExecutesAlone
  <2> QED
    BY <1>2, <2>1, <2>2 DEF ExecInv, Exists
<1>3. ASSUME Executing(w)', Exists(job[w])', (job[w] \notin exposed)'
      PROVE  jobs'[job'[w]].status = "running" /\ jobs'[job'[w]].stage = pc'[w]
  <2>1. Claim(w) \/ Progress(w) \/ RecycleConnection(w)
    <3>1. CASE RqStep(w) \/ ExecutionStep(w)
      BY <1>3, <3>1 DEF Executing, Goto, RqStep, Dequeue, AdoptAbandoned, StartExecution,
         Succeed, Requeue, BackToIdle, ExecutionStep, RunStages, Committed,
         AcquireLock, Ineligible, Complete, Reject, RowVanished,
         PersistUnexpected, Release, FailureCallback
    <3>2. CASE ReconciliationStep(w)
      BY <1>3, <3>2 DEF Executing, RunStages, Goto, Exit, AfterScan, ReconciliationStep,
         StartWorker, ScanRegistry, ScanSteps, ListCandidates, SkipCandidate, LockCandidate,
         RefreshCandidate, LeaveCandidate, FailCandidate, RecoverCandidate, EnqueueCandidate,
         ReleaseCandidate, FinishReconciliation, AbortReconciliation
    <3>3. CASE FaultStep(w) \/ Shutdown(w)
      BY <1>3, <3>3 DEF Executing, RunStages, Goto, Exit, FaultStep, LockTimeout, LockError,
         TransientError, UnexpectedError, Kill, Crash, Shutdown, ReconciliationError
    <3> QED
      BY <3>1, <3>2, <3>3 DEF WorkerStep
  <2>2. CASE Claim(w)
    <3>1. pc'[w] = "parsing" /\ job'[w] = job[w] /\ claim_job(job[w])
      BY <1>3, <2>2 DEF Claim, Committed, Goto, Executing, RunStages
    <3>2. job[w] \in Jobs
      BY <2>2 DEF Claim, OwnInv, Owns, EntriesHaveJobs, HoldingPcs, UnderLockPcs
    <3> QED
      BY <3>1, <3>2 DEF claim_job, SetRow, Row
  <2>3. CASE Progress(w)
    <3> DEFINE s == NextStage(pc[w])
    <3>1. /\ pc'[w] = s /\ job'[w] = job[w] /\ Exists(job[w]) /\ Executing(w)
          /\ jobs' = [jobs EXCEPT ![job[w]] = [jobs[job[w]] EXCEPT !.stage = s]]
      BY <1>3, <2>3 DEF Progress, Committed, Goto, Executing, RunStages, update_progress, SetRow
    <3>2. job[w] \in Jobs
      BY <3>1 DEF Executing, OwnInv, Owns, EntriesHaveJobs, HoldingPcs, UnderLockPcs
    <3>3. jobs[job[w]].status = "running" /\ jobs[job[w]] \in Row
      BY <1>0, <1>3, <3>1, <3>2 DEF ExecInv
    <3> HIDE DEF s
    <3> QED
      BY <3>1, <3>2, <3>3 DEF Row
  <2>4. CASE RecycleConnection(w)
    BY <1>0, <1>3, <2>4 DEF RecycleConnection, workerVars, ExecInv, Executing, Exists
  <2> QED
    BY <2>1, <2>2, <2>3, <2>4
<1> QED
  BY <1>2, <1>3 DEF ExecInv

LEMMA OtherExecs ==
    ASSUME TypeInv, OwnInv, BirthInv, ExecInv,
           \/ \E i \in Jobs : SubmitLock(i) \/ SubmitStep(i) \/ SubmitCrash(i)
           \/ (\E r \in RqIds : Promote(r) \/ LoseEntry(r)) \/ CleanupPreviewJobs \/ TimePasses
    PROVE  ExecInv'
<1> USE DEF TypeInv, TypeOK, StoreTypeOK
<1> SUFFICES ASSUME NEW w \in Workers, Executing(w)', Exists(job[w])', (job[w] \notin exposed)'
             PROVE  jobs'[job'[w]].status = "running" /\ jobs'[job'[w]].stage = pc'[w]
  BY DEF ExecInv
<1>1. UNCHANGED <<pc, job>>
  BY DEF workerVars, SubmitLock, SubmitStep, SubmitCreate, SubmitEnqueue, SubmitFail,
     SubmitRelease, SubmitCrash, Submitting, SubmitEnds, Promote, LoseEntry, CleanupPreviewJobs, TimePasses
<1>2. Executing(w) /\ job[w] \in Jobs \ exposed
  BY <1>1, NothingExposed DEF Executing, OwnInv, Owns, EntriesHaveJobs, HoldingPcs, UnderLockPcs
<1>3. sub[job[w]] \in SubmitEnds
  BY <1>2 DEF Executing, BirthInv, SectionsAfter, Past, InSection, UnderLockPcs
<1>4. jobs'[job[w]] = jobs[job[w]]
  <2>1. ASSUME NEW i \in Jobs, SubmitLock(i) \/ SubmitStep(i) \/ SubmitCrash(i)
        PROVE  jobs'[job[w]] = jobs[job[w]]
    <3>1. sub[i] \notin SubmitEnds
      BY <2>1 DEF SubmitLock, SubmitStep, SubmitCreate, SubmitEnqueue, SubmitFail,
         SubmitRelease, SubmitCrash, Submitting, SubmitEnds
    <3>2. i # job[w]
      BY <1>3, <3>1
    <3> QED
      BY <1>2, <2>1, <3>2 DEF SubmitLock, SubmitStep, SubmitCreate, SubmitEnqueue, SubmitFail,
         SubmitRelease, SubmitCrash, Submitting, SubmitEnds, create_job, fail_job, SetRow
  <2>2. CASE CleanupPreviewJobs
    <3>1. job[w] \notin Expirable
      BY <1>1, <1>2, <2>2 DEF CleanupPreviewJobs, delete_expired_jobs, NoRow, Exists
    <3> QED
      BY <1>2, <2>2, <3>1 DEF CleanupPreviewJobs, delete_expired_jobs
  <2>3. CASE (\E r \in RqIds : Promote(r) \/ LoseEntry(r)) \/ TimePasses
    BY <2>3 DEF Promote, LoseEntry, TimePasses
  <2> QED
    BY <2>1, <2>2, <2>3
<1> QED
  BY <1>1, <1>2, <1>4 DEF ExecInv, Exists

LEMMA RowStep ==
    ASSUME TypeInv, OwnInv, BirthInv, RowInv, ExecutesAlone, [Next]_vars
    PROVE  /\ RowInv'
           /\ \A j \in Jobs \ exposed : RowMoves(j)
           /\ \A j \in Jobs \ exposed :
                 Terminal(j) => jobs'[j].status \in {jobs[j].status, "absent"}
<1>0. exposed \subseteq exposed'
  BY NothingExposed, ClosingFrame DEF Next, vars
<1>1. \A j \in Jobs \ exposed : RowMoves(j)
  <2> SUFFICES ASSUME NEW j \in Jobs \ exposed PROVE RowMoves(j)
    OBVIOUS
  <2>1. CASE UNCHANGED vars
    BY <2>1 DEF vars, RowMoves
  <2>2. CASE \E w \in Workers : WorkerStep(w) \/ FaultStep(w) \/ Shutdown(w)
    BY <2>2, WorkerMoves DEF RowInv
  <2>3. CASE \E i \in Jobs : CloseApiConnection(i)
    BY <2>3, ClosingFrame DEF RowMoves
  <2> QED
    BY <2>1, <2>2, <2>3, OtherMoves DEF Next
<1>2. ExecInv'
  <2>1. CASE UNCHANGED vars
    BY <2>1 DEF vars, RowInv, ExecInv, Executing, Exists
  <2>2. CASE \E w \in Workers : WorkerStep(w) \/ FaultStep(w) \/ Shutdown(w)
    BY <2>2, WorkerExecs DEF RowInv
  <2>3. CASE \E i \in Jobs : CloseApiConnection(i)
    BY <1>0, <2>3, ClosingFrame DEF RowInv, ExecInv, Executing, Exists
  <2> QED
    BY <2>1, <2>2, <2>3, OtherExecs DEF Next, RowInv
<1>3. \A j \in Jobs \ exposed : Coherent(j)
  BY DEF RowInv, RowCoherent, Coherent
<1>4. \A j \in Jobs \ exposed :
          /\ Coherent(j)'
          /\ Terminal(j) => jobs'[j].status \in {jobs[j].status, "absent"}
  BY <1>1, <1>3, MovesAreCoherent
<1>5. RowCoherent'
  BY <1>0, <1>4 DEF RowCoherent, Coherent
<1> QED
  BY <1>1, <1>2, <1>4, <1>5 DEF RowInv

LEMMA RowsAtFirst == Init => RowInv
BY DEF Init, StoreInit, NoRow, RowInv, RowCoherent, ExecInv, Executing, RunStages, Exists

(* With one worker, whatever fault happens: every row is coherent, unless  *)
(* its submission has lost its lock.                                       *)
THEOREM OneWorkerRows ==
    ASSUME OneWorker
    PROVE  Spec => []RowCoherent
<1>1. ExecutesAlone
  BY DEF OneWorker, ExecutesAlone
<1>2. TypeInv /\ OwnInv /\ BirthInv /\ RowInv /\ [Next]_vars => RowInv'
  BY <1>1, RowStep
<1>3. RowInv => RowCoherent
  BY DEF RowInv
<1> QED
  BY <1>2, <1>3, RowsAtFirst, TypeInvariant, Ownership, Births, PTL DEF Spec

(* With one worker, whatever fault happens: no step revives a job that has *)
(* completed or failed, unless its submission has lost its lock.           *)
THEOREM OneWorkerTerminal ==
    ASSUME OneWorker
    PROVE  Spec => TerminalIsFinal
<1>1. ExecutesAlone
  BY DEF OneWorker, ExecutesAlone
<1>2. TypeInv /\ OwnInv /\ BirthInv /\ RowInv /\ [Next]_vars =>
          /\ RowInv'
          /\ [\A j \in Jobs \ exposed : Terminal(j) =>
                  jobs'[j].status \in {jobs[j].status, "absent"}]_vars
  BY <1>1, RowStep
<1> QED
  BY <1>2, RowsAtFirst, TypeInvariant, Ownership, Births, PTL DEF Spec, TerminalIsFinal

(* With any number of workers, while no other job than those exposed has   *)
(* two entries and no worker's lock is lost with its connection: every row *)
(* that is not exposed is coherent.                                        *)
THEOREM SharedRows ==
    ASSUME "recycle" \notin FaultKinds
    PROVE  Spec /\ []NoDuplicateEntry => []RowCoherent
<1>1. MutualExclusion => SectionsApart
  BY DEF MutualExclusion, SectionsApart
<1>2. TypeInv /\ OwnInv /\ BirthInv /\ MutualExclusion /\ NoDuplicateEntry /\ RowInv
          /\ [Next]_vars => RowInv'
  BY <1>1, ApartFromOneEntry, RowStep
<1>3. RowInv => RowCoherent
  BY DEF RowInv
<1> QED
  BY <1>2, <1>3, RowsAtFirst, TypeInvariant, Ownership, Births, Exclusion, PTL DEF Spec

(* ... and no terminal job is revived. *)
THEOREM SharedTerminal ==
    ASSUME "recycle" \notin FaultKinds
    PROVE  Spec /\ []NoDuplicateEntry => TerminalIsFinal
<1>1. MutualExclusion => SectionsApart
  BY DEF MutualExclusion, SectionsApart
<1>2. TypeInv /\ OwnInv /\ BirthInv /\ MutualExclusion /\ NoDuplicateEntry /\ RowInv
          /\ [Next]_vars =>
          /\ RowInv'
          /\ [\A j \in Jobs \ exposed : Terminal(j) =>
                  jobs'[j].status \in {jobs[j].status, "absent"}]_vars
  BY <1>1, ApartFromOneEntry, RowStep
<1> QED
  BY <1>2, RowsAtFirst, TypeInvariant, Ownership, Births, Exclusion, PTL DEF Spec, TerminalIsFinal

-----------------------------------------------------------------------------
(* The promise to a polling client.  The refinement mapping shows a client *)
(* three columns of each row, and nothing of an exposed job; a job is born *)
(* when its submission has left the transaction that creates the row.      *)

View == [j \in Jobs |-> Shown(j)]
Born == {j \in Jobs : sub[j] \notin {"idle", "locked"}}

(* A step that writes one row, the way rows move, and creates none.        *)
LEMMA OneRowRefines ==
    ASSUME TypeInv, TypeInv', RowCoherent, RowsAreBorn, AttemptsBounded',
           NEW j \in Jobs, j \notin exposed => RowMoves(j),
           \A i \in Jobs \ {j} : jobs'[i] = jobs[i],
           Exists(j)' => Exists(j), UNCHANGED <<Born, exposed>>
    PROVE  [Lifecycle!LifeNext]_(Lifecycle!lifeVars)
<1>a. CASE j \in exposed
  <2>1. UNCHANGED View
    BY <1>a DEF View, Shown
  <2> QED
    BY <2>1 DEF Lifecycle!lifeVars, View, Born
<1> SUFFICES ASSUME j \notin exposed
             PROVE  [Lifecycle!LifeNext]_(Lifecycle!lifeVars)
  BY <1>a
<1> USE DEF TypeInv, TypeOK, StoreTypeOK
<1>0. jobs[j] \in Row /\ jobs'[j] \in Row /\ MaxRetries \in Nat
  BY StoreAssumption
<1>1. /\ View[j].status = jobs[j].status /\ View[j].stage = jobs[j].stage
      /\ View[j].attempts = jobs[j].attempts
  BY DEF View, Shown
<1>2. View' = [View EXCEPT ![j] = [status |-> jobs'[j].status, stage |-> jobs'[j].stage,
                                   attempts |-> jobs'[j].attempts]]
  BY DEF View, Shown
<1>3. ASSUME NEW s, NEW t, jobs'[j].status = s, jobs'[j].stage = t,
             jobs'[j].attempts = jobs[j].attempts
      PROVE  Lifecycle!Show(j, s, t)
  BY <1>3 DEF Shown, Lifecycle!Show
<1>4. Lifecycle!lifeVars = <<View, Born>> /\ UNCHANGED {i \in Jobs : sub[i] \notin {"idle", "locked"}}
  BY DEF Lifecycle!lifeVars, View, Born
<1>5. ASSUME jobs'[j].status = jobs[j].status, jobs'[j].stage = jobs[j].stage,
             jobs'[j].attempts = jobs[j].attempts
      PROVE  UNCHANGED Lifecycle!lifeVars
  <2>1. UNCHANGED View
    BY <1>5 DEF View, Shown
  <2> QED
    BY <1>4, <2>1 DEF Lifecycle!lifeVars, View
<1>6. CASE jobs'[j] = jobs[j]
  BY <1>5, <1>6
<1>7. CASE jobs[j] = NoRow /\ jobs'[j] = [NoRow EXCEPT !.status = "queued", !.expires = now + Ttl]
  BY <1>7 DEF NoRow, Exists
<1>8. CASE Exists(j) /\ jobs'[j] = NoRow
  <2>1. j \in Born
    BY <1>8 DEF RowsAreBorn, Unborn, Born
  <2>2. View' = [i \in Jobs |-> IF i \in {j} THEN Lifecycle!Absent ELSE View[i]]
    BY <1>8 DEF View, Shown, Lifecycle!Absent, NoRow
  <2>3. \E gone \in SUBSET Born :
            View' = [i \in Jobs |-> IF i \in gone THEN Lifecycle!Absent ELSE View[i]]
    <3>1. {j} \in SUBSET Born
      BY <2>1
    <3> QED
      BY <2>2, <3>1
  <2>4. Lifecycle!Deleted
    BY <1>4, <2>3, Zenon DEF Lifecycle!Deleted, View, Born
  <2> QED
    BY <2>4 DEF Lifecycle!LifeNext
<1>9. CASE Nonterminal(j) /\ jobs'[j] = [jobs[j] EXCEPT !.status = "running", !.stage = "parsing",
                                             !.started = now, !.finished = FALSE,
                                             !.error = FALSE, !.attempts = @ + 1]
  <2>1. /\ jobs'[j].status = "running" /\ jobs'[j].stage = "parsing"
        /\ jobs'[j].attempts = jobs[j].attempts + 1
    BY <1>0, <1>9 DEF Row
  <2>2. jobs[j].attempts <= MaxRetries
    BY <1>0, <2>1 DEF AttemptsBounded, Row
  <2>3. /\ View[j].status \in {"queued", "running"} /\ View[j].attempts <= MaxRetries
        /\ View' = [View EXCEPT ![j] = [status |-> "running", stage |-> Lifecycle!Stages[1],
                                        attempts |-> View[j].attempts + 1]]
    BY <1>1, <1>2, <1>9, <2>1, <2>2 DEF Nonterminal, Lifecycle!Stages
  <2>4. Lifecycle!Attempt(j)
    BY <1>4, <2>3 DEF Lifecycle!Attempt, View
  <2> QED
    BY <2>4 DEF Lifecycle!LifeNext
<1>10. CASE /\ jobs[j].status = "running" /\ jobs[j].stage \in RunStages \ {"generating_results"}
            /\ jobs'[j] = [jobs[j] EXCEPT !.stage = NextStage(jobs[j].stage)]
  <2> DEFINE s == NextStage(jobs[j].stage)
  <2>1. jobs'[j] = [jobs[j] EXCEPT !.stage = s]
    BY <1>10
  <2>2. PICK k \in 1..5 : jobs[j].stage = Lifecycle!Stages[k] /\ s = Lifecycle!Stages[k + 1]
    BY <1>10 DEF RunStages, NextStage, Lifecycle!Stages
  <2> HIDE DEF s
  <2>3. jobs'[j].status = "running" /\ jobs'[j].stage = s /\ jobs'[j].attempts = jobs[j].attempts
    BY <1>0, <1>10, <2>1 DEF Row
  <2>4. Lifecycle!Show(j, "running", Lifecycle!Stages[k + 1])
    BY <1>3, <2>2, <2>3
  <2>5. Lifecycle!Advance(j)
    BY <1>4, <1>10, <2>2, <2>4 DEF Lifecycle!Advance, Shown
  <2> QED
    BY <2>5 DEF Lifecycle!LifeNext
<1>11. CASE /\ jobs[j].status = "running" /\ jobs[j].stage = "generating_results"
            /\ jobs'[j] = [jobs[j] EXCEPT !.status = "completed", !.stage = "completed",
                                          !.result = TRUE, !.finished = TRUE]
  <2>1. /\ jobs'[j].status = "completed" /\ jobs'[j].stage = "completed"
        /\ jobs'[j].attempts = jobs[j].attempts
    BY <1>0, <1>11 DEF Row
  <2>2. Lifecycle!Show(j, "completed", "completed")
    BY <1>3, <2>1
  <2>3. Lifecycle!Completed(j)
    BY <1>4, <1>11, <2>2 DEF Lifecycle!Completed, Lifecycle!Stages, Shown
  <2> QED
    BY <2>3 DEF Lifecycle!LifeNext
<1>12. CASE Nonterminal(j) /\ jobs'[j] = QueuedRow(jobs[j])
  <2>1. /\ jobs'[j].status = "queued" /\ jobs'[j].stage = "queued"
        /\ jobs'[j].attempts = jobs[j].attempts
    BY <1>0, <1>12 DEF Row, QueuedRow
  <2>2. CASE jobs[j].status = "queued"
    BY <1>5, <2>1, <2>2 DEF RowCoherent, Exists
  <2>3. CASE jobs[j].status = "running"
    <3>1. Lifecycle!Show(j, "queued", "queued")
      BY <1>3, <2>1
    <3>2. Lifecycle!Retried(j)
      BY <1>4, <2>3, <3>1 DEF Lifecycle!Retried, Shown
    <3> QED
      BY <3>2 DEF Lifecycle!LifeNext
  <2> QED
    BY <1>12, <2>2, <2>3 DEF Nonterminal
<1>13. CASE (Nonterminal(j) \/ jobs[j].status = "failed") /\ jobs'[j] = FailedRow(jobs[j])
  <2>1. /\ jobs'[j].status = "failed" /\ jobs'[j].stage = "failed"
        /\ jobs'[j].attempts = jobs[j].attempts
    BY <1>0, <1>13 DEF Row, FailedRow
  <2>2. CASE jobs[j].status = "failed"
    BY <1>5, <2>1, <2>2 DEF RowCoherent, Exists
  <2>3. CASE Nonterminal(j)
    <3>1. Lifecycle!Show(j, "failed", "failed")
      BY <1>3, <2>1
    <3>2. Lifecycle!Failed(j)
      BY <1>4, <2>3, <3>1 DEF Lifecycle!Failed, Nonterminal, Shown
    <3> QED
      BY <3>2 DEF Lifecycle!LifeNext
  <2> QED
    BY <1>13, <2>2, <2>3
<1> QED
  BY <1>6, <1>7, <1>8, <1>9, <1>10, <1>11, <1>12, <1>13 DEF RowMoves

(* Nothing that a client sees changes. *)
LEMMA StutterRefines ==
    ASSUME UNCHANGED <<jobs, Born, exposed>>
    PROVE  [Lifecycle!LifeNext]_(Lifecycle!lifeVars)
BY DEF Lifecycle!lifeVars, Born, Shown

LEMMA SubmitRefines ==
    ASSUME TypeInv, TypeInv', BirthInv, RowCoherent, AttemptsBounded',
           NEW j \in Jobs, SubmitLock(j) \/ SubmitStep(j) \/ SubmitCrash(j)
    PROVE  [Lifecycle!LifeNext]_(Lifecycle!lifeVars)
<1> USE DEF TypeInv, TypeOK, StoreTypeOK
<1>0. exposed' = exposed
  BY NothingExposed
<1>1. CASE sub[j] = "locked"
  <2>1. sub' = [sub EXCEPT ![j] = sub'[j]] /\ sub'[j] \in {"created", "release", "done"}
    BY <1>1 DEF SubmitLock, SubmitStep, SubmitCreate, SubmitEnqueue, SubmitFail,
       SubmitRelease, SubmitCrash, Submitting, SubmitEnds, SubmitTo
  <2>2. j \notin Born /\ Born' = Born \cup {j}
    BY <1>1, <2>1 DEF Born
  <2>3. CASE UNCHANGED jobs \/ (create_job(j) /\ j \in exposed)
    <3>1. UNCHANGED View
      BY <1>0, <2>3 DEF View, Shown, create_job
    <3>2. Lifecycle!Submitted(j)
      BY <2>2, <3>1 DEF Lifecycle!Submitted, Born, View
    <3> QED
      BY <3>2 DEF Lifecycle!LifeNext
  <2>4. CASE create_job(j) /\ j \notin exposed
    <3>1. /\ jobs'[j].status = "queued" /\ jobs'[j].stage = "queued" /\ jobs'[j].attempts = 0
          /\ jobs[j].attempts = 0 /\ \A i \in Jobs \ {j} : jobs'[i] = jobs[i]
      BY <2>4 DEF create_job, NoRow
    <3>2. Lifecycle!Show(j, "queued", "queued")
      BY <1>0, <2>4, <3>1 DEF Lifecycle!Show, Shown
    <3>3. Lifecycle!Submitted(j)
      BY <2>2, <3>2 DEF Lifecycle!Submitted, Born
    <3> QED
      BY <3>3 DEF Lifecycle!LifeNext
  <2> QED
    BY <1>1, <2>3, <2>4 DEF SubmitLock, SubmitStep, SubmitCreate, SubmitEnqueue, SubmitFail,
       SubmitRelease, SubmitCrash, Submitting, SubmitEnds
<1>2. CASE sub[j] # "locked"
  <2>1. UNCHANGED Born
    BY <1>2 DEF SubmitLock, SubmitStep, SubmitCreate, SubmitEnqueue, SubmitFail,
       SubmitRelease, SubmitCrash, Submitting, SubmitEnds, SubmitTo, Born
  <2>2. CASE UNCHANGED jobs
    BY <1>0, <2>1, <2>2, StutterRefines
  <2>3. CASE SubmitFail(j) /\ Exists(j) /\ fail_job(j)
    <3>1. j \notin exposed => RowMoves(j)
      BY <2>3, OtherMoves DEF SubmitStep
    <3>2. \A i \in Jobs \ {j} : jobs'[i] = jobs[i]
      BY <2>3 DEF fail_job, SetRow
    <3> QED
      BY <1>0, <2>1, <2>3, <3>1, <3>2, OneRowRefines DEF BirthInv
  <2> QED
    BY <1>2, <2>2, <2>3 DEF SubmitLock, SubmitStep, SubmitCreate, SubmitEnqueue, SubmitFail,
       SubmitRelease, SubmitCrash, Submitting, SubmitEnds
<1> QED
  BY <1>1, <1>2

LEMMA WorkerRefines ==
    ASSUME TypeInv, TypeInv', OwnInv, BirthInv, RowInv, AttemptsBounded', NEW w \in Workers,
           WorkerStep(w) \/ FaultStep(w) \/ Shutdown(w)
    PROVE  [Lifecycle!LifeNext]_(Lifecycle!lifeVars)
<1>1. UNCHANGED <<Born, exposed>>
  BY WorkerFrame, NothingExposed DEF Born
<1>2. CASE UNCHANGED jobs
  BY <1>1, <1>2, StutterRefines
<1>3. CASE jobs' # jobs
  <2>1. PICK j \in Jobs : jobs'[j] # jobs[j]
    BY <1>3 DEF TypeInv, TypeOK, StoreTypeOK
  <2>2. \A i \in Jobs : jobs'[i] # jobs[i] => job[w] = i
    BY WorkerRows
  <2>3. \A i \in Jobs \ {j} : jobs'[i] = jobs[i]
    BY <2>1, <2>2
  <2>4. (j \notin exposed => RowMoves(j)) /\ (Exists(j)' => Exists(j))
    BY WorkerMoves, WorkerStatus DEF RowInv
  <2> QED
    BY <1>1, <2>3, <2>4, OneRowRefines DEF RowInv, BirthInv
<1> QED
  BY <1>2, <1>3

LEMMA EnvironmentRefines ==
    ASSUME TypeInv, TypeInv', BirthInv,
           (\E r \in RqIds : Promote(r) \/ LoseEntry(r)) \/ CleanupPreviewJobs \/ TimePasses
    PROVE  [Lifecycle!LifeNext]_(Lifecycle!lifeVars)
<1>1. UNCHANGED sub
  BY DEF Promote, LoseEntry, CleanupPreviewJobs, TimePasses
<1>2. UNCHANGED <<Born, exposed>>
  BY <1>1, NothingExposed DEF Born
<1>3. CASE UNCHANGED jobs
  BY <1>2, <1>3, StutterRefines
<1>4. CASE delete_expired_jobs
  <2>1. Expirable \in SUBSET Born
    BY DEF Expirable, BirthInv, RowsAreBorn, Unborn, Born
  <2>2. View' = [j \in Jobs |-> IF j \in Expirable THEN Lifecycle!Absent ELSE View[j]]
    BY <1>2, <1>4 DEF delete_expired_jobs, View, Shown, NoRow, Lifecycle!Absent
  <2>3. \E gone \in SUBSET Born :
            View' = [j \in Jobs |-> IF j \in gone THEN Lifecycle!Absent ELSE View[j]]
    BY <2>1, <2>2
  <2>4. Lifecycle!Deleted
    BY <1>2, <2>3, Zenon DEF Lifecycle!Deleted, View, Born
  <2> QED
    BY <2>4 DEF Lifecycle!LifeNext
<1> QED
  BY <1>3, <1>4 DEF Promote, LoseEntry, CleanupPreviewJobs, TimePasses

(* A submission that loses its lock takes its job out of the promise. *)
LEMMA ClosingRefines ==
    ASSUME TypeInv, NEW j \in Jobs, CloseApiConnection(j)
    PROVE  [Lifecycle!LifeNext]_(Lifecycle!lifeVars)
<1>1. /\ UNCHANGED <<jobs, sub>> /\ j \in Born /\ UNCHANGED Born
      /\ exposed' \in {exposed, exposed \cup {j}}
  BY ClosingFrame DEF Born, CloseApiConnection, NoFault
<1>2. CASE exposed' = exposed
  BY <1>1, <1>2, StutterRefines
<1>3. CASE exposed' = exposed \cup {j}
  <2>1. View' = [i \in Jobs |-> IF i \in {j} THEN Lifecycle!Absent ELSE View[i]]
    BY <1>1, <1>3 DEF View, Shown, Lifecycle!Absent
  <2>2. {j} \in SUBSET Born
    BY <1>1
  <2>3. \E gone \in SUBSET Born :
            View' = [i \in Jobs |-> IF i \in gone THEN Lifecycle!Absent ELSE View[i]]
    BY <2>1, <2>2
  <2>4. Lifecycle!Deleted
    BY <1>1, <2>3, Zenon DEF Lifecycle!Deleted, View, Born
  <2> QED
    BY <2>4 DEF Lifecycle!LifeNext
<1> QED
  BY <1>1, <1>2, <1>3

LEMMA StepRefines ==
    ASSUME TypeInv, TypeInv', OwnInv, BirthInv, RowInv, AttemptBudget', [Next]_vars
    PROVE  [Lifecycle!LifeNext]_(Lifecycle!lifeVars)
<1>1. AttemptsBounded'
  BY DEF AttemptBudget, AttemptsBounded
<1>2. CASE UNCHANGED vars
  BY <1>2, StutterRefines DEF vars, Born
<1>3. CASE \E j \in Jobs : SubmitLock(j) \/ SubmitStep(j) \/ SubmitCrash(j)
  BY <1>1, <1>3, SubmitRefines DEF RowInv
<1>6. CASE \E j \in Jobs : CloseApiConnection(j)
  BY <1>6, ClosingRefines
<1>4. CASE \E w \in Workers : WorkerStep(w) \/ FaultStep(w) \/ Shutdown(w)
  BY <1>1, <1>4, WorkerRefines
<1>5. CASE (\E r \in RqIds : Promote(r) \/ LoseEntry(r)) \/ CleanupPreviewJobs \/ TimePasses
  BY <1>5, EnvironmentRefines
<1> QED
  BY <1>2, <1>3, <1>4, <1>5, <1>6 DEF Next

LEMMA InitRefines == Init => Lifecycle!LifeInit
BY DEF Init, StoreInit, NoRow, Shown, Lifecycle!LifeInit, Lifecycle!Absent

(* With one worker, as deployed: what a client that polls GET              *)
(* /api/jobs/{id} sees is a behaviour of PreviewLifecycle, under every     *)
(* fault except a crash between the two halves of a dequeue, and up to the *)
(* moment at which the submission of the job loses its lock, if it does.   *)
THEOREM OneWorkerRefinement ==
    ASSUME OneWorker, "limbo" \notin FaultKinds
    PROVE  Spec => ImplementsLifecycle
<1>1. ExecutesAlone
  BY DEF OneWorker, ExecutesAlone
<1>2. TypeInv /\ OwnInv /\ BirthInv /\ RowInv /\ [Next]_vars => RowInv'
  BY <1>1, RowStep
<1>3. TypeInv /\ TypeInv' /\ OwnInv /\ BirthInv /\ RowInv /\ AttemptBudget' /\ [Next]_vars
          => [Lifecycle!LifeNext]_(Lifecycle!lifeVars)
  BY StepRefines
<1> QED
  BY <1>2, <1>3, InitRefines, RowsAtFirst, TypeInvariant, Ownership, Births, OneWorkerBudget, PTL
     DEF Spec, ImplementsLifecycle, Lifecycle!LifeSpec

(* With any number of workers the promise is kept, in the same sense, as   *)
(* long as no job that is not exposed has two entries and no worker's lock *)
(* is lost with its connection.                                            *)
THEOREM SharedRefinement ==
    ASSUME "recycle" \notin FaultKinds
    PROVE  Spec /\ []NoDuplicateEntry => ImplementsLifecycle
<1>1. MutualExclusion => SectionsApart
  BY DEF MutualExclusion, SectionsApart
<1>2. TypeInv /\ OwnInv /\ BirthInv /\ MutualExclusion /\ NoDuplicateEntry /\ RowInv
          /\ [Next]_vars => RowInv'
  BY <1>1, ApartFromOneEntry, RowStep
<1>3. TypeInv /\ TypeInv' /\ OwnInv /\ BirthInv /\ RowInv /\ AttemptBudget' /\ [Next]_vars
          => [Lifecycle!LifeNext]_(Lifecycle!lifeVars)
  BY StepRefines
<1> QED
  BY <1>2, <1>3, InitRefines, RowsAtFirst, TypeInvariant, Ownership, Births, Exclusion,
     SharedBudget, PTL DEF Spec, ImplementsLifecycle, Lifecycle!LifeSpec

-----------------------------------------------------------------------------
(* No open job is forgotten.  With one worker, while the failure handlers  *)
(* can write and Redis keeps what it has acknowledged, an entry is given   *)
(* up only once its row is closed: RQ reports success only after the task  *)
(* has closed the row, and gives up retrying only after the callback has.  *)

OpenHasEntry ==
    \A j \in Jobs : sub[j] \in {"release", "done"} /\ Nonterminal(j) => HasEntry(j)

EnqueueSucceeds == \A j \in Jobs : sub[j] # "enqueue_error"

(* The row of an entry that waits for an execution is not running.         *)
WaitsIdle ==
    \A r \in RqIds :
        rq[r].place \in {"queue", "scheduled", "intermediate"} => jobs[rq[r].job].status # "running"

(* What a worker knows of the row of its job at the points where nothing   *)
(* but this knowledge keeps the entry and the row in step.                 *)
KnowsRow(w) ==
    /\ pc[w] \in {"fetched", "waiting", "locked", "unlocked_error", "requeue"}
           => jobs[job[w]].status # "running"
    /\ pc[w] \in {"release_ok", "succeed"} => ~Nonterminal(job[w]) \/ sub[job[w]] = "leaked"
    /\ pc[w] = "requeue" /\ ~WillRetry(cur[w]) => ~Nonterminal(job[w])
    /\ pc[w] \in ScanSteps \cup {"rec_decide"} /\ job[w] \in Jobs
           => rec[w].row.status # "queued" \/ jobs[job[w]].status # "running"
    /\ pc[w] = "rec_enqueue" => jobs[job[w]].status # "running"

KeptInv ==
    /\ OpenHasEntry /\ EnqueueSucceeds /\ WaitsIdle
    /\ \A w \in Workers : KnowsRow(w)

(* The faults under which the pipeline is proved to forget nothing.  That  *)
(* it does not either when a submission loses its lock is left to TLC.     *)
Forgivable == {"transient", "ambiguous", "unexpected", "crash", "recycle", "leak"}

(* Nothing but the creation of a row opens a job. *)
LEMMA WorkerOpensNothing ==
    ASSUME TypeInv, NEW w \in Workers, WorkerStep(w) \/ FaultStep(w) \/ Shutdown(w)
    PROVE  \A j \in Jobs : Nonterminal(j)' => Nonterminal(j)
BY WorkerStatus

(* A worker starts a row only by claiming it. *)
LEMMA WorkerStarts ==
    ASSUME TypeInv, NEW w \in Workers, WorkerStep(w) \/ FaultStep(w) \/ Shutdown(w),
           NEW j \in Jobs, jobs'[j].status = "running", jobs[j].status # "running"
    PROVE  Claim(w) /\ job[w] = j
<1> USE DEF TypeInv, TypeOK, StoreTypeOK
<1>0. jobs[j] \in Row
  OBVIOUS
<1>1. CASE Claim(w)
  BY <1>1 DEF Claim, claim_job, SetRow
<1>2. CASE Progress(w)
  BY <1>0, <1>2 DEF Progress, update_progress, SetRow, Row
<1>3. CASE Complete(w)
  BY <1>0, <1>3 DEF Complete, complete_job, SetRow, Row
<1>4. CASE Reject(w)
  BY <1>0, <1>4 DEF Reject, fail_job, FailedRow, SetRow, Row
<1>5. CASE PersistUnexpected(w) \/ FailureCallback(w) \/ FailCandidate(w) \/ RecoverCandidate(w)
  <2>1. jobs'[j] \in {jobs[j], QueuedRow(jobs[j]), FailedRow(jobs[j])}
    BY <1>5 DEF PersistUnexpected, FailureCallback, FailCandidate, RecoverCandidate, SetRow,
       transition_job_after_operational_failure
  <2> QED
    BY <1>0, <2>1 DEF QueuedRow, FailedRow, Row
<1>6. CASE UNCHANGED jobs
  BY <1>6
<1> QED
  BY <1>1, <1>2, <1>3, <1>4, <1>5, <1>6 DEF WorkerStep, RqStep, AdoptAbandoned,
     Dequeue, StartExecution, Succeed, Requeue, ExecutionStep, storeVars,
     AcquireLock, Ineligible, RowVanished, Release, ReconciliationStep, StartWorker,
     ScanRegistry, ListCandidates, SkipCandidate, LockCandidate, RefreshCandidate,
     LeaveCandidate, EnqueueCandidate, ReleaseCandidate,
     FinishReconciliation, AbortReconciliation, FaultStep, LockTimeout, LockError,
     TransientError, UnexpectedError, Kill, Crash, Shutdown, RecycleConnection,
     ReconciliationError

(* What is left of an entry that a worker step removes: a closed row, or   *)
(* one whose submission has left its lock behind.                          *)
LEMMA WorkerKeepsEntries ==
    ASSUME TypeInv, OwnInv, KeptInv, NEW w \in Workers,
           WorkerStep(w) \/ FaultStep(w) \/ Shutdown(w), NEW r \in RqIds, Live(r)
    PROVE  \/ Live(r)' /\ rq'[r].job = rq[r].job
           \/ ~Nonterminal(rq[r].job)
           \/ sub[rq[r].job] = "leaked"
<1> USE DEF TypeInv, TypeOK, QueueTypeOK
<1>1. CASE UNCHANGED rq
  BY <1>1 DEF Live
<1>2. ASSUME NEW s \in RqIds, Dequeue(w, s) PROVE Live(r)' /\ rq'[r].job = rq[r].job
  BY <1>2 DEF Dequeue, RqMove, Entry, Live
<1>3. CASE StartExecution(w)
  BY <1>3 DEF StartExecution, RqMove, Entry, Live
<1>4. CASE Succeed(w)
  <2>1. (~Nonterminal(job[w]) \/ sub[job[w]] = "leaked") /\ rq[cur[w]].job = job[w]
    BY <1>4 DEF Succeed, KeptInv, KnowsRow, OwnInv, Owns, HoldingPcs, RqPcs
  <2> QED
    BY <1>4, <2>1 DEF Succeed, RqRemove, Live
<1>5. CASE Requeue(w)
  <2>1. rq[cur[w]].job = job[w] /\ (~WillRetry(cur[w]) => ~Nonterminal(job[w]))
    BY <1>5 DEF Requeue, KeptInv, KnowsRow, OwnInv, Owns, HoldingPcs, RqPcs
  <2>2. CASE WillRetry(cur[w])
    BY <1>5, <2>2 DEF Requeue, RqHandleFailure, Entry, Live
  <2>3. CASE ~WillRetry(cur[w])
    BY <1>5, <2>1, <2>3 DEF Requeue, RqHandleFailure, RqRemove, Live
  <2> QED
    BY <2>2, <2>3
<1>6. CASE EnqueueCandidate(w) \/ ReconciliationError(w)
  <2> DEFINE c == MaxRetries - rec[w].row.attempts
  <2>1. UNCHANGED rq \/ enqueue(job[w], c)
    BY <1>6 DEF EnqueueCandidate, ReconciliationError
  <2> HIDE DEF c
  <2>2. CASE enqueue(job[w], c)
    <3>1. \E s \in RqIds : ~Live(s) /\ \A t \in RqIds \ {s} : rq'[t] = rq[t]
      BY <2>2, NewEntry
    <3> QED
      BY <3>1 DEF Live
  <2> QED
    BY <1>1, <2>1, <2>2
<1> QED
  BY <1>1, <1>2, <1>3, <1>4, <1>5, <1>6 DEF WorkerStep, RqStep, AdoptAbandoned, ExecutionStep,
     AcquireLock, Claim, Ineligible, Progress, Complete, Reject, RowVanished,
     PersistUnexpected, Release, FailureCallback, ReconciliationStep, StartWorker,
     ScanRegistry, ListCandidates, SkipCandidate, LockCandidate, RefreshCandidate,
     LeaveCandidate, FailCandidate, RecoverCandidate, ReleaseCandidate,
     FinishReconciliation, AbortReconciliation, FaultStep, LockTimeout, LockError,
     TransientError, UnexpectedError, Kill, Crash, Shutdown, RecycleConnection

(* After the guarded transition the row does not run, and a final one has  *)
(* closed it.                                                              *)
LEMMA TransitionCloses ==
    ASSUME StoreTypeOK, NEW j \in Jobs, NEW b \in BOOLEAN,
           transition_job_after_operational_failure(j, b)
    PROVE  /\ jobs'[j].status # "running"
           /\ ~b => ~Nonterminal(j)'
<1>0. jobs \in [Jobs -> Row] /\ jobs[j] \in Row
  BY DEF StoreTypeOK
<1>1. CASE ~Nonterminal(j)
  BY <1>1 DEF transition_job_after_operational_failure, Nonterminal
<1>2. CASE Nonterminal(j) /\ b
  <2>1. jobs'[j] = QueuedRow(jobs[j])
    BY <1>0, <1>2 DEF transition_job_after_operational_failure, SetRow
  <2> QED
    BY <1>0, <1>2, <2>1 DEF QueuedRow, Row
<1>3. CASE Nonterminal(j) /\ ~b
  <2>1. jobs'[j] = FailedRow(jobs[j])
    BY <1>0, <1>3 DEF transition_job_after_operational_failure, SetRow
  <2> QED
    BY <1>0, <2>1 DEF FailedRow, Row, Nonterminal
<1> QED
  BY <1>1, <1>2, <1>3

LEMMA WorkerKnowsRow ==
    ASSUME TypeInv, OwnInv, FetchedByOwner, KeptInv, FaultKinds \subseteq Forgivable,
           NEW w \in Workers, WorkerStep(w) \/ FaultStep(w) \/ Shutdown(w)
    PROVE  KnowsRow(w)'
<1> USE DEF TypeInv, TypeOK, StoreTypeOK, QueueTypeOK, KnowsRow, Goto, ScanSteps
<1>0. pc[w] \in HoldingPcs => job[w] \in Jobs /\ jobs[job[w]] \in Row
  BY DEF OwnInv, Owns, EntriesHaveJobs
<1>1. KnowsRow(w)
  BY DEF KeptInv
<1>2. ASSUME NEW r \in RqIds, Dequeue(w, r) PROVE KnowsRow(w)'
  BY <1>2 DEF Dequeue, KeptInv, WaitsIdle
<1>3. ASSUME NEW r \in RqIds, AdoptAbandoned(w, r) PROVE KnowsRow(w)'
  BY <1>3 DEF AdoptAbandoned, FetchedByOwner, Owned
<1>4. CASE StartExecution(w) \/ AcquireLock(w)
  BY <1>1, <1>4 DEF StartExecution, AcquireLock
<1>5. CASE Succeed(w) \/ Requeue(w)
  BY <1>5 DEF Succeed, Requeue, BackToIdle
<1>6. CASE Claim(w) \/ Progress(w)
  BY <1>6 DEF Claim, Progress, Committed, NextStage, RunStages
<1>7. CASE Ineligible(w)
  BY <1>1, <1>7 DEF Ineligible, Claimable, Nonterminal, storeVars
<1>8. CASE Complete(w)
  <2>1. job[w] \in Jobs /\ jobs[job[w]] \in Row
    BY <1>0, <1>8 DEF Complete, HoldingPcs, UnderLockPcs, RunStages
  <2>2. jobs'[job[w]].status = "completed" /\ UNCHANGED job
    BY <1>8, <2>1 DEF Complete, complete_job, SetRow, Row
  <2>3. pc'[w] \in {"release_ok", "release_raise"}
    BY <1>8 DEF Complete, Committed
  <2> QED
    BY <2>2, <2>3 DEF Nonterminal
<1>9. CASE Reject(w)
  <2>1. job[w] \in Jobs /\ jobs[job[w]] \in Row
    BY <1>0, <1>9 DEF Reject, HoldingPcs, UnderLockPcs
  <2>2. jobs'[job[w]].status = "failed" /\ UNCHANGED job
    BY <1>9, <2>1 DEF Reject, fail_job, FailedRow, SetRow, Row
  <2>3. pc'[w] \in {"release_ok", "release_raise"}
    BY <1>9 DEF Reject, Committed
  <2> QED
    BY <2>2, <2>3 DEF Nonterminal
<1>10. CASE RowVanished(w) \/ Release(w)
  BY <1>1, <1>10 DEF RowVanished, Release, Nonterminal
<1>11. CASE PersistUnexpected(w)
  <2>1. job[w] \in Jobs /\ jobs[job[w]] \in Row
    BY <1>0, <1>11 DEF PersistUnexpected, HoldingPcs, RqPcs, UnderLockPcs
  <2>2. transition_job_after_operational_failure(job[w], FALSE) /\ UNCHANGED job
    BY <1>11 DEF PersistUnexpected, Fault, Strike, Forgivable
  <2>3. ~Nonterminal(job[w])'
    BY <2>1, <2>2, TransitionCloses
  <2>4. pc'[w] \in {"release_ok", "succeed"}
    BY <1>11 DEF PersistUnexpected
  <2> QED
    BY <2>3, <2>4
<1>12. CASE FailureCallback(w)
  <2>1. job[w] \in Jobs /\ jobs[job[w]] \in Row
    BY <1>0, <1>12 DEF FailureCallback, HoldingPcs, RqPcs
  <2>2. /\ transition_job_after_operational_failure(job[w], WillRetry(cur[w]))
        /\ UNCHANGED <<job, cur, rq>> /\ pc'[w] = "requeue"
    BY <1>12 DEF FailureCallback, Fault, Strike, Forgivable
  <2>3. WillRetry(cur[w]) \in BOOLEAN
    BY DEF WillRetry
  <2>4. /\ jobs'[job[w]].status # "running"
        /\ ~WillRetry(cur[w]) => ~Nonterminal(job[w])'
    BY <2>1, <2>2, <2>3, TransitionCloses DEF Nonterminal
  <2> QED
    BY <2>2, <2>4 DEF WillRetry
<1>13. CASE ReconciliationStep(w)
  <2>1. CASE RefreshCandidate(w)
    <3>1. job[w] \in Jobs /\ rec[w] \in RecState
      BY <2>1 DEF RefreshCandidate, WorkerLocals, RecUnderLock
    <3> DEFINE r == [rec[w] EXCEPT !.row = jobs[job[w]], !.active = {}]
    <3>0. r.row = jobs[job[w]]
      BY <3>1 DEF RecState
    <3> HIDE DEF r
    <3>4. pc'[w] = "rec_release" \/ (pc'[w] = "scan_queue" /\ rec'[w] = r)
      BY <2>1, <3>1 DEF RefreshCandidate, RecSet, r
    <3>2. \/ pc'[w] = "rec_release"
          \/ pc'[w] = "scan_queue" /\ rec'[w].row = jobs[job[w]]
      BY <3>0, <3>4
    <3>3. UNCHANGED <<jobs, job>>
      BY <2>1 DEF RefreshCandidate, storeVars
    <3> QED
      BY <3>2, <3>3
  <2>2. CASE ScanRegistry(w)
    <3>1. rec[w] \in RecState /\ UNCHANGED <<jobs, job>>
      BY <2>2 DEF ScanRegistry, storeVars
    <3>2. rec'[w].row = rec[w].row
      BY <2>2, <3>1 DEF ScanRegistry, RecSet, RecState
    <3>3. pc[w] \in ScanSteps /\ pc'[w] \in ScanSteps \cup {"rec_list", "rec_decide"}
      BY <2>2 DEF ScanRegistry, AfterScan
    <3> QED
      BY <1>1, <3>1, <3>2, <3>3
  <2>3. CASE RecoverCandidate(w)
    <3>1. job[w] \in Jobs
      BY <2>3 DEF RecoverCandidate, WorkerLocals, RecUnderLock
    <3>2. jobs'[job[w]].status # "running"
      BY <1>1, <2>3, <3>1, TransitionCloses DEF RecoverCandidate
    <3>3. pc'[w] = "rec_enqueue" /\ UNCHANGED job
      BY <2>3 DEF RecoverCandidate
    <3> QED
      BY <3>2, <3>3
  <2>4. CASE StartWorker(w)
    BY <2>4, StoreAssumption DEF StartWorker, WorkerLocals
  <2>5. CASE ListCandidates(w) \/ SkipCandidate(w) \/ LockCandidate(w) \/ LeaveCandidate(w)
             \/ FailCandidate(w) \/ EnqueueCandidate(w) \/ ReleaseCandidate(w)
             \/ FinishReconciliation(w) \/ AbortReconciliation(w)
    <3>1. pc'[w] \in {"rec_examine", "rec_refresh", "rec_release", "rec_failed", "idle", "down"}
      BY <2>5 DEF ListCandidates, SkipCandidate, LockCandidate, LeaveCandidate, FailCandidate,
         EnqueueCandidate, ReleaseCandidate, FinishReconciliation, AbortReconciliation, Exit
    <3> QED
      BY <3>1
  <2> QED
    BY <1>13, <2>1, <2>2, <2>3, <2>4, <2>5 DEF ReconciliationStep
<1>14. CASE UnexpectedError(w) \/ RecycleConnection(w)
  BY <1>1, <1>14 DEF UnexpectedError, RecycleConnection, Nonterminal, WillRetry, workerVars, storeVars
<1>15. CASE (FaultStep(w) /\ ~UnexpectedError(w) /\ ~RecycleConnection(w)) \/ Shutdown(w)
  <2>1. ~Kill(w)
    BY DEF Kill, Fault, Strike, Forgivable
  <2>2. CASE LockTimeout(w)
    <3>1. sub[job[w]] = "leaked" /\ UNCHANGED <<sub, job>> /\ pc'[w] = "succeed"
      BY <2>2 DEF LockTimeout, Fault, Strike, Forgivable, Leaked
    <3> QED
      BY <3>1
  <2>3. CASE ~LockTimeout(w)
    <3>1. pc'[w] \in {"callback", "release_raise", "down"}
      BY <1>15, <2>1, <2>3 DEF FaultStep, LockError, TransientError, Crash, Shutdown, Exit,
         ReconciliationError
    <3> QED
      BY <3>1
  <2> QED
    BY <2>2, <2>3
<1> QED
  BY <1>2, <1>3, <1>4, <1>5, <1>6, <1>7, <1>8, <1>9, <1>10, <1>11, <1>12, <1>13, <1>14, <1>15
     DEF WorkerStep, RqStep, ExecutionStep

LEMMA WorkerKept ==
    ASSUME TypeInv, OwnInv, BirthInv, FetchedByOwner, ScanInv, NoDuplicateEntry, KeptInv,
           OneWorker, FaultKinds \subseteq Forgivable, exposed = {},
           NEW w \in Workers, WorkerStep(w) \/ FaultStep(w) \/ Shutdown(w)
    PROVE  KeptInv'
<1>1. UNCHANGED sub
  BY WorkerFrame
<1>2. OpenHasEntry'
  <2> SUFFICES ASSUME NEW j \in Jobs, sub[j] \in {"release", "done"}, Nonterminal(j)'
               PROVE  HasEntry(j)'
    BY <1>1 DEF OpenHasEntry
  <2>1. Nonterminal(j)
    BY WorkerOpensNothing
  <2>2. PICK r \in RqIds : Live(r) /\ rq[r].job = j
    BY <2>1 DEF KeptInv, OpenHasEntry, HasEntry
  <2> QED
    BY <2>1, <2>2, WorkerKeepsEntries DEF HasEntry
<1>3. EnqueueSucceeds'
  BY <1>1 DEF KeptInv, EnqueueSucceeds
<1>4. WaitsIdle'
  <2> DEFINE Waits == {"queue", "scheduled", "intermediate"}
  <2> SUFFICES ASSUME NEW r \in RqIds, rq'[r].place \in Waits, jobs'[rq'[r].job].status = "running"
               PROVE  FALSE
    BY DEF WaitsIdle
  <2> DEFINE j == rq'[r].job
  <2>0. Live(r)'
    BY DEF Live
  <2>1. CASE Live(r) /\ j = rq[r].job
    <3>1. j \in Jobs
      BY <2>1 DEF OwnInv, EntriesHaveJobs
    <3>2. CASE rq[r].place \in Waits
      <4>1. jobs[j].status # "running"
        BY <2>1, <3>2 DEF KeptInv, WaitsIdle
      <4>2. Claim(w) /\ job[w] = j
        BY <3>1, <4>1, WorkerStarts
      <4>3. /\ cur[w] \in RqIds /\ Live(cur[w]) /\ rq[cur[w]].job = j
            /\ rq[cur[w]].place = "started"
        BY <4>2 DEF Claim, OwnInv, Owns, HoldingPcs, UnderLockPcs
      <4> QED
        BY <2>1, <3>2, <4>3 DEF NoDuplicateEntry
    <3>3. CASE rq[r].place \notin Waits
      <4>1. Requeue(w) /\ r = cur[w]
        <5>1. rq'[r] # rq[r]
          BY <3>3
        <5>2. RqStep(w) \/ EnqueueCandidate(w) \/ ReconciliationError(w)
          BY <5>1 DEF WorkerStep, ExecutionStep, AcquireLock, Claim, Ineligible,
             Progress, Complete, Reject, RowVanished,
             PersistUnexpected, Release, FailureCallback, ReconciliationStep, StartWorker,
             ScanRegistry, ListCandidates, SkipCandidate, LockCandidate, RefreshCandidate,
             LeaveCandidate, FailCandidate, RecoverCandidate, ReleaseCandidate,
             FinishReconciliation, AbortReconciliation, FaultStep, LockTimeout, LockError,
             TransientError, UnexpectedError, Kill, Crash, Shutdown, RecycleConnection
        <5>3. RqStep(w)
          BY <2>1, <5>1, <5>2 DEF EnqueueCandidate, ReconciliationError, enqueue, TypeInv, TypeOK,
             QueueTypeOK
        <5> QED
          BY <2>1, <3>3, <5>1, <5>3 DEF RqStep, Dequeue, AdoptAbandoned, StartExecution, Succeed,
             Requeue, RqMove, RqRemove, RqHandleFailure, NoEntry, TypeInv, TypeOK, QueueTypeOK,
             Entry
      <4>2. pc[w] = "requeue" /\ UNCHANGED jobs
        BY <4>1 DEF Requeue
      <4>3. j = job[w]
        BY <2>1, <4>1, <4>2 DEF OwnInv, Owns, HoldingPcs, RqPcs
      <4> QED
        BY <4>2, <4>3 DEF KeptInv, KnowsRow
    <3> QED
      BY <3>2, <3>3
  <2>2. CASE ~(Live(r) /\ j = rq[r].job)
    <3>1. j = job[w] /\ pc[w] = "rec_enqueue"
      BY <2>0, <2>2, WorkerEntries
    <3>2. UNCHANGED jobs
      BY <3>1 DEF WorkerStep, RqStep, Dequeue, AdoptAbandoned, StartExecution, Succeed, Requeue,
         ExecutionStep, AcquireLock, Claim, Ineligible, Progress, Complete, Reject, RowVanished,
         PersistUnexpected, Release, FailureCallback, ReconciliationStep, StartWorker,
         ScanRegistry, ListCandidates, SkipCandidate, LockCandidate, RefreshCandidate,
         LeaveCandidate, FailCandidate, RecoverCandidate, ReleaseCandidate, EnqueueCandidate,
         FinishReconciliation, AbortReconciliation, FaultStep, LockTimeout, LockError,
         TransientError, UnexpectedError, Kill, Crash, Shutdown, RecycleConnection, RunStages,
         ReconciliationError, storeVars
    <3> QED
      BY <3>1, <3>2 DEF KeptInv, KnowsRow
  <2> QED
    BY <2>1, <2>2
<1>5. ASSUME NEW v \in Workers PROVE KnowsRow(v)'
  <2>1. v = w
    BY DEF OneWorker
  <2> QED
    BY <2>1, WorkerKnowsRow
<1> QED
  BY <1>2, <1>3, <1>4, <1>5 DEF KeptInv

LEMMA SubmitKept ==
    ASSUME TypeInv, OwnInv, BirthInv, KeptInv, FaultKinds \subseteq Forgivable, ~QueueFull,
           exposed = {}, NEW j \in Jobs, SubmitLock(j) \/ SubmitStep(j) \/ SubmitCrash(j)
    PROVE  KeptInv'
<1> USE DEF TypeInv, TypeOK, StoreTypeOK, QueueTypeOK
<1>0. "redis" \notin FaultKinds /\ "create_ack" \notin FaultKinds /\ "api_crash" \notin FaultKinds
  BY DEF Forgivable
<1>1. /\ UNCHANGED <<pc, cur, job, rec>>
      /\ sub[j] # "leaked"
      /\ \A i \in Jobs \ {j} : sub'[i] = sub[i] /\ jobs'[i] = jobs[i]
  BY DEF workerVars, SubmitLock, SubmitStep, SubmitCreate, SubmitEnqueue, SubmitFail,
     SubmitRelease, SubmitCrash, Submitting, SubmitEnds, SubmitTo, create_job, fail_job, SetRow
<1>2. sub[j] # "enqueue_error"
  BY DEF KeptInv, EnqueueSucceeds
<1>3. sub'[j] # "enqueue_error"
  BY <1>0, <1>2 DEF SubmitLock, SubmitStep, SubmitCreate, SubmitEnqueue, SubmitFail,
     SubmitRelease, SubmitCrash, Submitting, SubmitEnds, SubmitTo, Fault, Strike
<1>4. \A w \in Workers : pc[w] \in HoldingPcs => job[w] \in Jobs /\ sub[job[w]] \notin Unborn
  BY DEF OwnInv, Owns, EntriesHaveJobs, BirthInv, EntriesAreBorn, Early
<1>8. \A w \in Workers : pc[w] \in {"release_ok", "succeed"} =>
          job[w] \in Jobs /\ (sub[job[w]] = "leaked" => sub'[job[w]] = "leaked")
  BY <1>1, <1>4 DEF HoldingPcs, RqPcs, UnderLockPcs
<1>5. CASE UNCHANGED <<jobs, rq>>
  <2>1. sub'[j] \in {"release", "done"} =>
            sub[j] \in {"release", "done"} \/ (sub[j] = "locked" /\ ~Exists(j))
    <3>1. ~enqueue(j, None)
      <4>1. SUFFICES ASSUME enqueue(j, None) PROVE FALSE
        OBVIOUS
      <4>2. PICK r \in RqIds :
                ~Live(r) /\ rq'[r] = [job |-> j, place |-> "queue", retries |-> RetriesFor(None)]
        BY <4>1, NewEntry
      <4>3. rq'[r].place = "queue"
        BY <4>2
      <4> QED
        BY <1>5, <4>2, <4>3 DEF Live
    <3>2. sub[j] = "locked" => ~Exists(j)
      BY DEF BirthInv, RowsAreBorn, Unborn
    <3> QED
      BY <1>0, <1>2, <3>1, <3>2 DEF SubmitLock, SubmitStep, SubmitCreate, SubmitEnqueue,
         SubmitFail, SubmitRelease, SubmitCrash, Submitting, SubmitEnds, SubmitTo, Fault, Strike
  <2>2. OpenHasEntry'
    BY <1>1, <1>5, <2>1 DEF KeptInv, OpenHasEntry, Nonterminal, HasEntry, Live, Exists
  <2> QED
    BY <1>1, <1>3, <1>5, <1>8, <2>2 DEF KeptInv, EnqueueSucceeds, WaitsIdle, KnowsRow,
       Nonterminal, WillRetry
<1>6. CASE sub[j] = "locked" /\ create_job(j) /\ UNCHANGED rq /\ sub'[j] = "created"
  <2>1. jobs'[j].status = "queued"
    BY <1>6 DEF create_job, NoRow
  <2>2. \A r \in RqIds : Live(r) => rq[r].job \in Jobs \ {j}
    BY <1>6 DEF BirthInv, EntriesAreBorn, Early, Unborn, OwnInv, EntriesHaveJobs
  <2>3. WaitsIdle'
    BY <1>1, <1>6, <2>2 DEF KeptInv, WaitsIdle, Live
  <2>4. OpenHasEntry'
    BY <1>1, <1>6 DEF KeptInv, OpenHasEntry, Nonterminal, HasEntry, Live
  <2>5. ASSUME NEW w \in Workers PROVE KnowsRow(w)'
    <3>1. pc[w] \in HoldingPcs => job[w] \in Jobs \ {j}
      BY <1>4, <1>6 DEF Unborn
    <3>2. pc[w] \in {"fetched", "waiting", "locked", "unlocked_error", "requeue", "release_ok",
                     "succeed"} => pc[w] \in HoldingPcs
      BY DEF HoldingPcs, RqPcs, UnderLockPcs
    <3>3. (pc[w] \in ScanSteps /\ job[w] \in Jobs) \/ pc[w] \in {"rec_decide", "rec_enqueue"}
              => job[w] \in Jobs \ {j}
      <4>1. ~InSection(w, j)
        BY <1>6 DEF BirthInv, SectionsAfter, Past, Unborn
      <4> QED
        BY <4>1 DEF InSection, RecUnderLock, WorkerLocals
    <3> QED
      BY <1>1, <1>6, <3>1, <3>2, <3>3 DEF KeptInv, KnowsRow, Nonterminal, WillRetry
  <2> QED
    BY <1>1, <1>3, <2>3, <2>4, <2>5 DEF KeptInv, EnqueueSucceeds
<1>7. CASE sub[j] = "created" /\ enqueue(j, None) /\ UNCHANGED jobs
  <2>1. PICK s \in RqIds :
            /\ ~Live(s) /\ rq'[s] = [job |-> j, place |-> "queue", retries |-> RetriesFor(None)]
            /\ \A t \in RqIds \ {s} : rq'[t] = rq[t]
    BY <1>7, NewEntry
  <2>2. rq'[s].job = j /\ Live(s)' /\ jobs[j].status # "running"
    BY <1>7, <2>1 DEF BirthInv, RowsWait, Live
  <2>3. WaitsIdle'
    BY <1>7, <2>1, <2>2 DEF KeptInv, WaitsIdle
  <2>4. HasEntry(j)' /\ \A i \in Jobs : HasEntry(i) => HasEntry(i)'
    BY <2>1, <2>2 DEF HasEntry, Live
  <2>5. OpenHasEntry'
    BY <1>1, <1>7, <2>4 DEF KeptInv, OpenHasEntry, Nonterminal
  <2>6. ASSUME NEW w \in Workers PROVE KnowsRow(w)'
    <3>1. pc[w] = "requeue" => cur[w] \in RqIds \ {s}
      BY <2>1 DEF OwnInv, Owns, HoldingPcs, RqPcs
    <3> QED
      BY <1>1, <1>7, <1>8, <2>1, <3>1 DEF KeptInv, KnowsRow, Nonterminal, WillRetry
  <2> QED
    BY <1>1, <1>3, <2>3, <2>5, <2>6 DEF KeptInv, EnqueueSucceeds
<1> QED
  BY <1>0, <1>2, <1>5, <1>6, <1>7 DEF SubmitLock, SubmitStep, SubmitCreate, SubmitEnqueue,
     SubmitFail, SubmitRelease, SubmitCrash, Submitting, SubmitEnds, SubmitTo, Fault, Strike

LEMMA EnvironmentKept ==
    ASSUME TypeInv, OwnInv, KeptInv, FaultKinds \subseteq Forgivable,
           (\E r \in RqIds : Promote(r) \/ LoseEntry(r)) \/ CleanupPreviewJobs \/ TimePasses
    PROVE  KeptInv'
<1> USE DEF TypeInv, TypeOK, StoreTypeOK, QueueTypeOK
<1>1. UNCHANGED <<sub, pc, cur, job, rec>>
  BY DEF Promote, LoseEntry, CleanupPreviewJobs, TimePasses, workerVars
<1>2. CASE CleanupPreviewJobs \/ TimePasses
  <2>1. /\ UNCHANGED rq
        /\ \A j \in Jobs : jobs'[j] = jobs[j] \/ jobs'[j].status = "absent"
    BY <1>2 DEF CleanupPreviewJobs, TimePasses, delete_expired_jobs, NoRow
  <2>2. OpenHasEntry'
    BY <1>1, <2>1 DEF KeptInv, OpenHasEntry, Nonterminal, HasEntry, Live
  <2>3. WaitsIdle'
    BY <2>1 DEF KeptInv, WaitsIdle, OwnInv, EntriesHaveJobs, Live
  <2>4. ASSUME NEW w \in Workers PROVE KnowsRow(w)'
    <3>1. pc[w] \in {"fetched", "waiting", "locked", "unlocked_error", "requeue", "release_ok",
                     "succeed"} => job[w] \in Jobs
      BY DEF HoldingPcs, RqPcs, UnderLockPcs, OwnInv, Owns, EntriesHaveJobs
    <3>2. pc[w] = "rec_enqueue" => job[w] \in Jobs
      BY DEF WorkerLocals, RecUnderLock
    <3> QED
      BY <1>1, <2>1, <3>1, <3>2 DEF KeptInv, KnowsRow, Nonterminal, WillRetry
  <2> QED
    BY <1>1, <2>2, <2>3, <2>4 DEF KeptInv, EnqueueSucceeds
<1>3. ASSUME NEW r \in RqIds, Promote(r) PROVE KeptInv'
  <2>1. /\ UNCHANGED jobs /\ rq[r].place = "scheduled"
        /\ \A s \in RqIds : /\ rq'[s].job = rq[s].job /\ rq'[s].retries = rq[s].retries
                            /\ s # r => rq'[s].place = rq[s].place
                            /\ rq'[r].place = "queue"
    BY <1>3 DEF Promote, RqMove, Entry
  <2>2. OpenHasEntry'
    BY <1>1, <2>1 DEF KeptInv, OpenHasEntry, Nonterminal, HasEntry, Live
  <2>3. WaitsIdle'
    BY <2>1 DEF KeptInv, WaitsIdle
  <2>4. ASSUME NEW w \in Workers PROVE KnowsRow(w)'
    <3>1. pc[w] = "requeue" => cur[w] \in RqIds
      BY DEF OwnInv, Owns, HoldingPcs, RqPcs
    <3> QED
      BY <1>1, <2>1, <3>1 DEF KeptInv, KnowsRow, Nonterminal, WillRetry
  <2> QED
    BY <1>1, <2>2, <2>3, <2>4 DEF KeptInv, EnqueueSucceeds
<1>4. \A r \in RqIds : ~LoseEntry(r)
  BY DEF LoseEntry, Fault, Strike, Forgivable
<1> QED
  BY <1>2, <1>3, <1>4

(* While no submission can lose its lock, no job is exposed.               *)
LEMMA NoneExposed ==
    ASSUME "api_close" \notin FaultKinds
    PROVE  Spec => [](exposed = {})
<1>1. Init => exposed = {}
  BY DEF Init
<1>2. exposed = {} /\ [Next]_vars => (exposed = {})'
  BY NothingExposed DEF Next, vars, CloseApiConnection, Strike, NoFault
<1> QED
  BY <1>1, <1>2, PTL DEF Spec

(* PostgreSQL and RQ stay in step: with one worker, under transient        *)
(* errors, lost acknowledgements, unexpected exceptions, worker crashes,   *)
(* replaced connections of workers and unlocks without effect, and while   *)
(* Redis has room, every open job has an RQ entry or the request that is   *)
(* about to make one, unless its submission has left its lock behind.      *)
THEOREM NothingIsForgotten ==
    ASSUME OneWorker, FaultKinds \subseteq Forgivable
    PROVE  Spec /\ []~QueueFull => []NothingForgotten
<1>1. Init => KeptInv
  BY DEF Init, ScanSteps, StoreInit, QueueInit, NoEntry, NoRow, KeptInv, OpenHasEntry, EnqueueSucceeds,
     WaitsIdle, KnowsRow
<1>2. TypeInv /\ OwnInv /\ BirthInv /\ EntryInv /\ KeptInv /\ ~QueueFull
          /\ exposed = {} /\ [Next]_vars => KeptInv'
  <2> SUFFICES ASSUME TypeInv, OwnInv, BirthInv, EntryInv, KeptInv, ~QueueFull, exposed = {},
                      [Next]_vars
               PROVE  KeptInv'
    OBVIOUS
  <2>1. CASE UNCHANGED vars
    BY <2>1 DEF vars, KeptInv, OpenHasEntry, EnqueueSucceeds, WaitsIdle, KnowsRow, Nonterminal,
       HasEntry, Live, WillRetry
  <2>2. CASE \E j \in Jobs : SubmitLock(j) \/ SubmitStep(j) \/ SubmitCrash(j)
    BY <2>2, SubmitKept
  <2>5. CASE \E j \in Jobs : CloseApiConnection(j)
    BY <2>5, ClosingFrame DEF KeptInv, OpenHasEntry, EnqueueSucceeds, WaitsIdle, KnowsRow,
       Nonterminal, HasEntry, Live, WillRetry
  <2>3. CASE \E w \in Workers : WorkerStep(w) \/ FaultStep(w) \/ Shutdown(w)
    BY <2>3, WorkerKept DEF EntryInv
  <2>4. CASE (\E r \in RqIds : Promote(r) \/ LoseEntry(r)) \/ CleanupPreviewJobs \/ TimePasses
    BY <2>4, EnvironmentKept
  <2> QED
    BY <2>1, <2>2, <2>3, <2>4, <2>5 DEF Next
<1>3. TypeInv /\ BirthInv /\ KeptInv => NothingForgotten
  BY DEF TypeInv, TypeOK, SubmitPcs, SubmitEnds, BirthInv, RowsAreBorn, Unborn, KeptInv, OpenHasEntry,
     NothingForgotten, Nonterminal, Exists, Submitting, SubmitEnds
<1>4. "limbo" \notin FaultKinds /\ "api_close" \notin FaultKinds
  BY DEF Forgivable
<1> QED
  BY <1>1, <1>2, <1>3, <1>4, NoneExposed, TypeInvariant, Ownership, Births, ScansAreTrue, PTL DEF Spec

(* A job has one entry, so more entries than jobs cannot be live at once.  *)
LEMMA RoomSuffices ==
    ASSUME TypeInv, OwnInv, NoDuplicateEntry, exposed = {}, Cardinality(RqIds) > Cardinality(Jobs)
    PROVE  ~QueueFull
<1> SUFFICES ASSUME QueueFull PROVE FALSE
  OBVIOUS
<1> DEFINE jobOf == [r \in RqIds |-> rq[r].job]
<1>1. jobOf \in [RqIds -> Jobs]
  BY DEF OwnInv, EntriesHaveJobs, QueueFull
<1>2. IsFiniteSet(RqIds) /\ IsFiniteSet(Jobs)
  BY QueueAssumption, StoreAssumption
<1>3. \E r, s \in RqIds : r # s /\ jobOf[r] = jobOf[s]
  <2> HIDE DEF jobOf
  <2> QED
    BY <1>1, <1>2, FS_CardinalityType, FS_PigeonHole
<1> QED
  BY <1>3 DEF NoDuplicateEntry, QueueFull

(* With a Redis that has room for one entry more than there are jobs, the  *)
(* enqueue of a recovered job is never refused, and no job is forgotten    *)
(* whatever the length of the queue, except one whose submission has left  *)
(* its lock behind: the worker that waits for it gives its entry up.       *)
THEOREM NothingForgottenWithRoom ==
    ASSUME OneWorker, FaultKinds \subseteq Forgivable, Cardinality(RqIds) > Cardinality(Jobs)
    PROVE  Spec => []NothingForgotten
<1>1. "limbo" \notin FaultKinds /\ "api_close" \notin FaultKinds
  BY DEF Forgivable
<1>2. TypeInv /\ OwnInv /\ NoDuplicateEntry /\ exposed = {} => ~QueueFull
  BY RoomSuffices
<1> QED
  BY <1>1, <1>2, NoneExposed, TypeInvariant, Ownership, OneEntryEach, NothingIsForgotten, PTL

=============================================================================
