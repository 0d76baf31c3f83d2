--------------------------- MODULE PreviewPipeline ---------------------------
(***************************************************************************)
(* The asynchronous preview pipeline: API requests that submit jobs        *)
(* (services/preview_job_service.py), RQ workers that execute them         *)
(* (workers/preview_worker.py, run_preview_job), the reconciliation pass   *)
(* every worker makes when it starts (services/preview_reconciliation.py)  *)
(* and the cron job that deletes expired rows, over one table, one queue   *)
(* and one advisory lock for each job.                                     *)
(*                                                                         *)
(* One action is one database transaction, one Redis command or one move   *)
(* of RQ; between any two of them every other process may run.  What can   *)
(* go wrong in the environment is a fault: its kind must be in FaultKinds  *)
(* and a behaviour has at most MaxFaults of them.                          *)
(***************************************************************************)
EXTENDS PreviewQueue, Sequences

CONSTANTS
    BatchSize,  \* settings.preview_job_reconciliation_batch_size
    FaultKinds, \* the kinds of fault a behaviour may contain
    MaxFaults   \* bound on their number

(* transient   a database error in TRANSIENT_DATABASE_ERRORS, or a provider *)
(*             timeout, before anything is committed                       *)
(* ambiguous   the transaction is committed but its acknowledgement lost   *)
(* create_ack  ... and it is the one that creates the row                  *)
(* persist     the write of a failure handler itself fails                 *)
(* unexpected  any other exception before the claim (missing credentials)  *)
(* redis       enqueueing raises, whether or not Redis applied it          *)
(* redis_loss  Redis restarts without the last second of its append-only   *)
(*             file (appendfsync everysec): a queued entry is gone         *)
(* slow        a lock is held for longer than preview_job_lock_wait_seconds *)
(* recycle     a worker's pool replaces the connection that carries a lock *)
(* api_close   the API's pool closes, by overflow or by pool_recycle, the  *)
(*             connection that carries the lock of a submission under way  *)
(* leak        another request has the connection that carries the lock    *)
(*             when a submission unlocks: the unlock has no effect         *)
(* kill        the work horse dies, its parent survives                    *)
(* crash       a whole worker process dies                                 *)
(* limbo       ... while the entry it dequeues is in the intermediate list *)
(* api_crash   an API process dies inside submit_preview_job               *)
AllFaultKinds == {"transient", "ambiguous", "create_ack", "persist",
                  "unexpected", "redis", "redis_loss", "slow", "recycle",
                  "api_close", "leak", "kill", "crash", "limbo", "api_crash"}

ASSUME PipelineAssumption ==
    /\ BatchSize \in Nat \ {0}
    /\ FaultKinds \subseteq AllFaultKinds
    /\ MaxFaults \in Nat

VARIABLES
    sub,        \* where the request that submits each job is
    pc,         \* where each worker is
    cur,        \* the RQ entry each worker owns
    job,        \* the preview job each worker works on
    rec,        \* the local variables of each worker's reconciliation pass
    faults,     \* how many faults have happened
    exposed     \* history: the jobs whose submission lost its lock on the way

workerVars == <<pc, cur, job, rec>>
vars == <<jobs, lock, now, rq, sub, pc, cur, job, rec, faults, exposed>>

(* A submission is over, with its lock released or, "leaked", left behind. *)
SubmitEnds == {"done", "leaked"}
SubmitPcs  == {"idle", "locked", "created", "enqueue_error", "release"} \cup SubmitEnds

(* While it executes a job a worker's pc is the stage it has last written. *)
UnderLockPcs == {"locked", "unexpected", "release_ok", "release_raise"} \cup RunStages
RecUnderLock == {"rec_refresh", "rec_decide", "rec_enqueue", "rec_release",
                 "rec_failed"}
RecPcs       == {"rec_list", "rec_examine"} \cup RecUnderLock \cup ScanSteps
RqPcs        == {"fetched", "waiting", "unlocked_error", "succeed", "callback",
                 "requeue"}
WorkerPcs    == {"down", "idle"} \cup RqPcs \cup UnderLockPcs \cup RecPcs

RecState == [at     : Nat,          \* current_time
             active : SUBSET (Jobs \cup {None}),  \* active_ids
             count  : Nat,          \* how many identifiers the scan has read
             todo   : Seq(Jobs),    \* the candidates not examined yet
             snap   : BOOLEAN,      \* they are as listed, not yet expired
             worth  : SUBSET Jobs,  \* those the listed rows do not rule out
             row    : Row]          \* the candidate as last refreshed
NoRec == [at |-> 0, active |-> {}, count |-> 0, todo |-> << >>,
          snap |-> FALSE, worth |-> {}, row |-> NoRow]

TypeOK ==
    /\ StoreTypeOK
    /\ QueueTypeOK
    /\ sub \in [Jobs -> SubmitPcs]
    /\ pc \in [Workers -> WorkerPcs]
    /\ cur \in [Workers -> RqIds \cup {None}]
    /\ job \in [Workers -> Jobs \cup {None}]
    /\ rec \in [Workers -> RecState]
    /\ faults \in 0..MaxFaults
    /\ exposed \in SUBSET Jobs

Init ==
    /\ StoreInit
    /\ QueueInit
    /\ sub = [j \in Jobs |-> "idle"]
    /\ pc = [w \in Workers |-> "down"]
    /\ cur = [w \in Workers |-> None]
    /\ job = [w \in Workers |-> None]
    /\ rec = [w \in Workers |-> NoRec]
    /\ faults = 0
    /\ exposed = {}

Strike(kind) == kind \in FaultKinds /\ faults < MaxFaults /\ faults' = faults + 1
Fault(kind)  == Strike(kind) /\ UNCHANGED exposed
NoFault      == UNCHANGED <<faults, exposed>>

Goto(w, next) == pc' = [pc EXCEPT ![w] = next]

-----------------------------------------------------------------------------
(* submit_preview_job: lock, create, enqueue, release. *)

SubmitTo(j, next) == sub' = [sub EXCEPT ![j] = next]

SubmitLock(j) ==
    /\ sub[j] = "idle"
    /\ try_acquire_preview_job_lock(j, Api)
    /\ SubmitTo(j, "locked")
    /\ NoFault /\ UNCHANGED <<jobs, now, rq, workerVars>>

SubmitCreate(j) ==
    /\ sub[j] = "locked"
    /\ \/ create_job(j) /\ SubmitTo(j, "created") /\ NoFault
       \/ create_job(j) /\ SubmitTo(j, "release") /\ Fault("create_ack")
       \/ UNCHANGED jobs /\ SubmitTo(j, "release") /\ Fault("transient")
    /\ UNCHANGED <<lock, now, rq, workerVars>>

SubmitEnqueue(j) ==
    /\ sub[j] = "created"
    /\ \/ enqueue(j, None) /\ SubmitTo(j, "release") /\ NoFault
       \/ enqueue(j, None) /\ SubmitTo(j, "enqueue_error") /\ Fault("redis")
       \/ UNCHANGED rq /\ SubmitTo(j, "enqueue_error") /\ Fault("redis")
       \/ QueueFull /\ UNCHANGED rq /\ SubmitTo(j, "enqueue_error") /\ NoFault
    /\ UNCHANGED <<jobs, lock, now, workerVars>>

SubmitFail(j) ==
    /\ sub[j] = "enqueue_error"
    /\ \/ Exists(j) /\ fail_job(j) /\ NoFault
       \/ ~Exists(j) /\ UNCHANGED jobs /\ NoFault
       \/ UNCHANGED jobs /\ Fault("transient")
    /\ SubmitTo(j, "release")
    /\ UNCHANGED <<lock, now, rq, workerVars>>

(* The finally block.  The unlock may run on another connection than the   *)
(* one that took the lock (AdvisoryLockPool), and then leaves it.          *)
SubmitRelease(j) ==
    /\ sub[j] = "release"
    /\ \/ /\ release_preview_job_lock(j, Api)
          /\ SubmitTo(j, "done") /\ NoFault
       \/ /\ lock[j] = Api /\ UNCHANGED lock
          /\ SubmitTo(j, "leaked") /\ Fault("leak")
    /\ UNCHANGED <<jobs, now, rq, workerVars>>

Submitting(j) == sub[j] \notin {"idle"} \cup SubmitEnds

(* The lock of a submission that is over is still held. *)
Leaked(j) == sub[j] = "leaked" /\ lock[j] = Api

SubmitCrash(j) ==
    /\ Submitting(j)
    /\ Fault("api_crash")
    /\ release_preview_job_lock(j, Api)
    /\ SubmitTo(j, "done")
    /\ UNCHANGED <<jobs, now, rq, workerVars>>

(* The commit of create_job gives the connection that took the lock back   *)
(* to the pool; when it is closed, the lock is gone, whether its           *)
(* submission is under way or has left it behind.                          *)
CloseApiConnection(j) ==
    /\ lock[j] = Api
    /\ \/ /\ sub[j] \in {"created", "enqueue_error", "release"}
          /\ Strike("api_close") /\ exposed' = exposed \cup {j}
       \/ Leaked(j) /\ NoFault
    /\ release_preview_job_lock(j, Api)
    /\ UNCHANGED <<jobs, now, rq, sub, workerVars>>

-----------------------------------------------------------------------------
(* RQ's worker loop: fetch an entry, adopt an abandoned one, record the    *)
(* outcome of an execution.                                                *)

Owned(r)     == \E w \in Workers : cur[w] = r
Listening(w) == pc[w] \notin {"down"} \cup RecPcs

Dequeue(w, r) ==
    /\ pc[w] = "idle" /\ rq[r].place = "queue"
    /\ RqMove(r, "intermediate")
    /\ cur' = [cur EXCEPT ![w] = r]
    /\ job' = [job EXCEPT ![w] = rq[r].job]
    /\ Goto(w, "fetched")
    /\ NoFault /\ UNCHANGED <<jobs, lock, now, sub, rec>>

StartExecution(w) ==
    /\ pc[w] = "fetched"
    /\ RqMove(cur[w], "started")
    /\ Goto(w, "waiting")
    /\ NoFault /\ UNCHANGED <<jobs, lock, now, sub, cur, job, rec>>

(* Registry maintenance: a started entry nobody works on any more goes     *)
(* through the failure callback; one stuck in the intermediate list does   *)
(* not.                                                                    *)
AdoptAbandoned(w, r) ==
    /\ pc[w] = "idle" /\ ~Owned(r)
    /\ \/ rq[r].place = "started" /\ Goto(w, "callback")
       \/ rq[r].place = "intermediate" /\ Goto(w, "requeue")
    /\ cur' = [cur EXCEPT ![w] = r]
    /\ job' = [job EXCEPT ![w] = rq[r].job]
    /\ NoFault /\ UNCHANGED <<jobs, lock, now, rq, sub, rec>>

BackToIdle(w) ==
    /\ Goto(w, "idle")
    /\ cur' = [cur EXCEPT ![w] = None]
    /\ job' = [job EXCEPT ![w] = None]

Succeed(w) ==
    /\ pc[w] = "succeed"
    /\ RqRemove(cur[w])
    /\ BackToIdle(w)
    /\ NoFault /\ UNCHANGED <<jobs, lock, now, sub, rec>>

Requeue(w) ==
    /\ pc[w] = "requeue"
    /\ RqHandleFailure(cur[w])
    /\ BackToIdle(w)
    /\ NoFault /\ UNCHANGED <<jobs, lock, now, sub, rec>>

(* RQ's scheduler, a child of a listening worker: the interval is over. *)
Promote(r) ==
    /\ rq[r].place = "scheduled"
    /\ \E w \in Workers : Listening(w)
    /\ RqMove(r, "queue")
    /\ NoFault /\ UNCHANGED <<jobs, lock, now, sub, workerVars>>

(* Redis comes back without an entry it had acknowledged. *)
LoseEntry(r) ==
    /\ rq[r].place = "queue"
    /\ Fault("redis_loss")
    /\ RqRemove(r)
    /\ UNCHANGED <<jobs, lock, now, sub, workerVars>>

-----------------------------------------------------------------------------
(* process_preview_job: wait for the lock, run, release. *)

AcquireLock(w) ==
    /\ pc[w] = "waiting"
    /\ try_acquire_preview_job_lock(job[w], w)
    /\ Goto(w, "locked")
    /\ NoFault /\ UNCHANGED <<jobs, now, rq, sub, cur, job, rec>>

(* The wait is over and the lock still held: the task returns, which RQ    *)
(* takes for success.  It is a fault unless the lock was left behind.      *)
LockTimeout(w) ==
    /\ pc[w] = "waiting" /\ lock[job[w]] # Free
    /\ Fault("slow") \/ (Leaked(job[w]) /\ NoFault)
    /\ Goto(w, "succeed")
    /\ UNCHANGED <<storeVars, rq, sub, cur, job, rec>>

(* The database is unavailable while the worker asks for the lock. *)
LockError(w) ==
    /\ pc[w] = "waiting"
    /\ Fault("transient")
    /\ Goto(w, "callback")
    /\ UNCHANGED <<storeVars, rq, sub, cur, job, rec>>

(* Where a committed write leads: on, or, if its acknowledgement is lost,  *)
(* to the handler of transient errors.                                     *)
Committed(w, next) ==
    \/ Goto(w, next) /\ NoFault
    \/ Goto(w, "release_raise") /\ Fault("ambiguous")

AllowRunningRetry(w) ==
    LET retries_left == rq[cur[w]].retries
    IN  retries_left # NoRetry /\ retries_left < MaxRetries

Claim(w) ==
    /\ pc[w] = "locked"
    /\ Claimable(job[w], AllowRunningRetry(w))
    /\ claim_job(job[w])
    /\ Committed(w, "parsing")
    /\ UNCHANGED <<lock, now, rq, sub, cur, job, rec>>

(* run_preview_job returns False: nothing to do. *)
Ineligible(w) ==
    /\ pc[w] = "locked"
    /\ ~Claimable(job[w], AllowRunningRetry(w))
    /\ Goto(w, "release_ok")
    /\ NoFault /\ UNCHANGED <<storeVars, rq, sub, cur, job, rec>>

NextStage(stage) == CASE stage = "parsing"      -> "validating"
                      [] stage = "validating"   -> "compiling"
                      [] stage = "compiling"    -> "loading_data"
                      [] stage = "loading_data" -> "backtesting"
                      [] stage = "backtesting"  -> "generating_results"

Progress(w) ==
    /\ pc[w] \in RunStages \ {"generating_results"}
    /\ Exists(job[w])
    /\ update_progress(job[w], NextStage(pc[w]))
    /\ Committed(w, NextStage(pc[w]))
    /\ UNCHANGED <<lock, now, rq, sub, cur, job, rec>>

Complete(w) ==
    /\ pc[w] = "generating_results"
    /\ Exists(job[w])
    /\ complete_job(job[w])
    /\ Committed(w, "release_ok")
    /\ UNCHANGED <<lock, now, rq, sub, cur, job, rec>>

(* A rejected strategy, missing market data, a parser error, the RQ        *)
(* timeout or any other exception that is not transient: persist_failure.  *)
Reject(w) ==
    /\ pc[w] \in RunStages
    /\ Exists(job[w])
    /\ fail_job(job[w])
    /\ Committed(w, "release_ok")
    /\ UNCHANGED <<lock, now, rq, sub, cur, job, rec>>

(* A write to a row that is deleted by now raises StaleDataError, and so   *)
(* does the attempt to persist that failure.                               *)
RowVanished(w) ==
    /\ pc[w] \in RunStages
    /\ ~Exists(job[w])
    /\ Goto(w, "unexpected")
    /\ NoFault /\ UNCHANGED <<storeVars, rq, sub, cur, job, rec>>

TransientError(w) ==
    /\ pc[w] \in {"locked", "unexpected"} \cup RunStages
    /\ Fault("transient")
    /\ Goto(w, "release_raise")
    /\ UNCHANGED <<storeVars, rq, sub, cur, job, rec>>

UnexpectedError(w) ==
    /\ \/ pc[w] = "locked" /\ Goto(w, "unexpected")
       \/ pc[w] = "waiting" /\ Goto(w, "unlocked_error")
    /\ Fault("unexpected")
    /\ UNCHANGED <<storeVars, rq, sub, cur, job, rec>>

(* The handler of last resort: a final, guarded transition, with the lock  *)
(* only if it had been acquired; the task returns normally whether or not  *)
(* the write succeeds.                                                     *)
PersistUnexpected(w) ==
    /\ \/ pc[w] = "unexpected" /\ Goto(w, "release_ok")
       \/ pc[w] = "unlocked_error" /\ Goto(w, "succeed")
    /\ \/ transition_job_after_operational_failure(job[w], FALSE) /\ NoFault
       \/ UNCHANGED jobs /\ Fault("persist")
    /\ UNCHANGED <<lock, now, rq, sub, cur, job, rec>>

(* Mutant: the lock is not released when the task raises. *)
ReleaseOnSuccessOnly(w) ==
    /\ \/ pc[w] = "release_ok" /\ Goto(w, "succeed") /\ release_preview_job_lock(job[w], w)
       \/ pc[w] = "release_raise" /\ Goto(w, "callback") /\ UNCHANGED lock
    /\ NoFault /\ UNCHANGED <<jobs, now, rq, sub, cur, job, rec>>

(* The finally block; an error in it invalidates the session, which frees  *)
(* the lock as well.                                                       *)
Release(w) ==
    /\ \/ pc[w] = "release_ok" /\ Goto(w, "succeed")
       \/ pc[w] = "release_raise" /\ Goto(w, "callback")
    /\ release_preview_job_lock(job[w], w)
    /\ NoFault /\ UNCHANGED <<jobs, now, rq, sub, cur, job, rec>>

(* Mutant: the last execution is taken for one that will be retried. *)
FailureCallbackOffByOne(w) ==
    /\ pc[w] = "callback"
    /\ transition_job_after_operational_failure(job[w], rq[cur[w]].retries >= 0)
    /\ Goto(w, "requeue")
    /\ NoFault /\ UNCHANGED <<lock, now, rq, sub, cur, job, rec>>

(* handle_preview_job_failure, run by RQ without the lock and before it    *)
(* decrements retries_left; RQ goes on whether or not the callback raises. *)
FailureCallback(w) ==
    /\ pc[w] = "callback"
    /\ \/ transition_job_after_operational_failure(job[w], WillRetry(cur[w])) /\ NoFault
       \/ UNCHANGED jobs /\ Fault("persist")
    /\ Goto(w, "requeue")
    /\ UNCHANGED <<lock, now, rq, sub, cur, job, rec>>

-----------------------------------------------------------------------------
(* Death of processes and connections. *)

(* Closing a worker's connections frees every lock its sessions hold. *)
DropLocks(w) == lock' = [j \in Jobs |-> IF lock[j] = w THEN Free ELSE lock[j]]

(* The work horse dies: RQ's parent process handles the failure and does   *)
(* not run the failure callback.                                           *)
Kill(w) ==
    /\ pc[w] \in UnderLockPcs \cup {"waiting", "unlocked_error", "succeed", "callback"}
    /\ Fault("kill")
    /\ DropLocks(w)
    /\ Goto(w, "requeue")
    /\ UNCHANGED <<jobs, now, rq, sub, cur, job, rec>>

(* What a worker process leaves behind when it ends, in whatever way. *)
Exit(w) ==
    /\ DropLocks(w)
    /\ Goto(w, "down")
    /\ cur' = [cur EXCEPT ![w] = None]
    /\ job' = [job EXCEPT ![w] = None]
    /\ rec' = [rec EXCEPT ![w] = NoRec]

Crash(w) ==
    /\ pc[w] # "down"
    /\ IF pc[w] = "fetched" THEN Fault("limbo") ELSE Fault("crash")
    /\ Exit(w)
    /\ UNCHANGED <<jobs, now, rq, sub>>

(* A graceful stop between two jobs: worker.work returns. *)
Shutdown(w) ==
    /\ pc[w] = "idle"
    /\ Exit(w)
    /\ NoFault /\ UNCHANGED <<jobs, now, rq, sub>>

(* A worker's session returns its connection to the pool at every commit;  *)
(* if the connection has reached pool_recycle at the next checkout, the    *)
(* pool closes it, and the session-level lock is gone.  Nobody else uses   *)
(* the pool of a work horse, so it does not overflow and the unlock finds  *)
(* the connection that has the lock.                                       *)
RecycleConnection(w) ==
    /\ pc[w] \in UnderLockPcs \cup RecUnderLock \cup ScanSteps
    /\ job[w] # None
    /\ lock[job[w]] = w
    /\ Fault("recycle")
    /\ DropLocks(w)
    /\ UNCHANGED <<jobs, now, rq, sub, workerVars>>

-----------------------------------------------------------------------------
(* reconcile_preview_jobs, at the start of every worker. *)

RecSet(w, r) == rec' = [rec EXCEPT ![w] = r]

StartWorker(w) ==
    /\ pc[w] = "down"
    /\ RecSet(w, [NoRec EXCEPT !.at = now])
    /\ Goto(w, "scan_queue")
    /\ NoFault /\ UNCHANGED <<storeVars, rq, sub, cur, job>>

AfterScan(w) == CASE pc[w] = "scan_queue"     -> "scan_started"
                  [] pc[w] = "scan_started"   -> "scan_scheduled"
                  [] pc[w] = "scan_scheduled" ->
                        IF job[w] = None THEN "rec_list" ELSE "rec_decide"

ScanRegistry(w) ==
    /\ pc[w] \in ScanSteps
    /\ ~TooMany(pc[w], rec[w].count)
    /\ RecSet(w, [rec[w] EXCEPT !.active = @ \cup JobsAt(pc[w]),
                                !.count = IF pc[w] = "scan_scheduled" THEN 0
                                          ELSE Collected(pc[w], @)])
    /\ Goto(w, AfterScan(w))
    /\ NoFault /\ UNCHANGED <<storeVars, rq, sub, cur, job>>

(* Neither running and fresh, nor hopeless: worth taking the lock for. *)
WorthLocking(at, row) ==
    ~ (/\ row.status = "running" /\ ~is_stale(at, row)
       /\ ~Exhausted(row) /\ ~Expired(at, row))

ListCandidates(w) ==
    /\ pc[w] = "rec_list"
    /\ \E q \in list_reconciliation_candidates(BatchSize) :
          RecSet(w, [rec[w] EXCEPT !.todo = q, !.snap = TRUE,
                        !.worth = {j \in Jobs : /\ Nonterminal(j)
                                                /\ WorthLocking(rec[w].at, jobs[j])}])
    /\ Goto(w, "rec_examine")
    /\ NoFault /\ UNCHANGED <<storeVars, rq, sub, cur, job>>

Candidate(w) == Head(rec[w].todo)

(* Until the first rollback the listed objects are used as they were read; *)
(* a rollback expires them all and each is read again when it is examined. *)
Gone(w) == ~rec[w].snap /\ ~Exists(Candidate(w))

Skippable(w) ==
    LET j == Candidate(w)
    IN  \/ j \in rec[w].active
        \/ IF rec[w].snap THEN j \notin rec[w].worth
                          ELSE ~WorthLocking(rec[w].at, jobs[j])
        \/ lock[j] # Free

SkipCandidate(w) ==
    /\ pc[w] = "rec_examine" /\ rec[w].todo # << >>
    /\ ~Gone(w) /\ Skippable(w)
    /\ RecSet(w, [rec[w] EXCEPT !.todo = Tail(@)])
    /\ NoFault /\ UNCHANGED <<storeVars, rq, sub, pc, cur, job>>

LockCandidate(w) ==
    /\ pc[w] = "rec_examine" /\ rec[w].todo # << >>
    /\ ~Gone(w) /\ ~Skippable(w)
    /\ try_acquire_preview_job_lock(Candidate(w), w)
    /\ job' = [job EXCEPT ![w] = Candidate(w)]
    /\ Goto(w, "rec_refresh")
    /\ NoFault /\ UNCHANGED <<jobs, now, rq, sub, cur, rec>>

(* Mutant: the registries are not scanned again under the lock. *)
RefreshWithoutRescan(w) ==
    /\ pc[w] = "rec_refresh" /\ Exists(job[w])
    /\ IF Terminal(job[w])
       THEN Goto(w, "rec_release") /\ UNCHANGED rec
       ELSE /\ Goto(w, "rec_decide")
            /\ RecSet(w, [rec[w] EXCEPT !.row = jobs[job[w]]])
    /\ NoFault /\ UNCHANGED <<storeVars, rq, sub, cur, job>>

(* Under the lock: refresh the row, leave terminal ones, scan again. *)
RefreshCandidate(w) ==
    /\ pc[w] = "rec_refresh" /\ Exists(job[w])
    /\ IF Terminal(job[w])
       THEN Goto(w, "rec_release") /\ UNCHANGED rec
       ELSE /\ Goto(w, "scan_queue")
            /\ RecSet(w, [rec[w] EXCEPT !.row = jobs[job[w]], !.active = {}])
    /\ NoFault /\ UNCHANGED <<storeVars, rq, sub, cur, job>>

(* The decision rests on the row as refreshed before the second scan. *)
Hopeless(w) == Exhausted(rec[w].row) \/ Expired(rec[w].at, rec[w].row)

LeaveCandidate(w) ==
    /\ pc[w] = "rec_decide"
    /\ \/ job[w] \in rec[w].active
       \/ /\ ~Hopeless(w)
          /\ rec[w].row.status = "running" /\ ~is_stale(rec[w].at, rec[w].row)
    /\ Goto(w, "rec_release")
    /\ NoFault /\ UNCHANGED <<storeVars, rq, sub, cur, job, rec>>

FailCandidate(w) ==
    /\ pc[w] = "rec_decide"
    /\ job[w] \notin rec[w].active /\ Hopeless(w)
    /\ transition_job_after_operational_failure(job[w], FALSE)
    /\ Goto(w, "rec_failed")
    /\ NoFault /\ UNCHANGED <<lock, now, rq, sub, cur, job, rec>>

(* A stale running row goes back to queued and is read again. *)
RecoverCandidate(w) ==
    /\ pc[w] = "rec_decide"
    /\ job[w] \notin rec[w].active /\ ~Hopeless(w)
    /\ \/ rec[w].row.status = "queued" /\ UNCHANGED <<jobs, rec>>
       \/ /\ rec[w].row.status = "running" /\ is_stale(rec[w].at, rec[w].row)
          /\ Exists(job[w])
          /\ transition_job_after_operational_failure(job[w], TRUE)
          /\ RecSet(w, [rec[w] EXCEPT !.row = jobs'[job[w]]])
    /\ Goto(w, "rec_enqueue")
    /\ NoFault /\ UNCHANGED <<lock, now, rq, sub, cur, job>>

EnqueueCandidate(w) ==
    /\ pc[w] = "rec_enqueue"
    /\ enqueue(job[w], MaxRetries - rec[w].row.attempts)
    /\ RecSet(w, [rec[w] EXCEPT !.active = @ \cup {job[w]}])
    /\ Goto(w, "rec_release")
    /\ NoFault /\ UNCHANGED <<storeVars, sub, cur, job>>

(* The finally block rolls back, which expires every loaded object, and    *)
(* reads the job's identifier again to unlock it.  After the commit of a   *)
(* failed candidate there is no transaction to roll back: nothing expires. *)
ReleaseCandidate(w) ==
    /\ \/ /\ pc[w] = "rec_release" /\ Exists(job[w])
          /\ RecSet(w, [rec[w] EXCEPT !.todo = Tail(@), !.snap = FALSE,
                                      !.worth = {}, !.row = NoRow])
       \/ /\ pc[w] = "rec_failed"
          /\ RecSet(w, [rec[w] EXCEPT !.todo = Tail(@), !.row = NoRow])
    /\ release_preview_job_lock(job[w], w)
    /\ job' = [job EXCEPT ![w] = None]
    /\ Goto(w, "rec_examine")
    /\ NoFault /\ UNCHANGED <<jobs, now, rq, sub, cur>>

FinishReconciliation(w) ==
    /\ pc[w] = "rec_examine" /\ rec[w].todo = << >>
    /\ RecSet(w, NoRec)
    /\ Goto(w, "idle")
    /\ NoFault /\ UNCHANGED <<storeVars, rq, sub, cur, job>>

(* Any exception ends the pass and the process: more entries than the scan *)
(* limit, a candidate whose row was deleted, or a full queue.              *)
AbortReconciliation(w) ==
    /\ \/ pc[w] \in ScanSteps /\ TooMany(pc[w], rec[w].count)
       \/ pc[w] = "rec_examine" /\ rec[w].todo # << >> /\ Gone(w)
       \/ pc[w] \in {"rec_refresh", "rec_release"} /\ ~Exists(job[w])
       \/ pc[w] = "rec_enqueue" /\ QueueFull
       \/ /\ pc[w] = "rec_decide" /\ job[w] \notin rec[w].active /\ ~Hopeless(w)
          /\ rec[w].row.status = "running" /\ ~Exists(job[w])
    /\ Exit(w)
    /\ NoFault /\ UNCHANGED <<jobs, now, rq, sub>>

(* ... or an error of PostgreSQL or Redis; enqueueing may have been        *)
(* applied all the same.                                                   *)
ReconciliationError(w) ==
    /\ \/ pc[w] \in RecPcs /\ UNCHANGED rq /\ Fault("transient")
       \/ /\ pc[w] = "rec_enqueue" /\ Fault("redis")
          /\ enqueue(job[w], MaxRetries - rec[w].row.attempts)
    /\ Exit(w)
    /\ UNCHANGED <<jobs, now, sub>>

-----------------------------------------------------------------------------
(* The cleanup cron job and the clock. *)

CleanupPreviewJobs ==
    /\ delete_expired_jobs
    /\ NoFault /\ UNCHANGED <<lock, now, rq, sub, workerVars>>

TimePasses ==
    /\ Tick
    /\ NoFault /\ UNCHANGED <<jobs, lock, rq, sub, workerVars>>

-----------------------------------------------------------------------------
(* A request's own steps, and those of a worker, apart from faults. *)
SubmitStep(j) ==
    SubmitCreate(j) \/ SubmitEnqueue(j) \/ SubmitFail(j) \/ SubmitRelease(j)

RqStep(w) ==
    \/ \E r \in RqIds : Dequeue(w, r) \/ AdoptAbandoned(w, r)
    \/ StartExecution(w) \/ Succeed(w) \/ Requeue(w)

ExecutionStep(w) ==
    \/ AcquireLock(w) \/ Claim(w) \/ Ineligible(w) \/ Progress(w) \/ Complete(w)
    \/ Reject(w) \/ RowVanished(w) \/ PersistUnexpected(w) \/ Release(w)
    \/ FailureCallback(w)

ReconciliationStep(w) ==
    \/ StartWorker(w) \/ ScanRegistry(w) \/ ListCandidates(w) \/ SkipCandidate(w)
    \/ LockCandidate(w) \/ RefreshCandidate(w) \/ LeaveCandidate(w)
    \/ FailCandidate(w) \/ RecoverCandidate(w) \/ EnqueueCandidate(w)
    \/ ReleaseCandidate(w) \/ FinishReconciliation(w) \/ AbortReconciliation(w)

(* What goes wrong around a worker. *)
FaultStep(w) ==
    \/ LockTimeout(w) \/ LockError(w) \/ TransientError(w) \/ UnexpectedError(w)
    \/ Kill(w) \/ Crash(w) \/ RecycleConnection(w) \/ ReconciliationError(w)

WorkerStep(w) == RqStep(w) \/ ExecutionStep(w) \/ ReconciliationStep(w)

Next ==
    \/ \E j \in Jobs : SubmitLock(j) \/ SubmitStep(j) \/ SubmitCrash(j)
    \/ \E j \in Jobs : CloseApiConnection(j)
    \/ \E w \in Workers : WorkerStep(w) \/ FaultStep(w) \/ Shutdown(w)
    \/ \E r \in RqIds : Promote(r) \/ LoseEntry(r)
    \/ CleanupPreviewJobs
    \/ TimePasses

Spec == Init /\ [][Next]_vars

(* A request that has begun runs on, a worker process keeps taking steps   *)
(* and is started again when it has ended, and the scheduler promotes      *)
(* retries whose interval is over.  A worker that is restarted again and   *)
(* again is not stopped every time before it looks at the queue or its     *)
(* scheduler runs, hence the strong fairness.  A wait for a lock that was  *)
(* left behind ends by itself.  Nothing makes a user submit, a worker      *)
(* stop, a clock tick, a connection close or a fault happen.               *)
Fairness ==
    /\ \A j \in Jobs : WF_vars(SubmitStep(j))
    /\ \A w \in Workers : /\ WF_vars(WorkerStep(w)) /\ SF_vars(RqStep(w))
                           /\ WF_vars(NoFault /\ LockTimeout(w))
    /\ \A r \in RqIds : SF_vars(Promote(r))

FairSpec == Spec /\ Fairness

-----------------------------------------------------------------------------
(* Properties. *)

Executing(w) == pc[w] \in RunStages

(* The critical section of a job: what runs between taking its advisory    *)
(* lock and releasing it.                                                  *)
InSection(w, j) ==
    /\ job[w] = j
    /\ pc[w] \in UnderLockPcs \cup RecUnderLock \cup ScanSteps

(* The per-job advisory lock keeps executions, reconciliation and          *)
(* submission of one preview job apart: no two workers are in the job's    *)
(* critical section, and none is while the request that submits it is,     *)
(* except for a job whose submission has lost its lock.                    *)
MutualExclusion ==
    \A j \in Jobs : \A w \in Workers : InSection(w, j) =>
        /\ ~Submitting(j) \/ j \in exposed
        /\ \A v \in Workers \ {w} : ~InSection(v, j)

(* "per-job PostgreSQL advisory locks prevent concurrent execution": no    *)
(* two workers execute the same preview job at the same time.              *)
NoConcurrentExecution ==
    \A w, v \in Workers : Executing(w) /\ Executing(v) /\ job[w] = job[v] => w = v

(* reconcile_preview_jobs "without duplicating active RQ jobs": a preview  *)
(* job is never represented by two live RQ entries, except one whose       *)
(* submission has lost its lock: a pass enqueues it beside the request.    *)
NoDuplicateEntry ==
    \A r, s \in RqIds : Live(r) /\ Live(s) /\ rq[r].job = rq[s].job =>
        r = s \/ rq[r].job \in exposed

(* Every execution RQ may still start for a job, added to the attempts     *)
(* already claimed, stays within max_retries + 1, through retries, crashes *)
(* and re-enqueueing by reconciliation; so attempt_count does too.  A job  *)
(* whose submission has lost its lock may have a second entry, which comes *)
(* with retries of its own.                                                *)
ExecutionsLeft(r) ==
    (IF rq[r].retries > 0 THEN rq[r].retries ELSE 0)
        + (IF rq[r].place \in {"queue", "scheduled", "intermediate"} THEN 1 ELSE 0)

AttemptBudget ==
    /\ \A j \in Jobs \ exposed : jobs[j].attempts <= MaxRetries + 1
    /\ \A r \in RqIds : Live(r) /\ Nonterminal(rq[r].job) /\ rq[r].job \notin exposed =>
            jobs[rq[r].job].attempts + ExecutionsLeft(r) <= MaxRetries + 1

(* The columns of a row tell one story: a result exactly in a completed    *)
(* row, an error exactly in a failed one, a start time exactly while it is *)
(* running or after, and the stage of a queued or terminal row is its      *)
(* status.  The request that lost its lock writes its failure by primary   *)
(* key only, over whatever the row is by then.                             *)
RowCoherent ==
    \A j \in Jobs \ exposed : Exists(j) =>
        LET row == jobs[j]
        IN  /\ row.result <=> row.status = "completed"
            /\ row.error <=> row.status = "failed"
            /\ row.finished <=> Terminal(j)
            /\ row.status = "queued" => row.started = None
            /\ row.status = "running" => row.started # None
            /\ IF row.status = "running" THEN row.stage \in RunStages
                                         ELSE row.stage = row.status

(* A terminal job is never revived: a completed or failed row keeps its    *)
(* status until the cleanup job deletes it, again unless its submission    *)
(* has lost its lock and writes beside the worker.                         *)
TerminalIsFinal ==
    [][\A j \in Jobs \ exposed : Terminal(j) =>
            jobs'[j].status \in {jobs[j].status, "absent"}]_vars

(* A nonterminal job that nothing will execute any more, and that a pass   *)
(* starting now would not leave alone as freshly started.                  *)
Stranded(j) ==
    /\ Nonterminal(j) /\ ~HasEntry(j) /\ ~Submitting(j)
    /\ WorthLocking(now, jobs[j])

(* PostgreSQL and RQ stay in step: while every worker is past its          *)
(* reconciliation pass, a nonterminal row has an RQ entry or the request   *)
(* that submits it, so that no execution is forgotten.  Holds under        *)
(* transient errors, lost acknowledgements, worker crashes and lost locks, *)
(* except for a job whose submission has left its lock behind: the worker  *)
(* that waits for that lock gives its entry up.                            *)
NothingForgotten ==
    \A j \in Jobs : Nonterminal(j) =>
        \/ HasEntry(j)
        \/ Submitting(j)
        \/ sub[j] = "leaked"
        \/ \E w \in Workers : pc[w] \in {"down"} \cup RecPcs

(* Every submitted preview is answered: a queued or running job eventually *)
(* completes, fails or expires, under the same faults and with the same    *)
(* exception: the one thing that leaves it open for ever is a lock its     *)
(* submission has left behind.                                             *)
JobSettles ==
    \A j \in Jobs : Nonterminal(j) ~> ~Nonterminal(j) \/ sub[j] = "leaked"

(* Startup reconciliation recovers whatever a fault has stranded, however  *)
(* many other jobs its batches list before it: if workers are restarted    *)
(* again and again and Redis has room again and again, no job stays        *)
(* stranded for ever, unless the API still holds the lock of its           *)
(* submission, which makes every pass skip it; once the connection with    *)
(* that lock is closed, the job is recovered as well.                      *)
StrandedIsRecovered ==
    []<>(\E w \in Workers : pc[w] = "down") /\ []<>~QueueFull
        => \A j \in Jobs : Stranded(j) /\ ~Leaked(j) ~> ~Stranded(j)

(* While every worker runs (no faults) or keeps being restarted, startup   *)
(* ends: a worker that is down eventually listens, provided that the queue *)
(* stays within the scan limit.                                            *)
StartupCompletes == \A w \in Workers : pc[w] = "down" ~> pc[w] = "idle"

(* What a polling client sees of the table is what PreviewLifecycle        *)
(* promises; for a job whose submission has lost its lock the promise      *)
(* ends, as if it were deleted then.                                       *)
Shown(j) ==
    IF j \in exposed THEN [status |-> "absent", stage |-> "queued", attempts |-> 0]
    ELSE [status |-> jobs[j].status, stage |-> jobs[j].stage, attempts |-> jobs[j].attempts]

Lifecycle == INSTANCE PreviewLifecycle WITH
    view <- [j \in Jobs |-> Shown(j)],
    born <- {j \in Jobs : sub[j] \notin {"idle", "locked"}}

ImplementsLifecycle == Lifecycle!LifeSpec
=============================================================================
