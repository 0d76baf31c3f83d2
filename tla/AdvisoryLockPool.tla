-------------------------- MODULE AdvisoryLockPool --------------------------
(***************************************************************************)
(* The advisory lock of a submission and the connections that carry it.    *)
(*                                                                         *)
(* submit_preview_job (services/preview_job_service.py) runs in a thread   *)
(* of the API process, with a SQLAlchemy session of its own.  A session    *)
(* checks a connection out of the pool (db/session.py) with its first      *)
(* statement and gives it back at every commit and rollback, so the        *)
(* statements of one submission may use different connections.             *)
(* pg_try_advisory_lock locks for the PostgreSQL session, that is for the  *)
(* connection, and pg_advisory_unlock on another one does nothing.         *)
(*                                                                         *)
(* One action is one statement, commit or rollback of one thread.  Readers *)
(* are the other requests (GET /api/jobs/{id}): one query, then the        *)
(* session is closed.  Every submission locks a job of its own, so its     *)
(* thread stands for the job as well.                                      *)
(***************************************************************************)
EXTENDS Naturals, FiniteSets, Sequences

CONSTANTS
    Submitters,  \* threads in submit_preview_job
    Readers,     \* threads in any other request
    Conns,       \* database_pool_size + database_max_overflow connections
    PoolSize,    \* settings.database_pool_size
    MayRecycle,  \* connections may reach database_pool_recycle_seconds
    None         \* no connection

Threads == Submitters \cup Readers

ASSUME PoolAssumption ==
    /\ IsFiniteSet(Conns)
    /\ Submitters \cap Readers = {}
    /\ PoolSize \in Nat \ {0}
    /\ MayRecycle \in BOOLEAN
    /\ None \notin Conns

VARIABLES
    pc,     \* where each thread is
    conn,   \* the connection each session has checked out
    idle,   \* the pool's stack, most recently returned first
    open,   \* the connections that exist
    held,   \* the locks each PostgreSQL session holds
    dropped \* the locks that went with a connection the pool closed

vars == <<pc, conn, idle, open, held, dropped>>

Section == {"create", "refresh", "enqueue", "failed", "rollback", "unlock"}

Init ==
    /\ pc = [t \in Threads |-> IF t \in Submitters THEN "lock" ELSE "read"]
    /\ conn = [t \in Threads |-> None]
    /\ idle = << >>
    /\ open = {}
    /\ held = [c \in Conns |-> {}]
    /\ dropped = {}

Goto(t, next) == pc' = [pc EXCEPT ![t] = next]

-----------------------------------------------------------------------------
(* The pool. *)

(* A statement of t runs on connection c, with c's locks then being locks: *)
(* the one the session has, else the top of the stack (pool_use_lifo),     *)
(* replaced by a new PostgreSQL session if it is too old, else a new one.  *)
StatementOn(t, c, locks) ==
  /\ dropped' = dropped \cup (held[c] \ locks)
  /\ \/ /\ conn[t] = c /\ locks = held[c]
        /\ UNCHANGED <<conn, idle, open>>
     \/ /\ conn[t] = None /\ idle # << >> /\ c = Head(idle)
        /\ locks = held[c] \/ (MayRecycle /\ locks = {})
        /\ idle' = Tail(idle)
        /\ conn' = [conn EXCEPT ![t] = c]
        /\ UNCHANGED open
     \/ /\ conn[t] = None /\ idle = << >> /\ c \notin open
        /\ locks = {}
        /\ open' = open \cup {c}
        /\ conn' = [conn EXCEPT ![t] = c]
        /\ UNCHANGED idle

Query(t) == \E c \in Conns, locks \in SUBSET Submitters :
                /\ StatementOn(t, c, locks)
                /\ held' = [held EXCEPT ![c] = locks]

(* A commit, a rollback or the end of the session: the connection goes     *)
(* back to the pool, or is closed if the pool is full.                     *)
GiveBack(t) ==
    /\ conn' = [conn EXCEPT ![t] = None]
    /\ IF conn[t] = None THEN UNCHANGED <<idle, open, held, dropped>>
       ELSE IF Len(idle) < PoolSize
       THEN idle' = <<conn[t]>> \o idle /\ UNCHANGED <<open, held, dropped>>
       ELSE /\ open' = open \ {conn[t]}
            /\ held' = [held EXCEPT ![conn[t]] = {}]
            /\ dropped' = dropped \cup held[conn[t]]
            /\ UNCHANGED idle

-----------------------------------------------------------------------------
(* submit_preview_job. *)

AcquireLock(t) ==
    /\ pc[t] = "lock"
    /\ \E c \in Conns, locks \in SUBSET Submitters :
          /\ StatementOn(t, c, locks)
          /\ held' = [held EXCEPT ![c] = locks \cup {t}]
    /\ Goto(t, "create")

(* Mutant: pg_try_advisory_xact_lock, which ends with the transaction. *)
CommitCreateEndingLock(t) ==
    /\ pc[t] = "create"
    /\ conn' = [conn EXCEPT ![t] = None]
    /\ idle' = <<conn[t]>> \o idle
    /\ held' = [held EXCEPT ![conn[t]] = @ \ {t}]
    /\ Goto(t, "refresh")
    /\ UNCHANGED <<open, dropped>>

(* create_job: INSERT and commit on the connection that took the lock ...  *)
CommitCreate(t) ==
    /\ pc[t] = "create"
    /\ GiveBack(t)
    /\ Goto(t, "refresh")

(* ... then session.refresh(job), which opens a transaction again.         *)
RefreshJob(t) ==
    /\ pc[t] = "refresh"
    /\ Query(t)
    /\ Goto(t, "enqueue")

(* Redis answers, or enqueueing raises and fail_job has a row to write. *)
Enqueue(t) ==
    /\ pc[t] = "enqueue"
    /\ Goto(t, "rollback") \/ Goto(t, "failed")
    /\ UNCHANGED <<conn, idle, open, held, dropped>>

(* fail_job: UPDATE on the connection of the refresh, and commit.          *)
CommitFailed(t) ==
    /\ pc[t] = "failed"
    /\ GiveBack(t)
    /\ Goto(t, "rollback")

(* The finally block. *)
Rollback(t) ==
    /\ pc[t] = "rollback"
    /\ GiveBack(t)
    /\ Goto(t, "unlock")

ReleaseLock(t) ==
    /\ pc[t] = "unlock"
    /\ \E c \in Conns, locks \in SUBSET Submitters :
          /\ StatementOn(t, c, locks)
          /\ held' = [held EXCEPT ![c] = locks \ {t}]
    /\ Goto(t, "close")

(* Another request: one query. *)
Read(t) ==
    /\ pc[t] = "read"
    /\ Query(t)
    /\ Goto(t, "close")

(* Mutant: the session is never closed. *)
LeaveSessionOpen(t) ==
    /\ pc[t] = "close"
    /\ Goto(t, "done")
    /\ UNCHANGED <<conn, idle, open, held, dropped>>

(* get_db_session leaves its with block. *)
CloseSession(t) ==
    /\ pc[t] = "close"
    /\ GiveBack(t)
    /\ Goto(t, "done")

(* pool_timeout: no connection within database_pool_timeout_seconds.  The  *)
(* statement raises; in the finally block session.invalidate() then has no *)
(* connection to close.                                                    *)
PoolTimeout(t) ==
    /\ conn[t] = None /\ idle = << >> /\ open = Conns
    /\ \/ pc[t] \in {"lock", "read", "unlock"} /\ Goto(t, "close")
       \/ pc[t] = "refresh" /\ Goto(t, "rollback")
    /\ UNCHANGED <<conn, idle, open, held, dropped>>

-----------------------------------------------------------------------------
Step(t) ==
    \/ AcquireLock(t) \/ CommitCreate(t) \/ RefreshJob(t) \/ Enqueue(t)
    \/ CommitFailed(t) \/ Rollback(t) \/ ReleaseLock(t)
    \/ Read(t) \/ CloseSession(t)

Next == \E t \in Threads : Step(t) \/ PoolTimeout(t)

Spec == Init /\ [][Next]_vars

(* A thread keeps running.  The timeout is no one's duty: a connection     *)
(* that comes back in time serves the waiting thread.                      *)
FairSpec == Spec /\ \A t \in Threads : WF_vars(Step(t))

-----------------------------------------------------------------------------
LockedSomewhere(t) == \E c \in Conns : t \in held[c]

(* Although a submission changes connections, its lock is held until its   *)
(* finally block unless the pool closes the connection that carries it:    *)
(* only overflow and recycling let a worker or a reconciliation pass slip  *)
(* in between creating and enqueueing.                                     *)
LockCoversSubmission ==
    \A t \in Submitters : pc[t] \in Section => LockedSomewhere(t) \/ t \in dropped

(* More threads than connections: since a session never waits for a second *)
(* connection, every request ends, even if no wait ever times out.         *)
EveryRequestEnds == \A t \in Threads : <>(pc[t] = "done")

(* "Release a preview advisory lock acquired by this database session."    *)
(* (release_preview_job_lock): no lock outlives its submission.            *)
NoLockLeaks == \A t \in Submitters : pc[t] = "done" => ~LockedSomewhere(t)
=============================================================================
