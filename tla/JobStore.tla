------------------------------ MODULE JobStore ------------------------------
(***************************************************************************)
(* The durable state of preview jobs: the table preview_jobs and the       *)
(* PostgreSQL advisory lock of each job, as services/job_store.py uses     *)
(* them.  Every operator below is one committed database transaction, so   *)
(* it is an atomic action on `jobs' or on `lock'.                          *)
(*                                                                         *)
(* Text columns are reduced to what the properties tell apart: whether a   *)
(* result and an error message are present.  `progress' is written         *)
(* together with `stage' everywhere and is a function of it, so it is left *)
(* out.  `expires' stands for created_at as well (they differ by the       *)
(* constant ttl).                                                          *)
(***************************************************************************)
EXTENDS Integers, FiniteSets

CONSTANTS
    Jobs,       \* preview job identifiers, UUIDs in the code
    Workers,    \* worker processes
    None,       \* Python's None / SQL's NULL
    MaxRetries, \* settings.preview_job_max_retries
    StaleAfter, \* settings.preview_job_stale_after_seconds, in clock ticks
    Ttl,        \* settings.preview_job_ttl_hours, in clock ticks
    MaxTime     \* bound on the clock

VARIABLES
    jobs,       \* the table: one row for each identifier, or NoRow
    lock,       \* the holder of each job's advisory lock
    now         \* wall-clock time, datetime.now(UTC)

storeVars == <<jobs, lock, now>>

Free == "free"  \* no session holds the advisory lock
Api  == "api"   \* the submitting API request holds it

(* None is not a job, a worker or a time, and a worker is not one of the   *)
(* two other states of a lock.                                             *)
ASSUME StoreAssumption ==
    /\ IsFiniteSet(Jobs)
    /\ None \notin Jobs \cup Workers \cup Int
    /\ Free \notin Workers /\ Api \notin Workers
    /\ MaxRetries \in Nat
    /\ StaleAfter \in Nat \ {0} /\ Ttl \in Nat \ {0} /\ MaxTime \in Nat

RunStages == {"parsing", "validating", "compiling", "loading_data",
              "backtesting", "generating_results"}
Statuses == {"queued", "running", "completed", "failed"}

(* status "absent" is the missing row. *)
Row == [status   : Statuses \cup {"absent"},
        stage    : RunStages \cup Statuses,
        attempts : Nat,                \* attempt_count
        started  : Nat \cup {None},    \* started_at
        finished : BOOLEAN,            \* completed_at is not NULL
        result   : BOOLEAN,            \* preview_result is not NULL
        error    : BOOLEAN,            \* error_message is not NULL
        expires  : Nat]                \* expires_at

NoRow == [status |-> "absent", stage |-> "queued", attempts |-> 0,
          started |-> None, finished |-> FALSE, result |-> FALSE,
          error |-> FALSE, expires |-> 0]

Exists(j)      == jobs[j].status # "absent"
Nonterminal(j) == jobs[j].status \in {"queued", "running"}
Terminal(j)    == jobs[j].status \in {"completed", "failed"}

StoreTypeOK ==
    /\ jobs \in [Jobs -> Row]
    /\ lock \in [Jobs -> Workers \cup {Free, Api}]
    /\ now \in 0..MaxTime

StoreInit ==
    /\ jobs = [j \in Jobs |-> NoRow]
    /\ lock = [j \in Jobs |-> Free]
    /\ now = 0

-----------------------------------------------------------------------------
(* Writes to the table. *)

create_job(j) ==
    /\ jobs[j] = NoRow
    /\ jobs' = [jobs EXCEPT ![j] = [NoRow EXCEPT !.status = "queued",
                                                 !.expires = now + Ttl]]

(* Mutant: the WHERE clause forgets the status. *)
ClaimableAtAnyStatus(j, allow_running_retry) == Exists(j)

(* WHERE clause of the claiming UPDATE. *)
Claimable(j, allow_running_retry) ==
    \/ jobs[j].status = "queued"
    \/ allow_running_retry /\ jobs[j].status = "running"

SetRow(j, row) == jobs' = [jobs EXCEPT ![j] = row]

claim_job(j) ==
    SetRow(j, [jobs[j] EXCEPT !.status = "running", !.stage = "parsing",
                              !.started = now, !.finished = FALSE,
                              !.error = FALSE, !.attempts = @ + 1])

(* The three ORM writes below are keyed by the primary key alone: they do  *)
(* not look at the status that is in the table.                            *)
update_progress(j, stage) ==
    SetRow(j, [jobs[j] EXCEPT !.stage = stage])

complete_job(j) ==
    SetRow(j, [jobs[j] EXCEPT !.status = "completed", !.stage = "completed",
                              !.result = TRUE, !.finished = TRUE])

FailedRow(row) == [row EXCEPT !.status = "failed", !.stage = "failed",
                              !.error = TRUE, !.finished = TRUE]
(* Mutant: a retry keeps the start time of the attempt that failed. *)
QueuedRowKeepingStart(row) == [row EXCEPT !.status = "queued", !.stage = "queued",
                                          !.finished = FALSE, !.error = FALSE]

QueuedRow(row) == [row EXCEPT !.status = "queued", !.stage = "queued",
                              !.started = None, !.finished = FALSE,
                              !.error = FALSE]

fail_job(j) == SetRow(j, FailedRow(jobs[j]))

(* Mutant: the UPDATE is not restricted to nonterminal rows. *)
transition_unguarded(j, will_retry) ==
    SetRow(j, IF will_retry THEN QueuedRow(jobs[j]) ELSE FailedRow(jobs[j]))

(* A guarded UPDATE: terminal rows and missing ones are left alone. *)
transition_job_after_operational_failure(j, will_retry) ==
    IF Nonterminal(j)
    THEN SetRow(j, IF will_retry THEN QueuedRow(jobs[j]) ELSE FailedRow(jobs[j]))
    ELSE UNCHANGED jobs

(* One DELETE statement removes every expired row, whatever its status. *)
Expirable == {j \in Jobs : Exists(j) /\ jobs[j].expires < now}

delete_expired_jobs ==
    /\ Expirable # {}
    /\ jobs' = [j \in Jobs |-> IF j \in Expirable THEN NoRow ELSE jobs[j]]

-----------------------------------------------------------------------------
(* Advisory locks: pg_try_advisory_lock and pg_advisory_unlock. *)

(* Mutant: the result of pg_try_advisory_lock is not looked at. *)
try_acquire_unchecked(j, owner) == lock' = [lock EXCEPT ![j] = owner]

try_acquire_preview_job_lock(j, owner) ==
    /\ lock[j] = Free
    /\ lock' = [lock EXCEPT ![j] = owner]

(* Unlocking what the session does not hold has no effect. *)
release_preview_job_lock(j, owner) ==
    lock' = [lock EXCEPT ![j] = IF @ = owner THEN Free ELSE @]

-----------------------------------------------------------------------------
(* Reads. *)

(* Mutant: only running rows are candidates. *)
list_running_candidates(limit) ==
    LET Open == {j \in Jobs : jobs[j].status = "running"}
    IN  {q \in [1..Cardinality(Open) -> Open] :
            \A a, b \in 1..Cardinality(Open) : a < b => q[a] # q[b]}

(* ORDER BY created_at LIMIT batch: the result is one of these sequences   *)
(* (rows with equal created_at may come in either order).                  *)
list_reconciliation_candidates(limit) ==
    LET Open  == {j \in Jobs : Nonterminal(j)}
        Size  == IF Cardinality(Open) < limit THEN Cardinality(Open) ELSE limit
        Lists == [1..Size -> Open]
    IN  {q \in Lists :
            /\ \A a, b \in 1..Size : a < b => /\ q[a] # q[b]
                                              /\ jobs[q[a]].expires <= jobs[q[b]].expires
            /\ \A j \in Open : \A a \in 1..Size :
                    (\A b \in 1..Size : q[b] # j)
                        => jobs[q[a]].expires <= jobs[j].expires}

is_stale(at, row) ==
    row.started = None \/ at - row.started >= StaleAfter

Exhausted(row)   == row.attempts >= MaxRetries + 1
Expired(at, row) == at >= row.expires

Tick == now < MaxTime /\ now' = now + 1
=============================================================================
