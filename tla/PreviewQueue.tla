---------------------------- MODULE PreviewQueue ----------------------------
(***************************************************************************)
(* The RQ queue `preview' in Redis, as queue/preview_queue.py uses it.     *)
(*                                                                         *)
(* An RQ job (an entry) is in the queue list, in the intermediate list     *)
(* that a dequeueing worker moves it through, in the started registry or   *)
(* in the scheduled registry (a retry that waits for its interval).        *)
(* Finished and failed entries are never read again, so their identifiers  *)
(* are reused: "gone" is the place of an entry that is in none of these.   *)
(* The deferred registry is always empty: no entry has a dependency.       *)
(* The queue list is a set here; FIFO order is one of the orders explored. *)
(***************************************************************************)
EXTENDS JobStore

CONSTANTS
    RqIds,      \* identifiers of RQ jobs, a bound on the live ones
    ScanLimit   \* settings.preview_job_registry_scan_limit

VARIABLE rq     \* the entries

ASSUME QueueAssumption ==
    /\ IsFiniteSet(RqIds)
    /\ None \notin RqIds
    /\ ScanLimit \in Nat

Places  == {"gone", "queue", "intermediate", "started", "scheduled"}
NoRetry == -1   \* retries_left is None: enqueued without a Retry

Entry == [job : Jobs \cup {None}, place : Places, retries : NoRetry..MaxRetries]
NoEntry == [job |-> None, place |-> "gone", retries |-> NoRetry]

QueueTypeOK == rq \in [RqIds -> Entry]

QueueInit == rq = [r \in RqIds |-> NoEntry]

Live(r)   == rq[r].place # "gone"
HasEntry(j) == \E r \in RqIds : Live(r) /\ rq[r].job = j
At(place) == {r \in RqIds : rq[r].place = place}

-----------------------------------------------------------------------------
(* Mutant: recovery grants a full set of retries again. *)
RetriesForAnyCount(retry_count) == IF MaxRetries > 0 THEN MaxRetries ELSE NoRetry

(* Mutant: the number of attempts is taken for the number of retries. *)
RetriesForAttempts(retry_count) ==
    LET attempts == IF retry_count = None THEN MaxRetries + 1 ELSE retry_count
    IN  IF attempts > 0 THEN attempts ELSE NoRetry

(* enqueue: retry_count is None for a submission, which asks for           *)
(* max_retries; a Retry object is attached only to a positive count.       *)
RetriesFor(retry_count) ==
    LET retries == IF retry_count = None THEN MaxRetries ELSE retry_count
    IN  IF retries > 0 THEN retries ELSE NoRetry

(* Redis at its memory limit: no further entry fits, enqueueing raises.    *)
QueueFull == \A r \in RqIds : Live(r)

enqueue(j, retry_count) ==
    \E r \in RqIds :
        /\ ~Live(r)
        /\ rq' = [rq EXCEPT ![r] = [job |-> j, place |-> "queue",
                                    retries |-> RetriesFor(retry_count)]]

(* active_preview_job_ids reads the queue list, then the started, then the *)
(* scheduled registry, one Redis command each: entries move in between.    *)
ScanSteps == {"scan_queue", "scan_started", "scan_scheduled"}

ScannedPlace(step) == CASE step = "scan_queue"     -> "queue"
                        [] step = "scan_started"   -> "started"
                        [] step = "scan_scheduled" -> "scheduled"

(* The number of identifiers collected so far, and whether it is refused.  *)
Collected(step, count) == count + Cardinality(At(ScannedPlace(step)))

(* Mutant: a scan that just reaches the limit is refused. *)
TooManyAtLimit(step, count) == Collected(step, count) >= ScanLimit

TooMany(step, count) == Collected(step, count) > ScanLimit

JobsAt(step) == {rq[r].job : r \in At(ScannedPlace(step))}

-----------------------------------------------------------------------------
(* RQ itself (external): what its worker, scheduler and failure handling   *)
(* do with one entry.                                                      *)
RqMove(r, place) == rq' = [rq EXCEPT ![r].place = place]
RqRemove(r)      == rq' = [rq EXCEPT ![r] = NoEntry]

(* `job.retries_left or 0', tested with > 0. *)
WillRetry(r) == rq[r].retries > 0

(* handle_job_failure: schedule the retry and decrement, or give up. *)
RqHandleFailure(r) ==
    IF WillRetry(r)
    THEN rq' = [rq EXCEPT ![r].place = "scheduled", ![r].retries = @ - 1]
    ELSE RqRemove(r)
=============================================================================
