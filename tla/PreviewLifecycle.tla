-------------------------- MODULE PreviewLifecycle --------------------------
(***************************************************************************)
(* What the pipeline promises to a client that polls GET /api/jobs/{id}:   *)
(* the status, stage and attempt of a preview job over time.  A job is     *)
(* submitted once; each attempt goes through the stages in order; there    *)
(* are at most max_retries + 1 attempts; a terminal status is final, and   *)
(* a job disappears for good once it is deleted.                           *)
(***************************************************************************)
EXTENDS Naturals

CONSTANTS Jobs, MaxRetries

VARIABLES
    view,   \* what the API shows of each job
    born    \* the jobs whose submission is past the point of no return

lifeVars == <<view, born>>

Stages == <<"parsing", "validating", "compiling", "loading_data",
            "backtesting", "generating_results">>

Absent == [status |-> "absent", stage |-> "queued", attempts |-> 0]

LifeInit ==
    /\ view = [j \in Jobs |-> Absent]
    /\ born = {}

Show(j, status, stage) ==
    view' = [view EXCEPT ![j].status = status, ![j].stage = stage]

(* The submission is accepted, or it fails before a row exists. *)
Submitted(j) ==
    /\ j \notin born
    /\ born' = born \cup {j}
    /\ Show(j, "queued", "queued") \/ UNCHANGED view

Attempt(j) ==
    /\ view[j].status \in {"queued", "running"}
    /\ view[j].attempts <= MaxRetries
    /\ view' = [view EXCEPT ![j] = [status |-> "running", stage |-> Stages[1],
                                    attempts |-> @.attempts + 1]]
    /\ UNCHANGED born

Advance(j) ==
    /\ view[j].status = "running"
    /\ \E k \in 1..5 : view[j].stage = Stages[k] /\ Show(j, "running", Stages[k + 1])
    /\ UNCHANGED born

Completed(j) ==
    /\ view[j].status = "running" /\ view[j].stage = Stages[6]
    /\ Show(j, "completed", "completed")
    /\ UNCHANGED born

Failed(j) ==
    /\ view[j].status \in {"queued", "running"}
    /\ Show(j, "failed", "failed")
    /\ UNCHANGED born

Retried(j) ==
    /\ view[j].status = "running"
    /\ Show(j, "queued", "queued")
    /\ UNCHANGED born

(* One cleanup deletes any number of jobs. *)
Deleted ==
    /\ \E gone \in SUBSET born :
          view' = [j \in Jobs |-> IF j \in gone THEN Absent ELSE view[j]]
    /\ UNCHANGED born

LifeNext ==
    \/ \E j \in Jobs : \/ Submitted(j) \/ Attempt(j) \/ Advance(j) \/ Completed(j)
                       \/ Failed(j) \/ Retried(j)
    \/ Deleted

LifeSpec == LifeInit /\ [][LifeNext]_lifeVars
=============================================================================
