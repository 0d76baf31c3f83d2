---------------------------- MODULE PreviewPolling ----------------------------
(***************************************************************************)
(* usePreviewJob (frontend/app/dashboard/use-preview-job.ts): the hook     *)
(* that submits a preview and polls its job, with the API behind it.       *)
(*                                                                         *)
(* Every call of submit or reset starts a generation.  A generation has at *)
(* most one submission, so it also names the submitted text, the job the   *)
(* server creates for it and the job's result.  An answer is delivered any *)
(* time after the server gave it, in any order with the answers of other   *)
(* generations; aborting a request does not take back an answer that is    *)
(* already on its way.  A setState is taken to be rendered at once.        *)
(***************************************************************************)
EXTENDS Integers

CONSTANTS
    MaxGeneration,  \* bound on the calls of submit and reset
    MaxErrors,      \* bound on failed requests, retried executions and lost jobs
    None

Generation == 0..MaxGeneration
Active == {"queued", "running"}
Final == {"completed", "failed"}
Status == Active \cup Final

(* A request: what it asks, whether it was aborted, and its answer. *)
Request == [kind : {"submit", "poll"}, aborted : BOOLEAN,
            answer : Status \cup {"error", None}]
Shown == [id : Generation, status : Status]

ASSUME PollingAssumption ==
    /\ MaxGeneration \in Nat /\ MaxErrors \in Nat
    /\ None \notin Nat /\ None \notin Status \cup {"error"}
    /\ None \notin Request /\ None \notin Shown

VARIABLES
    generation,     \* generationRef
    timer,          \* timerRef: the generation it will poll for, or None
    requestRef,     \* the generation of the current AbortController, or None
    request,        \* the request of each generation that is in flight, or None
    job, preview, error, isSubmitting,  \* what the hook returns
    mounted,
    jobs,           \* what the API answers about each job, None before it exists
    errors          \* failures so far

refs == <<generation, timer, requestRef>>
shown == <<job, preview, error, isSubmitting>>
server == <<jobs, errors>>
pollingVars == <<refs, request, shown, mounted, server>>

PollingTypeOK ==
    /\ generation \in Generation
    /\ timer \in Generation \cup {None}
    /\ requestRef \in Generation \cup {None}
    /\ request \in [Generation -> Request \cup {None}]
    /\ job \in Shown \cup {None}
    /\ preview \in Generation \cup {None}
    /\ error \in BOOLEAN /\ isSubmitting \in BOOLEAN /\ mounted \in BOOLEAN
    /\ jobs \in [Generation -> Status \cup {"error", None}]
    /\ errors \in 0..MaxErrors

PollingInit ==
    /\ generation = 0 /\ timer = None /\ requestRef = None
    /\ request = [g \in Generation |-> None]
    /\ job = None /\ preview = None /\ error = FALSE /\ isSubmitting = FALSE
    /\ mounted = TRUE
    /\ jobs = [g \in Generation |-> None] /\ errors = 0

isActive == isSubmitting \/ (job # None /\ job.status \in Active)

-----------------------------------------------------------------------------
Ask(kind) == [kind |-> kind, aborted |-> FALSE, answer |-> None]

(* requestRef.current?.abort() *)
Aborted ==
    [g \in Generation |-> IF g = requestRef /\ request[g] # None
                          THEN [request[g] EXCEPT !.aborted = TRUE]
                          ELSE request[g]]

(* Mutant: the timer of the abandoned generation is left running. *)
stopWithoutClearing ==
    /\ generation < MaxGeneration
    /\ generation' = generation + 1
    /\ UNCHANGED timer

stopCurrentRequest ==
    /\ generation < MaxGeneration
    /\ generation' = generation + 1
    /\ timer' = None

(* submit, up to the await of enqueueStrategyPreview. *)
submit ==
    /\ mounted
    /\ stopCurrentRequest
    /\ requestRef' = generation'
    /\ request' = [Aborted EXCEPT ![generation'] = Ask("submit")]
    /\ job' = None /\ preview' = None /\ error' = FALSE
    /\ isSubmitting' = TRUE
    /\ UNCHANGED <<mounted, server>>

reset ==
    /\ mounted
    /\ stopCurrentRequest
    /\ requestRef' = None
    /\ request' = Aborted
    /\ job' = None /\ preview' = None /\ error' = FALSE
    /\ isSubmitting' = FALSE
    /\ UNCHANGED <<mounted, server>>

(* The effect's cleanup. *)
unmount ==
    /\ mounted
    /\ stopCurrentRequest
    /\ requestRef' = None
    /\ request' = Aborted
    /\ mounted' = FALSE
    /\ UNCHANGED <<shown, server>>

(* An answer is handed over: the request is no longer in flight. *)
Deliver(g, kind) ==
    request[g] # None /\ request[g].kind = kind /\ request[g].answer # None

(* Mutant: a submission that was abandoned meanwhile is taken up. *)
submittedUnchecked(g) ==
    /\ Deliver(g, "submit")
    /\ request[g].answer # "error"
    /\ job' = [id |-> g, status |-> "queued"]
    /\ isSubmitting' = FALSE
    /\ requestRef' = g
    /\ request' = [request EXCEPT ![g] = Ask("poll")]
    /\ UNCHANGED <<generation, timer, preview, error, mounted, server>>

(* submit after the await: the job is queued and polled at once. *)
submitted(g) ==
    /\ Deliver(g, "submit")
    /\ g = generation /\ request[g].answer # "error"
    /\ job' = [id |-> g, status |-> "queued"]
    /\ isSubmitting' = FALSE
    /\ requestRef' = g
    /\ request' = [request EXCEPT ![g] = Ask("poll")]
    /\ UNCHANGED <<generation, timer, preview, error, mounted, server>>

submissionFailed(g) ==
    /\ Deliver(g, "submit")
    /\ g = generation /\ ~request[g].aborted /\ request[g].answer = "error"
    /\ error' = TRUE
    /\ isSubmitting' = FALSE
    /\ requestRef' = None
    /\ request' = [request EXCEPT ![g] = None]
    /\ UNCHANGED <<generation, timer, job, preview, mounted, server>>

(* The early returns: an abandoned generation, or an aborted request. *)
abandoned(g) ==
    /\ request[g] # None /\ request[g].answer # None
    /\ g # generation \/ (request[g].answer = "error" /\ request[g].aborted)
    /\ request' = [request EXCEPT ![g] = None]
    /\ UNCHANGED <<refs, shown, mounted, server>>

(* Mutant: a failed job is polled on. *)
polledFailedOn(g) ==
    /\ Deliver(g, "poll")
    /\ g = generation /\ request[g].answer \in Final
    /\ error' = (request[g].answer = "failed")
    /\ IF request[g].answer = "completed"
       THEN preview' = g /\ UNCHANGED timer /\ job' = [id |-> g, status |-> "completed"]
       ELSE timer' = g /\ UNCHANGED <<preview, job>>
    /\ requestRef' = None
    /\ request' = [request EXCEPT ![g] = None]
    /\ UNCHANGED <<generation, isSubmitting, mounted, server>>

(* poll after the await: a final status ends it. *)
polledFinal(g) ==
    /\ Deliver(g, "poll")
    /\ g = generation /\ request[g].answer \in Final
    /\ job' = [id |-> g, status |-> request[g].answer]
    /\ error' = (request[g].answer = "failed")
    /\ preview' = IF request[g].answer = "completed" THEN g ELSE preview
    /\ requestRef' = None
    /\ request' = [request EXCEPT ![g] = None]
    /\ UNCHANGED <<generation, timer, isSubmitting, mounted, server>>

(* Any other answer sets the timer for the next poll. *)
polledActive(g) ==
    /\ Deliver(g, "poll")
    /\ g = generation /\ request[g].answer \in Active
    /\ job' = [id |-> g, status |-> request[g].answer]
    /\ error' = FALSE
    /\ requestRef' = None
    /\ timer' = g
    /\ request' = [request EXCEPT ![g] = None]
    /\ UNCHANGED <<generation, preview, isSubmitting, mounted, server>>

pollFailed(g) ==
    /\ Deliver(g, "poll")
    /\ g = generation /\ ~request[g].aborted /\ request[g].answer = "error"
    /\ error' = TRUE
    /\ requestRef' = None
    /\ timer' = g
    /\ request' = [request EXCEPT ![g] = None]
    /\ UNCHANGED <<generation, job, preview, isSubmitting, mounted, server>>

(* The timer's callback, with the check at the head of poll. *)
timerFires ==
    /\ timer # None
    /\ timer' = None
    /\ IF timer = generation
       THEN /\ requestRef' = timer
            /\ request' = [request EXCEPT ![timer] = Ask("poll")]
       ELSE UNCHANGED <<requestRef, request>>
    /\ UNCHANGED <<generation, shown, mounted, server>>

-----------------------------------------------------------------------------
(* The API and the worker, as the hook sees them. *)
Pending(g) == request[g] # None /\ request[g].answer = None

Answer(g, a) == request' = [request EXCEPT ![g].answer = a]

(* POST /strategies/preview *)
createJob(g) ==
    /\ Pending(g) /\ request[g].kind = "submit"
    /\ jobs' = [jobs EXCEPT ![g] = "queued"]
    /\ Answer(g, "queued")
    /\ UNCHANGED <<refs, shown, mounted, errors>>

(* GET /jobs/{id} *)
readJob(g) ==
    /\ Pending(g) /\ request[g].kind = "poll"
    /\ Answer(g, jobs[g])
    /\ UNCHANGED <<refs, shown, mounted, server>>

(* A request fails, before or after the server has acted on it, or an      *)
(* aborted one is rejected.                                                *)
failRequest(g) ==
    /\ request[g] # None /\ request[g].answer # "error"
    /\ \/ errors < MaxErrors /\ errors' = errors + 1
       \/ request[g].aborted /\ UNCHANGED errors
    /\ Answer(g, "error")
    /\ UNCHANGED <<refs, shown, mounted, jobs>>

(* The job moves on; a running one may be queued again by a retry. *)
runJob(g) ==
    /\ \/ jobs[g] = "queued" /\ UNCHANGED errors
          /\ jobs' = [jobs EXCEPT ![g] = "running"]
       \/ jobs[g] = "running" /\ UNCHANGED errors
          /\ \E s \in Final : jobs' = [jobs EXCEPT ![g] = s]
       \/ jobs[g] = "running" /\ errors < MaxErrors /\ errors' = errors + 1
          /\ jobs' = [jobs EXCEPT ![g] = "queued"]
    /\ UNCHANGED <<refs, request, shown, mounted>>

(* The row is deleted (404), or its result no longer validates (410): from *)
(* now on every poll fails.                                                *)
loseJob(g) ==
    /\ jobs[g] \in Status
    /\ errors < MaxErrors /\ errors' = errors + 1
    /\ jobs' = [jobs EXCEPT ![g] = "error"]
    /\ UNCHANGED <<refs, request, shown, mounted>>

Callback(g) ==
    \/ submitted(g) \/ submissionFailed(g) \/ abandoned(g)
    \/ polledFinal(g) \/ polledActive(g) \/ pollFailed(g)

Server(g) == createJob(g) \/ readJob(g) \/ failRequest(g) \/ runJob(g) \/ loseJob(g)

PollingNext ==
    \/ submit \/ reset \/ unmount
    \/ timerFires
    \/ \E g \in Generation : Callback(g) \/ Server(g)

PollingSpec == PollingInit /\ [][PollingNext]_pollingVars

(* The browser delivers answers and fires timers, the API answers, and the *)
(* worker settles jobs (PreviewPipeline's JobSettles).                     *)
PollingFairness ==
    /\ WF_pollingVars(timerFires)
    /\ \A g \in Generation :
          /\ WF_pollingVars(Callback(g))
          /\ WF_pollingVars(createJob(g) \/ readJob(g))
          /\ WF_pollingVars(runJob(g))

-----------------------------------------------------------------------------
(* What is shown belongs to the last call of submit: neither the answer of *)
(* an abandoned submission nor that of an abandoned poll gets on screen,   *)
(* whatever the order of the answers.                                      *)
ShowsLatestSubmission ==
    mounted => /\ job # None => job.id = generation
               /\ preview # None => /\ preview = generation
                                    /\ job = [id |-> preview, status |-> "completed"]

(* A preview in progress is waiting for exactly one thing, a request or    *)
(* the timer, so the disabled form comes back; and when nothing is in      *)
(* progress, nothing is left running that could touch the screen.          *)
Running == /\ request[generation] # None
           /\ ~(request[generation].aborted /\ request[generation].answer = "error")
OneThingInProgress ==
    /\ timer # None => timer = generation /\ ~Running
    /\ mounted /\ isActive <=> timer # None \/ Running

(* Every preview in progress is answered, cancelled or left, although      *)
(* requests fail in between, unless its job is lost: that one is polled    *)
(* until the user cancels.                                                 *)
PreviewAnswered == isActive ~> ~isActive \/ ~mounted \/ jobs[generation] = "error"
=============================================================================
