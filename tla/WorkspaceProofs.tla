--------------------------- MODULE WorkspaceProofs ---------------------------
(***************************************************************************)
(* Proofs about PreviewPolling and StrategyWorkspace, for any number of    *)
(* submissions, failures and drafts.                                       *)
(***************************************************************************)
EXTENDS StrategyWorkspace, TLAPS

(* Only the current generation has a live request or the timer, ... *)
CurrentOnly ==
    /\ \A g \in Generation : g > generation => request[g] = None
    /\ request[generation] # None => mounted /\ ~request[generation].aborted
    /\ timer # None => /\ timer = generation /\ mounted
                       /\ request[generation] = None

(* ... which one it has is what the screen says, ... *)
Busy ==
    mounted => /\ isActive <=> timer # None \/ request[generation] # None
               /\ isSubmitting <=> /\ request[generation] # None
                                   /\ request[generation].kind = "submit"
               /\ isSubmitting => job = None

(* ... and what is shown came from it. *)
PollingInv ==
    PollingTypeOK /\ CurrentOnly /\ Busy /\ ShowsLatestSubmission

-----------------------------------------------------------------------------
(* What stopCurrentRequest leaves in the requests. *)
LEMMA AbortedRequests ==
    ASSUME PollingTypeOK
    PROVE  /\ Aborted \in [Generation -> Request \cup {None}]
           /\ \A g \in Generation : request[g] = None => Aborted[g] = None
<1>1. ASSUME NEW g \in Generation, request[g] # None
      PROVE  [request[g] EXCEPT !.aborted = TRUE] \in Request
  BY <1>1 DEF PollingTypeOK, Request
<1> QED BY <1>1 DEF Aborted, PollingTypeOK

(* A fresh request is a request. *)
LEMMA AskType ==
    ASSUME NEW kind \in {"submit", "poll"}
    PROVE  Ask(kind) \in Request /\ Ask(kind) # None /\ Ask(kind).kind = kind
           /\ ~Ask(kind).aborted
<1>1. Ask(kind) \in Request
  BY DEF Ask, Request
<1>2. Ask(kind) # None
  BY <1>1, PollingAssumption
<1>3. Ask(kind).kind = kind /\ Ask(kind).aborted = FALSE
  BY DEF Ask
<1> QED BY <1>1, <1>2, <1>3

(* Answering, failing or finishing a request of g touches only that one. *)
LEMMA AnswerType ==
    ASSUME PollingTypeOK, NEW g \in Generation, request[g] # None,
           NEW a \in Status \cup {"error", None}, Answer(g, a)
    PROVE  /\ request' \in [Generation -> Request \cup {None}]
           /\ request'[g] # None
           /\ request'[g].kind = request[g].kind
           /\ request'[g].aborted = request[g].aborted
           /\ \A h \in Generation \ {g} : request'[h] = request[h]
<1> DEFINE r == [request[g] EXCEPT !.answer = a]
<1>1. request[g] \in Request
  BY DEF PollingTypeOK
<1>2. r \in Request /\ r.kind = request[g].kind /\ r.aborted = request[g].aborted
  BY <1>1 DEF Request
<1>3. request' = [request EXCEPT ![g] = r]
  BY DEF Answer
<1>4. r # None
  BY <1>2, PollingAssumption
<1> HIDE DEF r
<1> QED BY <1>2, <1>3, <1>4 DEF PollingTypeOK

(* Every step of the hook and of the server keeps the invariant. *)
LEMMA PollingStep == PollingInv /\ [PollingNext]_pollingVars => PollingInv'
<1> SUFFICES ASSUME PollingInv, [PollingNext]_pollingVars PROVE PollingInv'
  OBVIOUS
<1>0. None \notin Generation /\ None \notin Nat /\ Generation \subseteq Nat
      /\ None \notin Shown /\ None \notin Request
  BY PollingAssumption DEF Generation
<1>s. ASSUME stopCurrentRequest
      PROVE  /\ generation' \in Generation /\ generation' = generation + 1
             /\ generation \in Nat /\ timer' = None
             /\ Aborted[generation'] = None
             /\ \A g \in Generation : g > generation' => Aborted[g] = None
  <2>1. generation' \in Generation /\ generation' = generation + 1
        /\ generation \in Nat /\ timer' = None
    BY <1>s, PollingAssumption DEF stopCurrentRequest, PollingInv, PollingTypeOK, Generation
  <2>2. \A g \in Generation : g > generation => Aborted[g] = None
    BY AbortedRequests DEF PollingInv, CurrentOnly
  <2> QED BY <1>0, <2>1, <2>2
<1>1. CASE submit
  <2>1. /\ generation' \in Generation /\ generation' = generation + 1
        /\ generation \in Nat /\ timer' = None
        /\ \A g \in Generation : g > generation' => Aborted[g] = None
    BY <1>1, <1>s DEF submit
  <2>2. request' = [Aborted EXCEPT ![generation'] = Ask("submit")]
    BY <1>1 DEF submit
  <2>3. request' \in [Generation -> Request \cup {None}]
        /\ request'[generation'] = Ask("submit")
        /\ \A g \in Generation : g > generation' => request'[g] = None
    BY <1>0, <2>1, <2>2, AbortedRequests, AskType DEF PollingInv
  <2>4. requestRef' = generation' /\ job' = None /\ preview' = None /\ error' = FALSE
        /\ isSubmitting' = TRUE /\ mounted /\ mounted' = mounted
        /\ jobs' = jobs /\ errors' = errors
    BY <1>1 DEF submit, server
  <2>5. PollingTypeOK'
    BY <2>1, <2>3, <2>4 DEF PollingInv, PollingTypeOK
  <2>6. CurrentOnly'
    BY <2>1, <2>3, <2>4, AskType DEF CurrentOnly
  <2>7. Busy'
    BY <2>1, <2>3, <2>4, AskType DEF Busy, isActive
  <2>8. ShowsLatestSubmission'
    BY <2>4 DEF ShowsLatestSubmission
  <2> QED BY <2>5, <2>6, <2>7, <2>8 DEF PollingInv
<1>2. CASE reset
  <2>1. /\ generation' \in Generation /\ generation' = generation + 1
        /\ generation \in Nat /\ timer' = None
        /\ Aborted[generation'] = None
        /\ \A g \in Generation : g > generation' => Aborted[g] = None
    BY <1>2, <1>s DEF reset
  <2>2. request' = Aborted /\ Aborted \in [Generation -> Request \cup {None}]
    BY <1>2, AbortedRequests DEF reset, PollingInv
  <2>3. requestRef' = None /\ job' = None /\ preview' = None /\ error' = FALSE
        /\ isSubmitting' = FALSE /\ mounted /\ mounted' = mounted
        /\ jobs' = jobs /\ errors' = errors
    BY <1>2 DEF reset, server
  <2>4. PollingTypeOK'
    BY <2>1, <2>2, <2>3 DEF PollingInv, PollingTypeOK
  <2>5. CurrentOnly' /\ Busy' /\ ShowsLatestSubmission'
    BY <2>1, <2>2, <2>3 DEF CurrentOnly, Busy, isActive, ShowsLatestSubmission
  <2> QED BY <2>4, <2>5 DEF PollingInv
<1>3. CASE unmount
  <2>1. /\ generation' \in Generation /\ generation' = generation + 1
        /\ generation \in Nat /\ timer' = None
        /\ Aborted[generation'] = None
        /\ \A g \in Generation : g > generation' => Aborted[g] = None
    BY <1>3, <1>s DEF unmount
  <2>2. request' = Aborted /\ Aborted \in [Generation -> Request \cup {None}]
    BY <1>3, AbortedRequests DEF unmount, PollingInv
  <2>3. requestRef' = None /\ mounted' = FALSE
        /\ UNCHANGED <<job, preview, error, isSubmitting, jobs, errors>>
    BY <1>3 DEF unmount, server, shown
  <2>4. PollingTypeOK'
    BY <2>1, <2>2, <2>3 DEF PollingInv, PollingTypeOK
  <2>5. CurrentOnly' /\ Busy' /\ ShowsLatestSubmission'
    BY <2>1, <2>2, <2>3 DEF CurrentOnly, Busy, ShowsLatestSubmission
  <2> QED BY <2>4, <2>5 DEF PollingInv
<1>4. CASE timerFires
  <2>1. /\ timer = generation /\ timer # None /\ mounted /\ request[generation] = None
        /\ generation \in Generation
    BY <1>4 DEF timerFires, PollingInv, CurrentOnly, PollingTypeOK
  <2>2. request' = [request EXCEPT ![generation] = Ask("poll")]
        /\ timer' = None /\ requestRef' = generation
        /\ UNCHANGED <<generation, job, preview, error, isSubmitting, mounted, jobs, errors>>
    BY <1>4, <2>1 DEF timerFires, shown, server
  <2>3. request' \in [Generation -> Request \cup {None}]
        /\ request'[generation] = Ask("poll")
        /\ \A g \in Generation : g > generation => request'[g] = None
    BY <1>0, <2>1, <2>2, AskType DEF PollingInv, CurrentOnly, PollingTypeOK
  <2>4. PollingTypeOK'
    BY <2>1, <2>2, <2>3 DEF PollingInv, PollingTypeOK
  <2>5. CurrentOnly'
    BY <2>1, <2>2, <2>3, AskType DEF CurrentOnly
  <2>6. Busy'
    BY <2>1, <2>2, <2>3, AskType DEF PollingInv, Busy, isActive
  <2>7. ShowsLatestSubmission'
    BY <2>2 DEF PollingInv, ShowsLatestSubmission
  <2> QED BY <2>4, <2>5, <2>6, <2>7 DEF PollingInv
<1>u. ASSUME NEW g \in Generation, g = generation, request[g] # None,
             request[g].kind = "submit"
      PROVE  mounted /\ timer = None /\ isSubmitting /\ job = None /\ preview = None
  <2>1. mounted /\ timer = None /\ isSubmitting /\ job = None
    BY <1>u DEF PollingInv, CurrentOnly, Busy
  <2>2. ASSUME preview # None PROVE FALSE
    <3>1. preview \in Generation /\ job = [id |-> preview, status |-> "completed"]
      BY <2>1, <2>2 DEF PollingInv, PollingTypeOK, ShowsLatestSubmission
    <3>2. job \in Shown
      BY <3>1 DEF Shown, Status, Final
    <3> QED BY <1>0, <2>1, <3>2
  <2> QED BY <2>1, <2>2
<1>5. ASSUME NEW g \in Generation, submitted(g) PROVE PollingInv'
  <2>1. /\ g = generation /\ request[g] # None /\ request[g].kind = "submit"
    BY <1>5 DEF submitted, Deliver
  <2>2. mounted /\ timer = None /\ isSubmitting /\ job = None /\ preview = None
    BY <1>u, <2>1
  <2>3. request' = [request EXCEPT ![g] = Ask("poll")]
        /\ job' = [id |-> g, status |-> "queued"] /\ isSubmitting' = FALSE /\ requestRef' = g
        /\ UNCHANGED <<generation, timer, preview, error, mounted, jobs, errors>>
    BY <1>5 DEF submitted, server
  <2>4. request' \in [Generation -> Request \cup {None}]
        /\ request'[generation] = Ask("poll")
        /\ \A h \in Generation : h > generation => request'[h] = None
    BY <1>0, <2>1, <2>3, AskType DEF PollingInv, CurrentOnly, PollingTypeOK
  <2>5. job' \in Shown /\ job' # None /\ job'.id = generation' /\ job'.status = "queued"
    BY <1>0, <2>1, <2>3 DEF Shown, Status, Active
  <2>6. PollingTypeOK'
    BY <2>3, <2>4, <2>5 DEF PollingInv, PollingTypeOK
  <2>7. CurrentOnly'
    BY <2>2, <2>3, <2>4, AskType DEF CurrentOnly
  <2>8. Busy'
    BY <2>2, <2>3, <2>4, <2>5, AskType DEF Busy, isActive, Active
  <2>9. ShowsLatestSubmission'
    BY <2>2, <2>3, <2>5 DEF ShowsLatestSubmission
  <2> QED BY <2>6, <2>7, <2>8, <2>9 DEF PollingInv
<1>f. ASSUME NEW g \in Generation, request' = [request EXCEPT ![g] = None]
      PROVE  /\ request' \in [Generation -> Request \cup {None}]
             /\ request'[g] = None
             /\ \A h \in Generation \ {g} : request'[h] = request[h]
  BY <1>f DEF PollingInv, PollingTypeOK
<1>6. ASSUME NEW g \in Generation, submissionFailed(g) PROVE PollingInv'
  <2>1. /\ g = generation /\ request[g] # None /\ request[g].kind = "submit"
    BY <1>6 DEF submissionFailed, Deliver
  <2>2. mounted /\ timer = None /\ isSubmitting /\ job = None /\ preview = None
    BY <1>u, <2>1
  <2>3. request' = [request EXCEPT ![g] = None]
        /\ error' = TRUE /\ isSubmitting' = FALSE /\ requestRef' = None
        /\ UNCHANGED <<generation, timer, job, preview, mounted, jobs, errors>>
    BY <1>6 DEF submissionFailed, server
  <2>4. PollingTypeOK'
    BY <1>f, <2>3 DEF PollingInv, PollingTypeOK
  <2>5. CurrentOnly'
    BY <1>f, <2>1, <2>2, <2>3 DEF PollingInv, CurrentOnly
  <2>6. Busy' /\ ShowsLatestSubmission'
    BY <1>f, <2>1, <2>2, <2>3 DEF Busy, isActive, ShowsLatestSubmission
  <2> QED BY <2>4, <2>5, <2>6 DEF PollingInv
<1>7. ASSUME NEW g \in Generation, abandoned(g) PROVE PollingInv'
  <2>1. g # generation
    BY <1>7 DEF abandoned, PollingInv, CurrentOnly
  <2>2. request' = [request EXCEPT ![g] = None]
        /\ UNCHANGED <<generation, timer, requestRef, job, preview, error, isSubmitting,
                       mounted, jobs, errors>>
    BY <1>7 DEF abandoned, refs, shown, server
  <2>3. request'[generation] = request[generation]
    BY <1>f, <2>1, <2>2 DEF PollingInv, PollingTypeOK
  <2>4. PollingTypeOK'
    BY <1>f, <2>2 DEF PollingInv, PollingTypeOK
  <2>5. CurrentOnly'
    BY <1>f, <2>2, <2>3 DEF PollingInv, CurrentOnly
  <2>6. Busy' /\ ShowsLatestSubmission'
    BY <2>2, <2>3 DEF PollingInv, Busy, isActive, ShowsLatestSubmission
  <2> QED BY <2>4, <2>5, <2>6 DEF PollingInv
<1>p. ASSUME NEW g \in Generation, Deliver(g, "poll"), g = generation
      PROVE  /\ mounted /\ timer = None /\ ~isSubmitting /\ isActive
             /\ job # None /\ job.id = g /\ job.status \in Active /\ preview = None
  <2>1. mounted /\ timer = None /\ isActive /\ ~isSubmitting
    BY <1>p DEF Deliver, PollingInv, CurrentOnly, Busy
  <2>2. job # None /\ job.status \in Active
    BY <2>1 DEF isActive
  <2>3. job.id = g
    BY <1>p, <2>1, <2>2 DEF PollingInv, ShowsLatestSubmission
  <2>4. preview = None
    <3>1. ASSUME preview # None PROVE FALSE
      <4>1. job.status = "completed"
        BY <2>1, <3>1 DEF PollingInv, ShowsLatestSubmission
      <4> QED BY <2>2, <4>1 DEF Active
    <3> QED BY <3>1
  <2> QED BY <2>1, <2>2, <2>3, <2>4
<1>8. ASSUME NEW g \in Generation, polledFinal(g) PROVE PollingInv'
  <2>1. g = generation /\ request[g].answer \in Final /\ Deliver(g, "poll")
    BY <1>8 DEF polledFinal
  <2>2. mounted /\ timer = None /\ ~isSubmitting /\ preview = None
    BY <1>p, <2>1
  <2>3. request' = [request EXCEPT ![g] = None]
        /\ job' = [id |-> g, status |-> request[g].answer]
        /\ error' = (request[g].answer = "failed")
        /\ preview' = (IF request[g].answer = "completed" THEN g ELSE preview)
        /\ requestRef' = None
        /\ UNCHANGED <<generation, timer, isSubmitting, mounted, jobs, errors>>
    BY <1>8 DEF polledFinal, server
  <2>4. job' \in Shown /\ job' # None /\ job'.id = generation' /\ job'.status \in Final
    BY <1>0, <2>1, <2>3 DEF Shown, Status
  <2>5. preview' \in Generation \cup {None} /\ error' \in BOOLEAN
    BY <2>2, <2>3
  <2>6. PollingTypeOK'
    BY <1>f, <2>3, <2>4, <2>5 DEF PollingInv, PollingTypeOK
  <2>7. CurrentOnly'
    BY <1>f, <2>1, <2>2, <2>3 DEF PollingInv, CurrentOnly
  <2>8. Busy'
    BY <1>f, <2>1, <2>2, <2>3, <2>4 DEF Busy, isActive, Active, Final
  <2>9. ShowsLatestSubmission'
    BY <2>1, <2>2, <2>3, <2>4 DEF ShowsLatestSubmission
  <2> QED BY <2>6, <2>7, <2>8, <2>9 DEF PollingInv
<1>9. ASSUME NEW g \in Generation, polledActive(g) PROVE PollingInv'
  <2>1. g = generation /\ request[g].answer \in Active /\ Deliver(g, "poll")
    BY <1>9 DEF polledActive
  <2>2. mounted /\ timer = None /\ ~isSubmitting /\ preview = None
    BY <1>p, <2>1
  <2>3. request' = [request EXCEPT ![g] = None]
        /\ job' = [id |-> g, status |-> request[g].answer]
        /\ error' = FALSE /\ requestRef' = None /\ timer' = g
        /\ UNCHANGED <<generation, preview, isSubmitting, mounted, jobs, errors>>
    BY <1>9 DEF polledActive, server
  <2>4. job' \in Shown /\ job' # None /\ job'.id = generation' /\ job'.status \in Active
    BY <1>0, <2>1, <2>3 DEF Shown, Status
  <2>5. PollingTypeOK'
    BY <1>f, <2>3, <2>4 DEF PollingInv, PollingTypeOK
  <2>6. CurrentOnly'
    BY <1>f, <2>1, <2>2, <2>3 DEF PollingInv, CurrentOnly
  <2>7. Busy'
    BY <1>0, <1>f, <2>1, <2>2, <2>3, <2>4 DEF Busy, isActive
  <2>8. ShowsLatestSubmission'
    BY <2>2, <2>3, <2>4 DEF ShowsLatestSubmission
  <2> QED BY <2>5, <2>6, <2>7, <2>8 DEF PollingInv
<1>10. ASSUME NEW g \in Generation, pollFailed(g) PROVE PollingInv'
  <2>1. g = generation /\ Deliver(g, "poll")
    BY <1>10 DEF pollFailed
  <2>2. mounted /\ timer = None /\ ~isSubmitting /\ isActive /\ preview = None
    BY <1>p, <2>1
  <2>3. request' = [request EXCEPT ![g] = None]
        /\ error' = TRUE /\ requestRef' = None /\ timer' = g
        /\ UNCHANGED <<generation, job, preview, isSubmitting, mounted, jobs, errors>>
    BY <1>10 DEF pollFailed, server
  <2>4. PollingTypeOK'
    BY <1>f, <2>3 DEF PollingInv, PollingTypeOK
  <2>5. CurrentOnly'
    BY <1>f, <2>1, <2>2, <2>3 DEF PollingInv, CurrentOnly
  <2>6. Busy'
    BY <1>0, <1>f, <2>1, <2>2, <2>3 DEF Busy, isActive
  <2>7. ShowsLatestSubmission'
    BY <2>2, <2>3 DEF PollingInv, ShowsLatestSubmission
  <2> QED BY <2>4, <2>5, <2>6, <2>7 DEF PollingInv
<1>11. ASSUME NEW g \in Generation, Server(g) PROVE PollingInv'
  <2>1. UNCHANGED <<generation, timer, requestRef, job, preview, error, isSubmitting, mounted>>
    BY <1>11 DEF Server, createJob, readJob, failRequest, runJob, loseJob, refs, shown, server
  <2>2. /\ request' \in [Generation -> Request \cup {None}]
        /\ \A h \in Generation :
              /\ request'[h] = None <=> request[h] = None
              /\ request[h] # None => /\ request'[h].kind = request[h].kind
                                      /\ request'[h].aborted = request[h].aborted
    <3>1. CASE \E a \in Status \cup {"error", None} : request[g] # None /\ Answer(g, a)
      BY <3>1, AnswerType DEF PollingInv
    <3>2. CASE request' = request
      BY <3>2 DEF PollingInv, PollingTypeOK
    <3>3. jobs[g] \in Status \cup {"error", None}
      BY DEF PollingInv, PollingTypeOK
    <3> QED BY <1>11, <3>1, <3>2, <3>3
            DEF Server, createJob, readJob, failRequest, runJob, loseJob, Pending, Status, Active
  <2>3. jobs' \in [Generation -> Status \cup {"error", None}] /\ errors' \in 0..MaxErrors
    BY <1>11, PollingAssumption
       DEF Server, createJob, readJob, failRequest, runJob, loseJob, server, PollingInv, PollingTypeOK,
           Status, Active, Final
  <2>4. PollingTypeOK'
    BY <2>1, <2>2, <2>3 DEF PollingInv, PollingTypeOK
  <2>5. CurrentOnly'
    BY <2>1, <2>2 DEF PollingInv, CurrentOnly, PollingTypeOK
  <2>6. Busy' /\ ShowsLatestSubmission'
    BY <2>1, <2>2 DEF PollingInv, Busy, isActive, ShowsLatestSubmission, PollingTypeOK
  <2> QED BY <2>4, <2>5, <2>6 DEF PollingInv
<1>12. CASE UNCHANGED pollingVars
  BY <1>12 DEF pollingVars, refs, shown, server, PollingInv, PollingTypeOK, CurrentOnly, Busy,
               isActive, ShowsLatestSubmission
<1> QED
  BY <1>1, <1>2, <1>3, <1>4, <1>5, <1>6, <1>7, <1>8, <1>9, <1>10, <1>11, <1>12
     DEF PollingNext, Callback

(* The hook as it is mounted. *)
LEMMA PollingInitInv == PollingInit => PollingInv
<1> SUFFICES ASSUME PollingInit PROVE PollingInv
  OBVIOUS
<1>0. 0 \in Generation /\ 0 \in 0..MaxErrors
  BY PollingAssumption DEF Generation
<1>1. PollingTypeOK
  BY <1>0 DEF PollingInit, PollingTypeOK
<1>2. CurrentOnly /\ Busy /\ ShowsLatestSubmission
  BY <1>0 DEF PollingInit, CurrentOnly, Busy, isActive, ShowsLatestSubmission
<1> QED BY <1>1, <1>2 DEF PollingInv

(* The hook keeps its invariant, whoever calls submit and reset, and when. *)
THEOREM PollingInvariant == PollingSpec => []PollingInv
  BY PollingInitInv, PollingStep, PTL DEF PollingSpec

(* usePreviewJob never shows the job or the preview of an abandoned        *)
(* submission, for any number of submissions, failures and reorderings.    *)
THEOREM LatestSubmissionShown == PollingSpec => []ShowsLatestSubmission
<1>1. PollingInv => ShowsLatestSubmission
  BY DEF PollingInv
<1> QED BY <1>1, PollingInvariant, PTL

(* A preview in progress always has exactly one request or the timer to    *)
(* wait for, and nothing is left running otherwise.                        *)
THEOREM AlwaysOneThing == PollingSpec => []OneThingInProgress
<1>1. PollingInv => OneThingInProgress
  <2> SUFFICES ASSUME PollingInv PROVE OneThingInProgress
    OBVIOUS
  <2>1. Running <=> request[generation] # None
    BY DEF Running, PollingInv, CurrentOnly
  <2> QED BY <2>1 DEF PollingInv, CurrentOnly, Busy, OneThingInProgress
<1> QED BY <1>1, PollingInvariant, PTL

-----------------------------------------------------------------------------
(* What is in progress or on screen is the pending draft, and the form's. *)
OnScreen == isActive \/ ~NothingShown
OfTheForm ==
    mounted /\ OnScreen => /\ pending # None
                           /\ parsed[generation] = pending /\ draft = pending

(* A tick is for the preview on screen. *)
TickIsCurrent == previewConfirmed => preview # None /\ confirmedOn = preview

(* What a save holds on to is not touched by later submissions. *)
SaveIsStable == saving # None => saving.preview <= generation

WorkspaceTypes ==
    /\ draft \in Drafts \cup {None} /\ pending \in Drafts \cup {None}
    /\ previewConfirmed \in BOOLEAN
    /\ saving \in Save \cup {None}
    /\ parsed \in [Generation -> Drafts \cup {None}]
    /\ confirmedOn \in Generation \cup {None}

WorkspaceInv ==
    /\ PollingInv /\ WorkspaceTypes
    /\ OfTheForm /\ TickIsCurrent /\ SaveIsStable
    /\ SavedPairMatches /\ SavedWasConfirmed

(* The hook's own steps bring nothing on screen that was not in progress,  *)
(* and do not replace a preview.                                           *)
LEMMA HookBringsNothing ==
    ASSUME PollingInv,
           unmount \/ timerFires \/ \E g \in Generation : Callback(g) \/ Server(g)
    PROVE  /\ generation' >= generation
           /\ mounted' => mounted /\ generation' = generation /\ (OnScreen' => OnScreen)
           /\ preview # None => preview' = preview
<1>0. generation \in Nat
  BY PollingAssumption DEF PollingInv, PollingTypeOK, Generation
<1>1. CASE unmount
  BY <1>0, <1>1 DEF unmount, stopCurrentRequest, shown
<1>2. CASE timerFires
  BY <1>0, <1>2 DEF timerFires, shown, OnScreen, isActive, NothingShown
<1>3. ASSUME NEW g \in Generation, Server(g)
      PROVE  UNCHANGED <<generation, mounted, job, preview, error, isSubmitting>>
  BY <1>3 DEF Server, createJob, readJob, failRequest, runJob, loseJob, refs, shown
<1>4. ASSUME NEW g \in Generation, abandoned(g)
      PROVE  UNCHANGED <<generation, mounted, job, preview, error, isSubmitting>>
  BY <1>4 DEF abandoned, refs, shown
<1>5. ASSUME NEW g \in Generation,
             submitted(g) \/ submissionFailed(g) \/ polledFinal(g) \/ polledActive(g)
             \/ pollFailed(g)
      PROVE  /\ generation' = generation /\ mounted' = mounted
             /\ mounted => OnScreen
             /\ preview # None => preview' = preview
  <2>1. g = generation /\ request[g] # None
    BY <1>5 DEF submitted, submissionFailed, polledFinal, polledActive, pollFailed, Deliver
  <2>2. generation' = generation /\ mounted' = mounted
    BY <1>5 DEF submitted, submissionFailed, polledFinal, polledActive, pollFailed
  <2>3. mounted /\ isActive
    BY <2>1 DEF PollingInv, CurrentOnly, Busy
  <2>4. ASSUME preview # None PROVE FALSE
    <3>1. preview \in Generation /\ job = [id |-> preview, status |-> "completed"]
      BY <2>3, <2>4 DEF PollingInv, PollingTypeOK, ShowsLatestSubmission
    <3>2. job \in Shown /\ job.status = "completed"
      BY <3>1 DEF Shown, Status, Final
    <3>3. job # None
      BY <3>2, PollingAssumption
    <3> QED BY <2>3, <3>2, <3>3 DEF isActive, Active, PollingInv, Busy
  <2> QED BY <2>2, <2>3, <2>4 DEF OnScreen
<1>6. ASSUME UNCHANGED <<generation, mounted, job, preview, error, isSubmitting>>
      PROVE  OnScreen' => OnScreen
  BY <1>6 DEF OnScreen, isActive, NothingShown
<1> QED BY <1>0, <1>1, <1>2, <1>3, <1>4, <1>5, <1>6 DEF Callback

(* Every event of the workspace is a step of the hook, or none. *)
LEMMA WorkspaceUsesHook == Next => [PollingNext]_pollingVars
<1> SUFFICES ASSUME Next PROVE [PollingNext]_pollingVars
  OBVIOUS
<1>1. ASSUME NEW d, EditDraft(d) PROVE reset \/ UNCHANGED pollingVars
  BY <1>1 DEF EditDraft
<1>2. ASSUME Preview \/ Retry PROVE submit
  BY <1>2 DEF Preview, Retry, handlePreview
<1>3. ASSUME Cancel \/ Saved PROVE reset
  BY <1>3 DEF Cancel, Saved
<1>4. ASSUME NEW t, Confirm(t) PROVE UNCHANGED pollingVars
  BY <1>4 DEF Confirm
<1>5. ASSUME SaveStrategy \/ SaveEnds PROVE UNCHANGED pollingVars
  BY <1>5 DEF SaveStrategy, SaveEnds
<1>6. ASSUME HookStep PROVE PollingNext
  BY <1>6 DEF HookStep, PollingNext
<1> QED BY <1>1, <1>2, <1>3, <1>4, <1>5, <1>6 DEF Next, PollingNext

(* Every event of the workspace keeps drafts, ticks and saves together. *)
LEMMA WorkspaceStep == WorkspaceInv /\ [Next]_vars => WorkspaceInv'
<1> SUFFICES ASSUME WorkspaceInv, [Next]_vars PROVE WorkspaceInv'
  OBVIOUS
<1>0. PollingInv'
  <2>1. [PollingNext]_pollingVars
    BY WorkspaceUsesHook DEF vars
  <2> QED BY <2>1, PollingStep DEF WorkspaceInv
<1>t. /\ generation \in Generation /\ Generation \subseteq Nat
      /\ saving # None => saving \in Save /\ saving.preview \in Generation
      /\ None \notin Save /\ None \notin Nat /\ None \notin Drafts
  BY PollingAssumption, DraftAssumption
     DEF WorkspaceInv, WorkspaceTypes, PollingInv, PollingTypeOK, Generation, Save
<1>g. ASSUME saving # None, generation' \in Nat, generation' >= generation
      PROVE  /\ saving.preview \in Generation /\ saving.preview <= generation'
             /\ generation' > generation => saving.preview # generation'
  <2>1. saving.preview \in Nat /\ generation \in Nat /\ saving.preview <= generation
    BY <1>g, <1>t DEF WorkspaceInv, SaveIsStable
  <2> QED BY <1>g, <1>t, <2>1
<1>r. ASSUME reset, previewConfirmed' = FALSE, parsed' = parsed,
             saving' = saving \/ (saving # None /\ saving' = [saving EXCEPT !.at = "reloading"])
      PROVE  OfTheForm' /\ TickIsCurrent' /\ SaveIsStable' /\ SavedPairMatches'
             /\ SavedWasConfirmed' /\ saving' \in Save \cup {None}
  <2>1. ~OnScreen'
    BY <1>r DEF reset, OnScreen, isActive, NothingShown
  <2>2. generation' = generation + 1
    BY <1>r DEF reset, stopCurrentRequest
  <2>3. \/ saving' = None /\ saving = None
        \/ /\ saving # None /\ saving' \in Save
           /\ saving'.preview = saving.preview /\ saving'.draft = saving.draft
           /\ saving'.confirmedOn = saving.confirmedOn
    BY <1>r, <1>t DEF Save
  <2>4. SaveIsStable'
    <3>1. generation' \in Nat /\ generation' >= generation
      BY <1>t, <2>2
    <3> QED BY <1>g, <2>3, <3>1 DEF SaveIsStable
  <2>5. SavedPairMatches' /\ SavedWasConfirmed'
    BY <1>r, <2>3 DEF WorkspaceInv, SavedPairMatches, SavedWasConfirmed
  <2> QED BY <1>r, <2>1, <2>3, <2>4, <2>5 DEF OfTheForm, TickIsCurrent
<1>q. ASSUME UNCHANGED <<parsed, saving>>, generation' >= generation
      PROVE  SaveIsStable' /\ SavedPairMatches' /\ SavedWasConfirmed'
  <2>1. generation' \in Nat
    BY <1>0, <1>t DEF PollingInv, PollingTypeOK, Generation
  <2>2. SaveIsStable'
    BY <1>g, <1>q, <2>1 DEF SaveIsStable
  <2> QED BY <1>q, <2>2 DEF WorkspaceInv, SavedPairMatches, SavedWasConfirmed
<1>1. ASSUME NEW d \in Drafts \cup {None}, EditDraft(d) PROVE WorkspaceInv'
  <2>1. WorkspaceTypes'
    BY <1>1 DEF EditDraft, WorkspaceInv, WorkspaceTypes
  <2>2. CASE reset /\ previewConfirmed' = FALSE
    BY <1>0, <1>1, <1>r, <2>1, <2>2 DEF EditDraft, WorkspaceInv
  <2>3. CASE NothingShown /\ UNCHANGED <<pollingVars, previewConfirmed>>
    <3>1. ~OnScreen' /\ UNCHANGED <<generation, preview, previewConfirmed, confirmedOn,
                                    parsed, saving>>
      BY <1>1, <2>3 DEF EditDraft, pollingVars, refs, shown, OnScreen, isActive, NothingShown
    <3>2. SaveIsStable' /\ SavedPairMatches' /\ SavedWasConfirmed'
      BY <1>q, <1>t, <3>1
    <3> QED BY <1>0, <2>1, <3>1, <3>2 DEF WorkspaceInv, OfTheForm, TickIsCurrent
  <2> QED BY <1>1, <2>2, <2>3 DEF EditDraft
<1>2. ASSUME Preview \/ Retry PROVE WorkspaceInv'
  <2>1. PICK d : handlePreview(d) /\ d = draft
    <3>1. ASSUME Retry PROVE draft = pending
      <4>1. mounted /\ OnScreen
        BY <3>1 DEF Retry, handlePreview, submit, OnScreen, NothingShown
      <4> QED BY <4>1 DEF WorkspaceInv, OfTheForm
    <3> QED BY <1>2, <3>1 DEF Preview, Retry
  <2>2. /\ d # None /\ d \in Drafts /\ pending' = d /\ draft' = d
        /\ previewConfirmed' = FALSE /\ parsed' = [parsed EXCEPT ![generation'] = d]
        /\ saving' = saving /\ confirmedOn' = confirmedOn /\ generation' = generation + 1
    BY <2>1 DEF handlePreview, submit, stopCurrentRequest, WorkspaceInv, WorkspaceTypes
  <2>3. generation' \in Generation /\ parsed \in [Generation -> Drafts \cup {None}]
    BY <1>0 DEF PollingInv, PollingTypeOK, WorkspaceInv, WorkspaceTypes
  <2>4. parsed'[generation'] = d /\ parsed' \in [Generation -> Drafts \cup {None}]
        /\ \A g \in Generation : g # generation' => parsed'[g] = parsed[g]
    BY <2>2, <2>3
  <2>5. WorkspaceTypes'
    BY <2>2, <2>4 DEF WorkspaceInv, WorkspaceTypes
  <2>6. OfTheForm' /\ TickIsCurrent'
    BY <2>2, <2>4 DEF OfTheForm, TickIsCurrent
  <2>7. ASSUME saving # None
        PROVE  saving.preview <= generation' /\ parsed'[saving.preview] = parsed[saving.preview]
    <3>1. generation' \in Nat /\ generation' > generation
      BY <1>t, <2>2
    <3>2. generation' >= generation
      BY <1>t, <2>2
    <3>3. saving.preview \in Generation /\ saving.preview <= generation'
          /\ saving.preview # generation'
      BY <1>g, <2>7, <3>1, <3>2
    <3> QED BY <2>4, <3>3
  <2>8. SaveIsStable' /\ SavedPairMatches' /\ SavedWasConfirmed'
    BY <2>2, <2>7 DEF WorkspaceInv, SaveIsStable, SavedPairMatches, SavedWasConfirmed
  <2> QED BY <1>0, <2>5, <2>6, <2>8 DEF WorkspaceInv
<1>3. CASE Cancel
  <2>1. WorkspaceTypes'
    BY <1>3 DEF Cancel, WorkspaceInv, WorkspaceTypes
  <2> QED BY <1>0, <1>3, <1>r, <2>1 DEF Cancel, WorkspaceInv
<1>4. ASSUME NEW tick \in BOOLEAN, Confirm(tick) PROVE WorkspaceInv'
  <2>1. UNCHANGED <<generation, preview, job, error, isSubmitting, mounted, draft, pending,
                    saving, parsed>>
        /\ previewConfirmed' = tick /\ preview # None
        /\ confirmedOn' = (IF tick THEN preview ELSE None)
    BY <1>4 DEF Confirm, pollingVars, refs, shown
  <2>2. preview \in Generation
    BY <2>1 DEF WorkspaceInv, PollingInv, PollingTypeOK
  <2>3. WorkspaceTypes'
    BY <2>1, <2>2 DEF WorkspaceInv, WorkspaceTypes
  <2>4. OfTheForm' /\ TickIsCurrent'
    BY <2>1 DEF WorkspaceInv, OfTheForm, TickIsCurrent, OnScreen, isActive, NothingShown
  <2>5. SaveIsStable' /\ SavedPairMatches' /\ SavedWasConfirmed'
    BY <1>q, <1>t, <2>1
  <2> QED BY <1>0, <2>3, <2>4, <2>5 DEF WorkspaceInv
<1>5. CASE SaveStrategy
  <2>1. /\ UNCHANGED <<generation, preview, job, error, isSubmitting, mounted, draft, pending,
                       previewConfirmed, parsed, confirmedOn>>
        /\ mounted /\ preview # None
        /\ parsed[preview] \in NeedsConfirmation => previewConfirmed
        /\ saving' = [draft |-> pending, preview |-> preview, confirmedOn |-> confirmedOn,
                      at |-> "posting"]
    BY <1>5 DEF SaveStrategy, pollingVars, refs, shown
  <2>2. preview = generation /\ OnScreen
    BY <2>1 DEF WorkspaceInv, PollingInv, ShowsLatestSubmission, OnScreen, NothingShown
  <2>3. parsed[preview] = pending /\ pending \in Drafts
    BY <2>1, <2>2 DEF WorkspaceInv, OfTheForm, WorkspaceTypes
  <2>4. saving' \in Save
    BY <1>t, <2>1, <2>2, <2>3 DEF WorkspaceInv, WorkspaceTypes, Save
  <2>5. WorkspaceTypes'
    BY <2>1, <2>4 DEF WorkspaceInv, WorkspaceTypes
  <2>6. OfTheForm' /\ TickIsCurrent'
    BY <2>1 DEF WorkspaceInv, OfTheForm, TickIsCurrent, OnScreen, isActive, NothingShown
  <2>7. SaveIsStable' /\ SavedPairMatches'
    BY <1>t, <2>1, <2>2, <2>3 DEF SaveIsStable, SavedPairMatches
  <2>8. SavedWasConfirmed'
    BY <2>1, <2>3 DEF WorkspaceInv, TickIsCurrent, SavedWasConfirmed
  <2> QED BY <1>0, <2>5, <2>6, <2>7, <2>8 DEF WorkspaceInv
<1>6. CASE Saved
  <2>1. UNCHANGED <<draft, pending, parsed, confirmedOn>> /\ previewConfirmed' = FALSE
        /\ reset /\ saving # None /\ saving' = [saving EXCEPT !.at = "reloading"]
    BY <1>6 DEF Saved
  <2>2. OfTheForm' /\ TickIsCurrent' /\ SaveIsStable' /\ SavedPairMatches'
        /\ SavedWasConfirmed' /\ saving' \in Save \cup {None}
    BY <1>r, <2>1
  <2>3. WorkspaceTypes'
    BY <2>1, <2>2 DEF WorkspaceInv, WorkspaceTypes
  <2> QED BY <1>0, <2>2, <2>3 DEF WorkspaceInv
<1>7. CASE SaveEnds
  <2>1. saving' = None
        /\ UNCHANGED <<generation, preview, job, error, isSubmitting, mounted, draft, pending,
                       previewConfirmed, parsed, confirmedOn>>
    BY <1>7 DEF SaveEnds, pollingVars, refs, shown
  <2>2. WorkspaceTypes' /\ SaveIsStable' /\ SavedPairMatches' /\ SavedWasConfirmed'
    BY <2>1 DEF WorkspaceInv, WorkspaceTypes, SaveIsStable, SavedPairMatches, SavedWasConfirmed
  <2>3. OfTheForm' /\ TickIsCurrent'
    BY <2>1 DEF WorkspaceInv, OfTheForm, TickIsCurrent, OnScreen, isActive, NothingShown
  <2> QED BY <1>0, <2>2, <2>3 DEF WorkspaceInv
<1>8. CASE HookStep
  <2>1. UNCHANGED <<draft, pending, previewConfirmed, saving, parsed, confirmedOn>>
    BY <1>8 DEF HookStep, workspace
  <2>2. /\ generation' >= generation
        /\ mounted' => mounted /\ generation' = generation /\ (OnScreen' => OnScreen)
        /\ preview # None => preview' = preview
    BY <1>8, HookBringsNothing DEF HookStep, WorkspaceInv
  <2>3. WorkspaceTypes'
    BY <2>1 DEF WorkspaceInv, WorkspaceTypes
  <2>4. OfTheForm' /\ TickIsCurrent'
    BY <2>1, <2>2 DEF WorkspaceInv, OfTheForm, TickIsCurrent
  <2>5. SaveIsStable' /\ SavedPairMatches' /\ SavedWasConfirmed'
    BY <1>q, <2>1, <2>2
  <2> QED BY <1>0, <2>3, <2>4, <2>5 DEF WorkspaceInv
<1>9. CASE UNCHANGED vars
  <2>1. UNCHANGED <<generation, preview, job, error, isSubmitting, mounted, draft, pending,
                    previewConfirmed, saving, parsed, confirmedOn>>
    BY <1>9 DEF vars, pollingVars, refs, shown, workspace
  <2>2. OfTheForm' /\ TickIsCurrent' /\ WorkspaceTypes'
    BY <2>1 DEF WorkspaceInv, OfTheForm, TickIsCurrent, OnScreen, isActive, NothingShown,
                WorkspaceTypes
  <2>3. SaveIsStable' /\ SavedPairMatches' /\ SavedWasConfirmed'
    BY <1>q, <1>t, <2>1
  <2> QED BY <1>0, <2>2, <2>3 DEF WorkspaceInv
<1> QED
  BY <1>1, <1>2, <1>3, <1>4, <1>5, <1>6, <1>7, <1>8, <1>9 DEF Next

(* The workspace as it is mounted. *)
LEMMA WorkspaceInit == Init => WorkspaceInv
<1> SUFFICES ASSUME Init PROVE WorkspaceInv
  OBVIOUS
<1>1. PollingInv
  BY PollingInitInv DEF Init
<1>2. WorkspaceTypes
  BY DEF Init, WorkspaceTypes
<1>3. OfTheForm /\ TickIsCurrent /\ SaveIsStable /\ SavedPairMatches /\ SavedWasConfirmed
  BY DEF Init, PollingInit, OfTheForm, OnScreen, isActive, NothingShown, TickIsCurrent,
         SaveIsStable, SavedPairMatches, SavedWasConfirmed
<1> QED BY <1>1, <1>2, <1>3 DEF WorkspaceInv

(* The workspace keeps drafts, previews, ticks and saves together. *)
THEOREM WorkspaceInvariant == Spec => []WorkspaceInv
  BY WorkspaceInit, WorkspaceStep, PTL DEF Spec

(* handleSavePreview always sends a draft with the specification that was  *)
(* parsed from it.                                                         *)
THEOREM SavedPairsMatch == Spec => []SavedPairMatches
<1>1. WorkspaceInv => SavedPairMatches
  BY DEF WorkspaceInv
<1> QED BY <1>1, WorkspaceInvariant, PTL

(* A strategy whose assumptions need confirmation is saved only with a     *)
(* tick that was given to this very preview.                               *)
THEOREM SavesWereConfirmed == Spec => []SavedWasConfirmed
<1>1. WorkspaceInv => SavedWasConfirmed
  BY DEF WorkspaceInv
<1> QED BY <1>1, WorkspaceInvariant, PTL

(* The review on screen is always the review of the draft in the form. *)
THEOREM ReviewsMatchTheForm == Spec => []ReviewMatchesForm
<1>1. WorkspaceInv => ReviewMatchesForm
  <2> SUFFICES ASSUME WorkspaceInv, mounted, preview # None PROVE parsed[preview] = draft
    BY DEF ReviewMatchesForm
  <2>1. preview = generation /\ OnScreen
    BY DEF WorkspaceInv, PollingInv, ShowsLatestSubmission, OnScreen, NothingShown
  <2> QED BY <2>1 DEF WorkspaceInv, OfTheForm
<1> QED BY <1>1, WorkspaceInvariant, PTL
=============================================================================
