-------------------------- MODULE StrategyWorkspace --------------------------
(***************************************************************************)
(* StrategyWorkspace and StrategyCreateForm (frontend/app/dashboard): the  *)
(* draft in the form, the review of its preview, the confirmation box and  *)
(* saving, around the usePreviewJob hook of PreviewPolling.                *)
(*                                                                         *)
(* A draft is a name and a description; the empty one is None.  The        *)
(* saved-strategies list of the same component is StrategyLibrary.         *)
(***************************************************************************)
EXTENDS PreviewPolling

CONSTANTS
    Drafts,             \* what the user may type
    NeedsConfirmation   \* drafts whose parse has requires_confirmation

(* A save: the draft and the preview it sends, the preview that was        *)
(* confirmed, and how far it is.                                           *)
Save == [draft : Drafts, preview : Generation, confirmedOn : Generation \cup {None},
         at : {"posting", "reloading"}]

ASSUME DraftAssumption ==
    /\ NeedsConfirmation \subseteq Drafts
    /\ None \notin Drafts /\ None \notin Save

VARIABLES
    draft,              \* name and sourceText of the form
    pending,            \* pendingName and pendingSourceText
    previewConfirmed,
    saving,             \* the save in flight, None unless isSavingPreview
    parsed,             \* the draft the server parsed for each generation
    confirmedOn         \* the preview on screen when the box was ticked

workspace == <<draft, pending, previewConfirmed, saving, parsed, confirmedOn>>
vars == <<pollingVars, workspace>>

Init ==
    /\ PollingInit
    /\ draft = None /\ pending = None
    /\ previewConfirmed = FALSE /\ saving = None
    /\ parsed = [g \in Generation |-> None] /\ confirmedOn = None

-----------------------------------------------------------------------------
NothingShown == job = None /\ preview = None /\ ~error

(* Mutant: editing the form leaves the review on screen. *)
EditDraftKeepingReview(d) ==
    /\ mounted /\ ~isActive /\ d # draft
    /\ draft' = d
    /\ UNCHANGED <<pollingVars, pending, previewConfirmed, saving, parsed, confirmedOn>>

(* A change of the form, its Reset button included: invalidatePreview. *)
EditDraft(d) ==
    /\ mounted /\ ~isActive /\ d # draft
    /\ draft' = d
    /\ \/ /\ ~NothingShown
          /\ reset
          /\ previewConfirmed' = FALSE
       \/ /\ NothingShown
          /\ UNCHANGED <<pollingVars, previewConfirmed>>
    /\ UNCHANGED <<pending, saving, parsed, confirmedOn>>

(* Mutant: a new preview keeps the tick of the one before. *)
handlePreviewKeepingTick(d) ==
    /\ d # None
    /\ pending' = d
    /\ submit
    /\ parsed' = [parsed EXCEPT ![generation'] = d]
    /\ UNCHANGED <<draft, previewConfirmed, saving, confirmedOn>>

(* Mutant: only the first preview sets the pending draft. *)
handlePreviewKeepingPending(d) ==
    /\ d # None
    /\ pending' = IF pending = None THEN d ELSE pending
    /\ previewConfirmed' = FALSE
    /\ submit
    /\ parsed' = [parsed EXCEPT ![generation'] = d]
    /\ UNCHANGED <<draft, saving, confirmedOn>>

(* handlePreview: a draft that is not valid only sets the notice. *)
handlePreview(d) ==
    /\ d # None
    /\ pending' = d
    /\ previewConfirmed' = FALSE
    /\ submit
    /\ parsed' = [parsed EXCEPT ![generation'] = d]
    /\ UNCHANGED <<draft, saving, confirmedOn>>

(* "Parse and Backtest" *)
Preview == ~isActive /\ handlePreview(draft)

(* "Retry preview", shown for a failed job or submission. *)
Retry ==
    /\ \/ job # None /\ job.status = "failed"
       \/ job = None /\ error
    /\ handlePreview(pending)

(* "Cancel" of the progress panel; "Cancel" and "Edit prompt" of the       *)
(* review, which are disabled while saving.                                *)
Cancel ==
    /\ isActive \/ (preview # None /\ saving = None)
    /\ reset
    /\ previewConfirmed' = FALSE
    /\ UNCHANGED <<draft, pending, saving, parsed, confirmedOn>>

(* The confirmation box of the review. *)
Confirm(tick) ==
    /\ mounted /\ preview # None /\ parsed[preview] \in NeedsConfirmation
    /\ previewConfirmed' = tick /\ tick # previewConfirmed
    /\ confirmedOn' = IF tick THEN preview ELSE None
    /\ UNCHANGED <<pollingVars, draft, pending, saving, parsed>>

(* "Save Strategy": handleSavePreview up to its first await. *)
SaveStrategy ==
    /\ mounted /\ preview # None
    /\ saving = None /\ (parsed[preview] \in NeedsConfirmation => previewConfirmed)
    /\ saving' = [draft |-> pending, preview |-> preview, confirmedOn |-> confirmedOn,
                  at |-> "posting"]
    /\ UNCHANGED <<pollingVars, draft, pending, previewConfirmed, parsed, confirmedOn>>

(* The strategy is saved: the preview is reset, whichever is shown now. *)
Saved ==
    /\ saving # None /\ saving.at = "posting"
    /\ reset
    /\ previewConfirmed' = FALSE
    /\ saving' = [saving EXCEPT !.at = "reloading"]
    /\ UNCHANGED <<draft, pending, parsed, confirmedOn>>

(* The list was reloaded, or the save failed: setIsSavingPreview(false). *)
SaveEnds ==
    /\ mounted
    /\ saving # None
    /\ saving' = None
    /\ UNCHANGED <<pollingVars, draft, pending, previewConfirmed, parsed, confirmedOn>>

(* Answers, timers, leaving the page and the server are the hook's. *)
HookStep ==
    /\ \/ unmount \/ timerFires
       \/ \E g \in Generation : Callback(g) \/ Server(g)
    /\ UNCHANGED workspace

Next ==
    \/ \E d \in Drafts \cup {None} : EditDraft(d)
    \/ Preview \/ Retry \/ Cancel
    \/ \E tick \in BOOLEAN : Confirm(tick)
    \/ SaveStrategy \/ Saved \/ SaveEnds
    \/ HookStep

Spec == Init /\ [][Next]_vars

(* The hook's fairness; nobody has to press a button. *)
FairSpec == Spec /\ PollingFairness

-----------------------------------------------------------------------------
(* A draft is saved with the specification that was parsed from it: the    *)
(* pending draft is read when Save is pressed, long after the submission   *)
(* whose result is on screen.                                              *)
SavedPairMatches == saving # None => parsed[saving.preview] = saving.draft

(* What is saved was confirmed while it was on screen: a tick never        *)
(* carries over to another preview with other assumptions.                 *)
SavedWasConfirmed ==
    saving # None /\ saving.draft \in NeedsConfirmation
        => saving.confirmedOn = saving.preview

(* The review on screen is the review of what the form says. *)
ReviewMatchesForm == mounted /\ preview # None => parsed[preview] = draft
=============================================================================
