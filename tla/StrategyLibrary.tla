--------------------------- MODULE StrategyLibrary ---------------------------
(***************************************************************************)
(* The saved-strategies list of StrategyWorkspace (frontend/app/dashboard/ *)
(* strategy-workspace.tsx) over the strategy routes of the API             *)
(* (backend/app/api/routes/strategies.py): saving, editing, deleting and   *)
(* the reloads that follow them, in one browser tab of one user.           *)
(*                                                                         *)
(* A strategy's contents are a version number.  Reloads are numbered in    *)
(* the order they are issued; answers arrive in any order.                 *)
(***************************************************************************)
EXTENDS Integers

CONSTANTS
    Ids,            \* strategies that may exist
    Existing,       \* those that exist when the page is opened
    MaxVersion,     \* bound on the edits of a strategy
    MaxLoads,       \* bound on the reloads
    MaxErrors,      \* bound on the failed requests
    None

Version == 0..MaxVersion
Load == 1..MaxLoads
Stage == {"sent", "applied", "error", "reloading"}

(* What handleEdit or handleDelete is doing, and a reload. *)
Mutation == [kind : {"edit", "delete"}, id : Ids, at : Stage]
Reload == [owner : {"page", "mutation", "save"},
           at : {"sent", "answered", "error", "delivered"},
           rows : [Ids -> Version \cup {None}]]

ASSUME LibraryAssumption ==
    /\ Existing \subseteq Ids
    /\ MaxVersion \in Nat /\ MaxLoads \in Nat \ {0} /\ MaxErrors \in Nat
    /\ None \notin Int /\ None \notin Stage
    /\ None \notin Mutation /\ None \notin Reload

VARIABLES
    db,             \* the user's rows of public.strategies
    strategies, isLoading, loadError,
    isMutating,     \* the edit or deletion under way, or None
    isSaving,       \* how far handleSavePreview is, or None
    loads,          \* the reloads so far
    last,           \* the reload the list was last set from, 0 at first
    errors,         \* failures so far
    late,           \* requests that failed for the client while the server had them
    lost            \* since the last reload a change was applied and reported as failed

Unused == -2    \* an identifier gen_random_uuid has not given out yet
Deleted == -1

vars == <<db, strategies, isLoading, loadError, isMutating, isSaving, loads,
          last, errors, late, lost>>

Empty == [i \in Ids |-> None]
NewReload(owner) == [owner |-> owner, at |-> "sent", rows |-> Empty]

(* The page is mounted and its first reload is under way. *)
Init ==
    /\ db = [i \in Ids |-> IF i \in Existing THEN 0 ELSE Unused]
    /\ strategies = Empty
    /\ isLoading = TRUE /\ loadError = FALSE
    /\ isMutating = None /\ isSaving = None
    /\ loads = [n \in Load |-> IF n = 1 THEN NewReload("page") ELSE None]
    /\ last = 0 /\ errors = 0 /\ late = {} /\ lost = FALSE

-----------------------------------------------------------------------------
(* loadStrategies, up to the await of listStrategies. *)
loadStrategies(owner) ==
    \E n \in Load :
        /\ loads[n] = None /\ \A k \in 1..(n - 1) : loads[k] # None
        /\ loads' = [loads EXCEPT ![n] = NewReload(owner)]
        /\ isLoading' = TRUE /\ loadError' = FALSE
        /\ lost' = FALSE

(* The Refresh button, and "Try again" beside an error. *)
Refresh ==
    /\ ~isLoading
    /\ isMutating = None \/ loadError
    /\ loadStrategies("page")
    /\ UNCHANGED <<db, strategies, isMutating, isSaving, last, errors, late>>

(* list_strategies *)
Rows == [i \in Ids |-> IF db[i] \in Version THEN db[i] ELSE None]

(* GET /strategies reads the rows. *)
ReadRows(n) ==
    /\ loads[n] # None /\ loads[n].at = "sent"
    /\ loads' = [loads EXCEPT ![n].at = "answered", ![n].rows = Rows]
    /\ UNCHANGED <<db, strategies, isLoading, loadError, isMutating, isSaving, last,
                   errors, late, lost>>

(* A reload fails. *)
FailReload(n) ==
    /\ loads[n] # None /\ loads[n].at \in {"sent", "answered"}
    /\ errors < MaxErrors /\ errors' = errors + 1
    /\ loads' = [loads EXCEPT ![n].at = "error"]
    /\ UNCHANGED <<db, strategies, isLoading, loadError, isMutating, isSaving, last, late, lost>>

Answered(n) == loads[n] # None /\ loads[n].at \in {"answered", "error"}

(* The answer of a reload, and the end of the handler that waits for it. *)
DeliverReload(n) ==
    /\ Answered(n)
    /\ IF loads[n].at = "error"
       THEN loadError' = TRUE /\ UNCHANGED <<strategies, last>>
       ELSE strategies' = loads[n].rows /\ last' = n /\ UNCHANGED loadError
    /\ isLoading' = FALSE
    /\ isMutating' = IF loads[n].owner = "mutation" THEN None ELSE isMutating
    /\ isSaving' = IF loads[n].owner = "save" THEN None ELSE isSaving
    /\ loads' = [loads EXCEPT ![n].at = "delivered"]
    /\ UNCHANGED <<db, errors, late, lost>>

(* "Save changes" or "Delete" on a row: the list is on screen. *)
Mutate(kind, i) ==
    /\ ~isLoading /\ ~loadError /\ strategies[i] # None
    /\ kind = "edit" => db[i] < MaxVersion
    /\ isMutating = None
    /\ isMutating' = [kind |-> kind, id |-> i, at |-> "sent"]
    /\ UNCHANGED <<db, strategies, isLoading, loadError, isSaving, loads, last, errors, late, lost>>

(* update_strategy and delete_strategy: 404 if the row is gone. *)
ApplyMutation ==
    /\ isMutating # None /\ isMutating.at = "sent"
    /\ LET i == isMutating.id
       IN  \/ /\ db[i] # Deleted
              /\ isMutating.kind = "edit" => db[i] < MaxVersion
              /\ db' = [db EXCEPT ![i] = IF isMutating.kind = "edit" THEN @ + 1 ELSE Deleted]
              /\ isMutating' = [isMutating EXCEPT !.at = "applied"]
           \/ /\ db[i] = Deleted
              /\ isMutating' = [isMutating EXCEPT !.at = "error"]
              /\ UNCHANGED db
    /\ UNCHANGED <<strategies, isLoading, loadError, isSaving, loads, last, errors, late, lost>>

(* "Save Strategy" of a review, and save_confirmed_strategy. *)
SaveStrategy ==
    /\ isSaving = None
    /\ isSaving' = "sent"
    /\ UNCHANGED <<db, strategies, isLoading, loadError, isMutating, loads, last, errors, late, lost>>

ApplySave(i) ==
    /\ isSaving = "sent" /\ db[i] = Unused
    /\ db' = [db EXCEPT ![i] = 0]
    /\ isSaving' = "applied"
    /\ UNCHANGED <<strategies, isLoading, loadError, isMutating, loads, last, errors, late, lost>>

(* A request fails after it was applied, or before: the route then runs on *)
(* without its client, and may apply the change later.                     *)
Unanswered(kind, i) == late' = late \cup {[kind |-> kind, id |-> i, no |-> errors]}

FailMutation ==
    /\ isMutating # None /\ isMutating.at \in {"sent", "applied"}
    /\ errors < MaxErrors /\ errors' = errors + 1
    /\ \/ isMutating.at = "applied" /\ lost' = TRUE /\ UNCHANGED late
       \/ /\ isMutating.at = "sent" /\ UNCHANGED lost
          /\ Unanswered(isMutating.kind, isMutating.id)
    /\ isMutating' = [isMutating EXCEPT !.at = "error"]
    /\ UNCHANGED <<db, strategies, isLoading, loadError, isSaving, loads, last>>

FailSave ==
    /\ isSaving \in {"sent", "applied"}
    /\ errors < MaxErrors /\ errors' = errors + 1
    /\ \/ isSaving = "applied" /\ lost' = TRUE /\ UNCHANGED late
       \/ isSaving = "sent" /\ UNCHANGED lost /\ Unanswered("save", None)
    /\ isSaving' = "error"
    /\ UNCHANGED <<db, strategies, isLoading, loadError, isMutating, loads, last>>

(* The server gets to a change whose client has seen a failure.            *)
ApplyLate(request) ==
    /\ late' = late \ {request}
    /\ \/ /\ request.kind = "save" /\ lost' = TRUE
          /\ \E i \in Ids : db[i] = Unused /\ db' = [db EXCEPT ![i] = 0]
       \/ /\ request.kind = "edit" /\ db[request.id] \in 0..(MaxVersion - 1)
          /\ db' = [db EXCEPT ![request.id] = @ + 1] /\ lost' = TRUE
       \/ /\ request.kind = "delete" /\ db[request.id] # Deleted
          /\ db' = [db EXCEPT ![request.id] = Deleted] /\ lost' = TRUE
       \/ request.kind # "save" /\ db[request.id] = Deleted /\ UNCHANGED <<db, lost>>
    /\ UNCHANGED <<strategies, isLoading, loadError, isMutating, isSaving, loads, last, errors>>

(* The handlers after their first await: reload, or the catch block. *)
ReloadAfterMutation ==
    /\ isMutating # None /\ isMutating.at = "applied"
    /\ loadStrategies("mutation")
    /\ isMutating' = [isMutating EXCEPT !.at = "reloading"]
    /\ UNCHANGED <<db, strategies, isSaving, last, errors, late>>

MutationFailed ==
    /\ isMutating # None /\ isMutating.at = "error"
    /\ isMutating' = None
    /\ UNCHANGED <<db, strategies, isLoading, loadError, isSaving, loads, last, errors, late, lost>>

(* Mutant: saving ends without a reload. *)
SaveWithoutReload ==
    /\ isSaving = "applied"
    /\ isSaving' = None
    /\ UNCHANGED <<db, strategies, isLoading, loadError, isMutating, loads, last, errors, late, lost>>

ReloadAfterSave ==
    /\ isSaving = "applied"
    /\ loadStrategies("save")
    /\ isSaving' = "reloading"
    /\ UNCHANGED <<db, strategies, isMutating, last, errors, late>>

SaveFailed ==
    /\ isSaving = "error"
    /\ isSaving' = None
    /\ UNCHANGED <<db, strategies, isLoading, loadError, isMutating, loads, last, errors, late, lost>>

Next ==
    \/ Refresh \/ SaveStrategy
    \/ \E kind \in {"edit", "delete"}, i \in Ids : Mutate(kind, i)
    \/ ApplyMutation \/ FailMutation \/ ReloadAfterMutation \/ MutationFailed
    \/ \E i \in Ids : ApplySave(i)
    \/ \E request \in late : ApplyLate(request)
    \/ FailSave \/ ReloadAfterSave \/ SaveFailed
    \/ \E n \in Load : ReadRows(n) \/ FailReload(n) \/ DeliverReload(n)

Spec == Init /\ [][Next]_vars

-----------------------------------------------------------------------------
Quiet ==
    /\ isMutating = None /\ isSaving = None
    /\ \A n \in Load : loads[n] # None => loads[n].at = "delivered"
Issued == CHOOSE n \in Load : loads[n] # None /\ \A k \in Load : k > n => loads[k] = None

(* When nothing is under way, a list set from the reload issued last is    *)
(* what the database holds: every change is followed by a reload that is   *)
(* issued after it was applied.  What a request did after its client saw   *)
(* it fail is on no list until the next reload; and a list set from an     *)
(* older reload than the last, answered out of order, may be out of date.  *)
LastReloadIsRight == Quiet /\ last = Issued /\ ~lost => strategies = Rows
=============================================================================
