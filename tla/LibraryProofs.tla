---------------------------- MODULE LibraryProofs ----------------------------
(***************************************************************************)
(* Proofs about StrategyLibrary, for any number of strategies, edits,      *)
(* reloads and failures.                                                   *)
(***************************************************************************)
EXTENDS StrategyLibrary, TLAPS

(* What the list may lack: a change whose reload is still to come.         *)
Pending ==
    \/ isMutating # None /\ isMutating.at = "applied"
    \/ isSaving = "applied"
    \/ lost

(* The reloads issued so far are 1..m. *)
Newest(m) == m \in Load /\ \A n \in Load : loads[n] # None <=> n <= m

UnderWay(n, owner) ==
    loads[n] # None /\ loads[n].owner = owner /\ loads[n].at # "delivered"

LibraryType ==
    /\ loads \in [Load -> Reload \cup {None}]
    /\ isMutating \in Mutation \cup {None}
    /\ isSaving \in Stage \cup {None}
    /\ lost \in BOOLEAN
    /\ \E m \in Load : Newest(m)

(* The list is what a delivered reload brought; the newest reload, once    *)
(* answered, has every change that is not waiting for a reload of its own. *)
(* For that a handler must be at its reload while one is under way for it, *)
(* or the end of an old reload could end a handler that has applied a      *)
(* change since.                                                           *)
LibraryInv ==
    /\ LibraryType
    /\ last # 0 => /\ last \in Load /\ loads[last] # None /\ loads[last].at = "delivered"
                   /\ strategies = loads[last].rows
    /\ \A n \in Load :
          /\ Newest(n) /\ (loads[n].at = "answered" \/ last = n)
                => loads[n].rows = Rows \/ Pending
          /\ UnderWay(n, "mutation") => isMutating # None /\ isMutating.at = "reloading"
          /\ UnderWay(n, "save") => isSaving = "reloading"
    /\ \A n, k \in Load : \A owner \in {"mutation", "save"} :
          UnderWay(n, owner) /\ UnderWay(k, owner) => n = k

-----------------------------------------------------------------------------
LEMMA RowsType == Rows \in [Ids -> Version \cup {None}]
  BY DEF Rows

(* A step that issues no reload and delivers none. *)
LEMMA NoReload ==
    ASSUME LibraryInv, UNCHANGED <<loads, last, strategies>>,
           isMutating' \in Mutation \cup {None}, isSaving' \in Stage \cup {None},
           lost' \in BOOLEAN,
           Pending' \/ (db' = db /\ ~Pending),
           isMutating # None /\ isMutating.at = "reloading" => isMutating' = isMutating,
           isSaving = "reloading" => isSaving' = isSaving
    PROVE  LibraryInv'
<1>1. LibraryType'
  BY DEF LibraryInv, LibraryType, Newest
<1>2. Pending' \/ (Rows' = Rows /\ ~Pending)
  BY DEF Rows
<1>3. \A n \in Load : Newest(n)' <=> Newest(n)
  BY DEF Newest
<1>4. \A n \in Load, owner \in {"mutation", "save"} : UnderWay(n, owner)' <=> UnderWay(n, owner)
  BY DEF UnderWay
<1>5. ASSUME NEW n \in Load
      PROVE  /\ Newest(n)' /\ (loads'[n].at = "answered" \/ last' = n)
                   => loads'[n].rows = Rows' \/ Pending'
             /\ UnderWay(n, "mutation")' => isMutating' # None /\ isMutating'.at = "reloading"
             /\ UnderWay(n, "save")' => isSaving' = "reloading"
  BY <1>2, <1>3, <1>4 DEF LibraryInv
<1>6. \A n, k \in Load : \A owner \in {"mutation", "save"} :
          UnderWay(n, owner)' /\ UnderWay(k, owner)' => n = k
  BY <1>4 DEF LibraryInv
<1> QED
  BY <1>1, <1>5, <1>6 DEF LibraryInv

(* loadStrategies issues the reload that is newest from then on. *)
LEMMA Issues ==
    ASSUME LibraryInv, NEW owner \in {"page", "mutation", "save"}, loadStrategies(owner),
           UNCHANGED <<db, strategies, last>>,
           isMutating' = IF owner = "mutation" THEN [isMutating EXCEPT !.at = "reloading"]
                         ELSE isMutating,
           isSaving' = IF owner = "save" THEN "reloading" ELSE isSaving,
           owner = "mutation" => isMutating # None /\ isMutating.at = "applied",
           owner = "save" => isSaving = "applied"
    PROVE  LibraryInv'
<1> USE DEF LibraryInv, LibraryType
<1>1. PICK n \in Load :
          /\ loads[n] = None /\ \A k \in 1..(n - 1) : loads[k] # None
          /\ loads' = [loads EXCEPT ![n] = NewReload(owner)]
          /\ lost' = FALSE
  BY DEF loadStrategies
<1>2. NewReload(owner) \in Reload
  BY DEF NewReload, Reload, Empty
<1>3. /\ NewReload(owner) # None /\ NewReload(owner).owner = owner
      /\ NewReload(owner).at = "sent"
  BY <1>2, LibraryAssumption DEF NewReload
<1>4. loads' \in [Load -> Reload \cup {None}]
  BY <1>1, <1>2
<1>5. loads'[n] = NewReload(owner) /\ \A k \in Load \ {n} : loads'[k] = loads[k]
  BY <1>1
<1>6. Newest(n)'
  <2>1. PICK m \in Load : Newest(m)
    OBVIOUS
  <2>2. n \in Int /\ m \in Int /\ m = n - 1
    <3>1. n \in Int /\ m \in Int /\ m < n
      BY <1>1, <2>1 DEF Newest, Load
    <3>2. CASE m < n - 1
      <4>1. m + 1 \in 1..(n - 1) /\ m + 1 \in Load /\ ~(m + 1 <= m)
        BY <3>1, <3>2, LibraryAssumption DEF Load
      <4> QED
        BY <1>1, <2>1, <4>1 DEF Newest
    <3> QED
      BY <3>1, <3>2
  <2>3. \A k \in Load : k \in Int
    BY DEF Load
  <2> QED
    BY <1>3, <1>5, <2>1, <2>2, <2>3 DEF Newest
<1>7. \A k \in Load : Newest(k)' => k = n
  <2>1. \A k \in Load : k \in Int
    BY DEF Load
  <2> QED
    BY <1>6, <2>1 DEF Newest
<1>8. isMutating' \in Mutation \cup {None} /\ isSaving' \in Stage \cup {None}
      /\ (owner = "mutation" => isMutating' # None /\ isMutating'.at = "reloading")
  <2>1. CASE owner = "mutation"
    <3>1. isMutating \in Mutation /\ isSaving' = isSaving
      BY <2>1
    <3>2. isMutating' = [isMutating EXCEPT !.at = "reloading"]
      BY <2>1
    <3>3. isMutating' \in Mutation /\ isMutating'.at = "reloading"
      BY <3>1, <3>2 DEF Mutation, Stage
    <3> QED
      BY <3>1, <3>3, LibraryAssumption
  <2>2. CASE owner # "mutation"
    BY <2>2 DEF Stage
  <2> QED
    BY <2>1, <2>2
<1>9. LibraryType'
  BY <1>1, <1>4, <1>6, <1>8
<1>10. last' # n /\ loads'[n].at # "answered"
  <2>1. 0 \notin Load
    BY DEF Load
  <2> QED
    BY <1>1, <1>3, <1>5, <2>1
<1>11. \A k \in Load, o \in {"mutation", "save"} :
          UnderWay(k, o)' <=> UnderWay(k, o) \/ (k = n /\ o = owner)
  BY <1>1, <1>3, <1>5 DEF UnderWay
<1>12. \A k \in Load : ~UnderWay(k, owner) \/ owner = "page"
  OBVIOUS
<1>13. ASSUME NEW k \in Load
       PROVE  /\ Newest(k)' /\ (loads'[k].at = "answered" \/ last' = k)
                    => loads'[k].rows = Rows' \/ Pending'
              /\ UnderWay(k, "mutation")' => isMutating' # None /\ isMutating'.at = "reloading"
              /\ UnderWay(k, "save")' => isSaving' = "reloading"
  <2>1. UnderWay(k, "mutation")' => isMutating' # None /\ isMutating'.at = "reloading"
    BY <1>8, <1>11, <1>12
  <2>2. UnderWay(k, "save")' => isSaving' = "reloading"
    BY <1>11, <1>12
  <2> QED
    BY <1>7, <1>10, <2>1, <2>2
<1>14. \A k, l \in Load : \A o \in {"mutation", "save"} :
          UnderWay(k, o)' /\ UnderWay(l, o)' => k = l
  BY <1>11, <1>12
<1>15. last' # 0 => /\ last' \in Load /\ loads'[last'] # None /\ loads'[last'].at = "delivered"
                    /\ strategies' = loads'[last'].rows
  BY <1>1, <1>5
<1> QED
  BY <1>9, <1>13, <1>14, <1>15

(* A reload under way is answered, fails or is delivered. *)
LEMMA Advances ==
    ASSUME LibraryInv, NEW n \in Load, loads[n] # None, loads[n].at # "delivered",
           NEW r \in Reload, loads' = [loads EXCEPT ![n] = r], r.owner = loads[n].owner,
           UNCHANGED <<db, lost>>,
           r.at = "answered" => r.rows = Rows,
           \/ r.at # "delivered" /\ UNCHANGED <<strategies, last, isMutating, isSaving>>
           \/ /\ r.at = "delivered"
              /\ \/ UNCHANGED <<strategies, last>>
                 \/ /\ last' = n /\ strategies' = r.rows
                    /\ loads[n].at = "answered" /\ r.rows = loads[n].rows
              /\ isMutating' = IF loads[n].owner = "mutation" THEN None ELSE isMutating
              /\ isSaving' = IF loads[n].owner = "save" THEN None ELSE isSaving
    PROVE  LibraryInv'
<1> USE DEF LibraryInv, LibraryType
<1>1. r # None /\ loads'[n] = r /\ \A k \in Load \ {n} : loads'[k] = loads[k]
  BY LibraryAssumption
<1>2. \A k \in Load : Newest(k)' <=> Newest(k)
  BY <1>1 DEF Newest
<1>3. LibraryType'
  <2>1. loads' \in [Load -> Reload \cup {None}]
    OBVIOUS
  <2> QED
    BY <1>2, <2>1
<1>4. \A k \in Load, o \in {"mutation", "save"} :
          UnderWay(k, o)' <=> UnderWay(k, o) /\ (k = n => r.at # "delivered")
  BY <1>1 DEF UnderWay
<1>5. loads[n].owner = "mutation" => UnderWay(n, "mutation")
  BY DEF UnderWay
<1>6. loads[n].owner = "save" => UnderWay(n, "save")
  BY DEF UnderWay
<1>7. Rows' = Rows /\ (Pending => Pending')
  BY <1>5, <1>6 DEF Rows, Pending
<1>8. last # n
  <2>1. 0 \notin Load
    BY DEF Load
  <2> QED
    BY <2>1
<1>9. last' # 0 => /\ last' \in Load /\ loads'[last'] # None /\ loads'[last'].at = "delivered"
                   /\ strategies' = loads'[last'].rows
  BY <1>1, <1>8
<1>10. ASSUME NEW k \in Load
       PROVE  /\ Newest(k)' /\ (loads'[k].at = "answered" \/ last' = k)
                    => loads'[k].rows = Rows' \/ Pending'
              /\ UnderWay(k, "mutation")' => isMutating' # None /\ isMutating'.at = "reloading"
              /\ UnderWay(k, "save")' => isSaving' = "reloading"
  <2>1. Newest(k)' /\ (loads'[k].at = "answered" \/ last' = k)
            => loads'[k].rows = Rows' \/ Pending'
    <3>1. CASE k = n
      BY <1>1, <1>2, <1>7, <1>8, <3>1
    <3>2. CASE k # n
      BY <1>1, <1>2, <1>7, <3>2
    <3> QED
      BY <3>1, <3>2
  <2>2. UnderWay(k, "mutation")' => isMutating' # None /\ isMutating'.at = "reloading"
    BY <1>4, <1>5
  <2>3. UnderWay(k, "save")' => isSaving' = "reloading"
    BY <1>4, <1>6
  <2> QED
    BY <2>1, <2>2, <2>3
<1>11. \A k, l \in Load : \A o \in {"mutation", "save"} :
          UnderWay(k, o)' /\ UnderWay(l, o)' => k = l
  BY <1>4
<1> QED
  BY <1>3, <1>9, <1>10, <1>11

LEMMA LibraryStep == LibraryInv /\ [Next]_vars => LibraryInv'
<1> SUFFICES ASSUME LibraryInv, [Next]_vars PROVE LibraryInv'
  OBVIOUS
<1>0. /\ isMutating \in Mutation \cup {None} /\ isSaving \in Stage \cup {None}
      /\ lost \in BOOLEAN /\ loads \in [Load -> Reload \cup {None}]
  BY DEF LibraryInv, LibraryType
<1>1. CASE Refresh
  BY <1>1, Issues DEF Refresh
<1>2. CASE ReloadAfterMutation
  BY <1>2, Issues DEF ReloadAfterMutation
<1>3. CASE ReloadAfterSave
  BY <1>3, Issues DEF ReloadAfterSave
<1>4. CASE SaveStrategy \/ SaveFailed
  <2>1. /\ isSaving \in {None, "error"} /\ isSaving' \in {None, "sent"}
        /\ UNCHANGED <<db, isMutating, loads, last, strategies, lost>>
    BY <1>4 DEF SaveStrategy, SaveFailed
  <2>2. (Pending' <=> Pending) /\ isSaving' \in Stage \cup {None} /\ isSaving # "reloading"
    BY <2>1, LibraryAssumption DEF Pending, Stage
  <2> QED
    BY <1>0, <2>1, <2>2, NoReload
<1>5. ASSUME NEW kind \in {"edit", "delete"}, NEW i \in Ids, Mutate(kind, i)
      PROVE  LibraryInv'
  <2>1. /\ isMutating = None /\ isMutating' = [kind |-> kind, id |-> i, at |-> "sent"]
        /\ UNCHANGED <<db, isSaving, loads, last, strategies, lost>>
    BY <1>5 DEF Mutate
  <2>2. isMutating' \in Mutation /\ isMutating'.at = "sent"
    BY <2>1 DEF Mutation, Stage
  <2>3. Pending' <=> Pending
    BY <2>1, <2>2 DEF Pending
  <2> QED
    BY <1>0, <2>1, <2>2, <2>3, NoReload
<1>6. ASSUME NEW s \in Stage, isMutating # None, isMutating.at # "reloading",
             isMutating' = [isMutating EXCEPT !.at = s]
      PROVE  isMutating' \in Mutation /\ isMutating' # None /\ isMutating'.at = s
  <2>1. isMutating' \in Mutation /\ isMutating'.at = s
    BY <1>0, <1>6 DEF Mutation
  <2> QED
    BY <2>1, LibraryAssumption
<1>7. CASE ApplyMutation
  <2>1. /\ isMutating # None /\ isMutating.at = "sent"
        /\ UNCHANGED <<isSaving, loads, last, strategies, lost>>
        /\ \/ isMutating' = [isMutating EXCEPT !.at = "applied"]
           \/ isMutating' = [isMutating EXCEPT !.at = "error"] /\ db' = db
    BY <1>7 DEF ApplyMutation
  <2>2. CASE isMutating' = [isMutating EXCEPT !.at = "applied"]
    <3>1. isMutating' \in Mutation /\ isMutating' # None /\ isMutating'.at = "applied"
      BY <1>6, <2>1, <2>2 DEF Stage
    <3>2. Pending'
      BY <3>1 DEF Pending
    <3> QED
      BY <1>0, <2>1, <3>1, <3>2, NoReload
  <2>3. CASE isMutating' = [isMutating EXCEPT !.at = "error"] /\ db' = db
    <3>1. isMutating' \in Mutation /\ isMutating' # None /\ isMutating'.at = "error"
      BY <1>6, <2>1, <2>3 DEF Stage
    <3>2. Pending' <=> Pending
      BY <2>1, <3>1 DEF Pending
    <3> QED
      BY <1>0, <2>1, <2>3, <3>1, <3>2, NoReload
  <2> QED
    BY <2>1, <2>2, <2>3
<1>8. CASE FailMutation
  <2>1. /\ isMutating # None /\ isMutating.at \in {"sent", "applied"}
        /\ UNCHANGED <<db, isSaving, loads, last, strategies>>
        /\ IF isMutating.at = "applied" THEN lost' = TRUE ELSE lost' = lost
        /\ isMutating' = [isMutating EXCEPT !.at = "error"]
    BY <1>8 DEF FailMutation
  <2>2. isMutating' \in Mutation /\ isMutating' # None /\ isMutating'.at = "error"
    BY <1>6, <2>1 DEF Stage
  <2>3. lost' \in BOOLEAN /\ (Pending' <=> Pending)
    BY <1>0, <2>1, <2>2 DEF Pending
  <2> QED
    BY <1>0, <2>1, <2>2, <2>3, NoReload
<1>9. CASE MutationFailed
  <2>1. /\ isMutating # None /\ isMutating.at = "error" /\ isMutating' = None
        /\ UNCHANGED <<db, isSaving, loads, last, strategies, lost>>
    BY <1>9 DEF MutationFailed
  <2>2. Pending' <=> Pending
    BY <2>1 DEF Pending
  <2> QED
    BY <1>0, <2>1, <2>2, NoReload
<1>10. ASSUME NEW i \in Ids, ApplySave(i)
       PROVE  LibraryInv'
  <2>1. /\ isSaving = "sent" /\ isSaving' = "applied"
        /\ UNCHANGED <<isMutating, loads, last, strategies, lost>>
    BY <1>10 DEF ApplySave
  <2>2. Pending' /\ isSaving' \in Stage
    BY <2>1 DEF Pending, Stage
  <2> QED
    BY <1>0, <2>1, <2>2, NoReload
<1>11. CASE FailSave
  <2>1. /\ isSaving \in {"sent", "applied"} /\ isSaving' = "error"
        /\ UNCHANGED <<db, isMutating, loads, last, strategies>>
        /\ IF isSaving = "applied" THEN lost' = TRUE ELSE lost' = lost
    BY <1>11 DEF FailSave
  <2>2. lost' \in BOOLEAN /\ (Pending' <=> Pending) /\ isSaving' \in Stage
    BY <1>0, <2>1 DEF Pending, Stage
  <2> QED
    BY <1>0, <2>1, <2>2, NoReload
<1>16. ASSUME NEW request \in late, ApplyLate(request)
       PROVE  LibraryInv'
  <2>1. /\ UNCHANGED <<loads, last, strategies, isMutating, isSaving>>
        /\ lost' = TRUE \/ UNCHANGED <<db, lost>>
    BY <1>16 DEF ApplyLate
  <2>2. lost' \in BOOLEAN /\ (Pending' \/ (db' = db /\ ~Pending))
    BY <1>0, <2>1 DEF Pending
  <2> QED
    BY <1>0, <2>1, <2>2, NoReload
<1>12. ASSUME NEW n \in Load, ReadRows(n)
       PROVE  LibraryInv'
  <2>1. /\ loads[n] # None /\ loads[n].at = "sent" /\ loads[n] \in Reload
        /\ loads' = [loads EXCEPT ![n].at = "answered", ![n].rows = Rows]
        /\ UNCHANGED <<db, strategies, isMutating, isSaving, last, lost>>
    BY <1>0, <1>12 DEF ReadRows
  <2>2. PICK r : r = [loads[n] EXCEPT !.at = "answered", !.rows = Rows]
    OBVIOUS
  <2>3. /\ r \in Reload /\ r.owner = loads[n].owner /\ r.at = "answered" /\ r.rows = Rows
    BY <2>1, <2>2, RowsType DEF Reload
  <2>4. loads' = [loads EXCEPT ![n] = r]
    BY <1>0, <2>1, <2>2
  <2> QED
    BY <2>1, <2>3, <2>4, Advances
<1>13. ASSUME NEW n \in Load, FailReload(n)
       PROVE  LibraryInv'
  <2>1. /\ loads[n] # None /\ loads[n].at # "delivered" /\ loads[n] \in Reload
        /\ loads' = [loads EXCEPT ![n].at = "error"]
        /\ UNCHANGED <<db, strategies, isMutating, isSaving, last, lost>>
    BY <1>0, <1>13 DEF FailReload
  <2>2. PICK r : r = [loads[n] EXCEPT !.at = "error"]
    OBVIOUS
  <2>3. r \in Reload /\ r.owner = loads[n].owner /\ r.at = "error"
    BY <2>1, <2>2 DEF Reload
  <2>4. loads' = [loads EXCEPT ![n] = r]
    BY <1>0, <2>1, <2>2
  <2> QED
    BY <2>1, <2>3, <2>4, Advances
<1>14. ASSUME NEW n \in Load, DeliverReload(n)
       PROVE  LibraryInv'
  <2>1. /\ loads[n] # None /\ loads[n].at \in {"answered", "error"} /\ loads[n] \in Reload
        /\ IF loads[n].at = "error" THEN UNCHANGED <<strategies, last>>
           ELSE strategies' = loads[n].rows /\ last' = n
        /\ isMutating' = IF loads[n].owner = "mutation" THEN None ELSE isMutating
        /\ isSaving' = IF loads[n].owner = "save" THEN None ELSE isSaving
        /\ loads' = [loads EXCEPT ![n].at = "delivered"]
        /\ UNCHANGED <<db, lost>>
    BY <1>0, <1>14 DEF DeliverReload, Answered
  <2>2. PICK r : r = [loads[n] EXCEPT !.at = "delivered"]
    OBVIOUS
  <2>3. r \in Reload /\ r.owner = loads[n].owner /\ r.at = "delivered" /\ r.rows = loads[n].rows
    BY <2>1, <2>2 DEF Reload
  <2>4. loads' = [loads EXCEPT ![n] = r]
    BY <1>0, <2>1, <2>2
  <2> QED
    BY <2>1, <2>3, <2>4, Advances, ZenonT(60)
<1>15. CASE UNCHANGED vars
  <2>1. Pending' <=> Pending
    BY <1>15 DEF vars, Pending
  <2> QED
    BY <1>0, <1>15, <2>1, NoReload DEF vars
<1> QED
  BY <1>1, <1>2, <1>3, <1>4, <1>5, <1>7, <1>8, <1>9, <1>10, <1>11, <1>12, <1>13, <1>14,
     <1>15, <1>16 DEF Next

(* The newest reload of loadStrategies has read what the table holds, or   *)
(* the handler that changed it since is still to reload.                   *)
THEOREM LibraryInvariant == Spec => []LibraryInv
<1>1. Init => LibraryInv
  <2> SUFFICES ASSUME Init PROVE LibraryInv
    OBVIOUS
  <2>1. NewReload("page") \in Reload /\ NewReload("page") # None
    <3>1. NewReload("page") \in Reload
      BY DEF NewReload, Reload, Empty
    <3> QED
      BY <3>1, LibraryAssumption
  <2>2. loads \in [Load -> Reload \cup {None}] /\ 1 \in Load
        /\ \A n \in Load : n \in Int /\ n >= 1
    BY <2>1, LibraryAssumption DEF Init, Load
  <2>3. Newest(1)
    BY <2>1, <2>2 DEF Init, Newest
  <2>4. NewReload("page").owner = "page" /\ NewReload("page").at = "sent"
    BY DEF NewReload
  <2>5. \A n \in Load : /\ ~UnderWay(n, "mutation") /\ ~UnderWay(n, "save")
                        /\ Newest(n) => n = 1
    BY <2>2, <2>3, <2>4 DEF Init, UnderWay, Newest
  <2>6. loads[1].at # "answered" /\ last # 1 /\ last = 0
    BY <2>2, <2>4 DEF Init
  <2> QED
    BY <2>2, <2>3, <2>5, <2>6 DEF Init, LibraryInv, LibraryType
<1> QED
  BY <1>1, LibraryStep, PTL DEF Spec

(* However the answers of the reloads are ordered and whatever fails, a    *)
(* list that was set from the reload issued last shows what the database   *)
(* holds once every handler has ended.                                     *)
THEOREM LastReloadAlwaysRight == Spec => []LastReloadIsRight
<1>1. LibraryInv => LastReloadIsRight
  <2> SUFFICES ASSUME LibraryInv, Quiet, last = Issued, ~lost PROVE strategies = Rows
    BY DEF LastReloadIsRight
  <2>1. PICK m \in Load : Newest(m)
    BY DEF LibraryInv, LibraryType
  <2>2. \A n \in Load : n \in Int /\ n # 0
    BY DEF Load
  <2>3. \A n \in Load : (loads[n] # None /\ \A k \in Load : k > n => loads[k] = None) <=> n = m
    BY <2>1, <2>2 DEF Newest
  <2>4. Issued = m
    BY <2>3 DEF Issued
  <2>5. ~Pending
    BY LibraryAssumption DEF Quiet, Pending, Stage
  <2> QED
    BY <2>1, <2>2, <2>4, <2>5 DEF LibraryInv
<1> QED
  BY <1>1, LibraryInvariant, PTL
=============================================================================
