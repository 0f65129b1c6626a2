--------------------------- MODULE SettingsProofs ---------------------------
(***************************************************************************)
(* Theorems about Settings, for every choice of its constants.             *)
(***************************************************************************)
EXTENDS Settings, TLAPS

-----------------------------------------------------------------------------
(* Types.                                                                  *)

LEMMA NullTypes ==
    /\ NoFull \in FullSync /\ NoJob \in GameSync /\ NewChange \in ChangeRequest
    /\ NewEdit \in EditRequest /\ NewPause \in PauseRequest /\ NoGameRow \in GameRow
  BY SettingsAssumption DEF NoFull, FullSync, NoJob, GameSync, NewChange, ChangeRequest,
     NewEdit, EditRequest, NewPause, PauseRequest, NoGameRow, GameRow

LEMMA WantsKinds == ASSUME NEW s, NEW gm PROVE Wants(s, gm) \subseteq Kind
  BY DEF Wants, Kind

LEMMA UnwantedType ==
    ASSUME NEW G, NEW s, NEW rows
    PROVE  ActiveFiles(G) \subseteq Dropped /\ Unwanted(G, s, rows) \subseteq Dropped
  BY DEF ActiveFiles, Unwanted

LEMMA EditedType == ASSUME TypeOK, NEW e \in Edit PROVE Edited(e) \in [Game -> GameRow]
  <1>1. ASSUME NEW g \in Game
        PROVE  /\ games[g] \in GameRow
               /\ [games[g] EXCEPT !.selected = TRUE] \in GameRow
               /\ [games[g] EXCEPT !.selected = FALSE] \in GameRow
               /\ [games[g] EXCEPT !.extras = TRUE] \in GameRow
               /\ [games[g] EXCEPT !.extras = FALSE] \in GameRow
    BY DEF TypeOK, GameRow
  <1> QED BY <1>1 DEF Edited

LEMMA ToDropType == ASSUME NEW e \in Edit PROVE ToDrop(e) \subseteq Dropped
  BY UnwantedType DEF ToDrop

\* Forgetting a file, letting go of locks, and the ends of the three kinds of
\* processes keep the types of what they change.
LEMMA DropFileType ==
    ASSUME TypeOK, NEW u \in Dropped, NEW answer, DropFile(u, answer)
    PROVE  tracked' \in [Game -> SUBSET Kind] /\ copies' \in [Game -> SUBSET Kind]
  BY DEF DropFile, TypeOK, Dropped

LEMMA UnlockedType ==
    ASSUME TypeOK, NEW x PROVE Unlocked(x) \in [Game -> Job \cup {Nobody}]
  BY DEF Unlocked, TypeOK

LEMMA AwaitsType ==
    ASSUME TypeOK, NEW x,
           change' = [c \in Change |-> [change[c] EXCEPT !.awaits = @ \ {x}]]
    PROVE  change' \in [Change -> ChangeRequest]
  <1>1. ASSUME NEW c \in Change
        PROVE  [change[c] EXCEPT !.awaits = @ \ {x}] \in ChangeRequest
    <2>1. change[c] \in ChangeRequest
      BY DEF TypeOK
    <2>2. change[c].awaits \ {x} \in SUBSET (Edit \cup {Full})
      BY <2>1 DEF ChangeRequest
    <2> QED BY <2>1, <2>2 DEF ChangeRequest
  <1> QED BY <1>1

LEMMA InitTypes == Init => TypeOK
  <1>1. FirstSettings.paused \in BOOLEAN
    BY SettingsAssumption DEF SettingsRecord
  <1> QED BY <1>1, NullTypes, SettingsAssumption, GameAssumption DEF Init, TypeOK

-----------------------------------------------------------------------------
(* The full sync keeps the types.                                          *)

LEMMA FullTypes ==
    ASSUME TypeOK, TriggeredSync \/ DueSync \/ FullStep \/ Relogin PROVE TypeOK'
  <1>1. full \in FullSync /\ stored \in SettingsRecord /\ account \subseteq Game
    BY DEF TypeOK
  <1>2. CASE TriggeredSync \/ DueSync
    <2>1. full' \in FullSync
      BY <1>2, NullTypes DEF TriggeredSync, DueSync, StartFull, FullSync
    <2> QED BY <2>1, <1>2 DEF TriggeredSync, DueSync, StartFull, TypeOK, library, requests
  <1>3. CASE PlanFull
    <2>1. full' \in FullSync
      BY <1>1, <1>3 DEF PlanFull, FullSync
    <2> QED BY <2>1, <1>3 DEF PlanFull, TypeOK, library, requests
  <1>4. CASE ListGames
    <2>1. full' \in FullSync
      BY <1>1, <1>4 DEF ListGames, SelectNew, SelectsNewGames, FullSync
    <2> QED BY <2>1, <1>4 DEF ListGames, TypeOK, library, requests
  <1>5. ASSUME NEW g \in Game, UpsertGame(g) PROVE TypeOK'
    <2>1. full' \in FullSync
      BY <1>1, <1>5 DEF UpsertGame, FullSync
    <2>2. games' \in [Game -> GameRow]
      BY <1>5 DEF UpsertGame, TypeOK, GameRow
    <2> QED BY <2>1, <2>2, <1>5 DEF UpsertGame, TypeOK, requests
  <1>6. CASE SelectGame
    <2>1. full' \in FullSync
      BY <1>1, <1>6 DEF SelectGame, FullSync
    <2>2. games' \in [Game -> GameRow]
      BY <1>6 DEF SelectGame, TypeOK, GameRow
    <2> QED BY <2>1, <2>2, <1>6 DEF SelectGame, TypeOK, requests
  <1>7. CASE RowsDone
    <2>1. full' \in FullSync
      BY <1>1, <1>7 DEF RowsDone, FullSync, Listed
    <2> QED BY <2>1, <1>7 DEF RowsDone, TypeOK, library, requests
  <1>8. ASSUME NEW g \in Game, StartJob(g) PROVE TypeOK'
    <2>1. full' \in FullSync
      BY <1>1, <1>8 DEF StartJob, FullSync
    <2>2. [NoJob EXCEPT !.pc = "lock", !.snap = full.snap, !.game = g] \in GameSync
      BY <1>1, NullTypes DEF FullSync, GameSync
    <2>3. job' \in [Job -> GameSync]
      BY <1>8, <2>2 DEF StartJob, TypeOK
    <2> QED BY <2>1, <2>3, <1>8 DEF StartJob, TypeOK, library, requests
  <1>9. CASE FinishFull \/ AbandonFull
    <2>1. full' \in FullSync /\ change' \in [Change -> ChangeRequest]
      BY <1>9, NullTypes, AwaitsType DEF FinishFull, AbandonFull, EndFull
    <2> QED BY <2>1, <1>9 DEF FinishFull, AbandonFull, TypeOK, library, requests
  <1>10. CASE Relogin
    <2>1. full' \in FullSync
      BY <1>1, <1>10 DEF Relogin, FullSync
    <2> QED BY <2>1, <1>10 DEF Relogin, TypeOK, library, requests
  <1> QED BY <1>2, <1>3, <1>4, <1>5, <1>6, <1>7, <1>8, <1>9, <1>10 DEF FullStep

-----------------------------------------------------------------------------
(* So do the syncs of single games.                                        *)

LEMMA EndJobType ==
    ASSUME TypeOK, NEW j, EndJob(j)
    PROVE  /\ job' \in [Job -> GameSync]
           /\ lock' \in [Game -> Job \cup {Nobody}]
           /\ change' \in [Change -> ChangeRequest]
  <1>1. job' \in [Job -> GameSync]
    BY NullTypes DEF EndJob, TypeOK
  <1> QED BY <1>1, UnlockedType, AwaitsType DEF EndJob

LEMMA JobTypes ==
    ASSUME TypeOK, NEW j \in Job, JobStep(j) PROVE TypeOK'
  <1>1. job[j] \in GameSync /\ stored \in SettingsRecord /\ job \in [Job -> GameSync]
    BY DEF TypeOK
  <1>2. CASE PlanJob(j)
    <2>1. job' \in [Job -> GameSync]
      BY <1>1, <1>2 DEF PlanJob, GameSync
    <2> QED BY <2>1, <1>2 DEF PlanJob, TypeOK, library, requests
  <1>3. CASE OwnedIDs(j)
    <2>1. job' \in [Job -> GameSync]
      BY <1>1, <1>3 DEF OwnedIDs, GameSync
    <2> QED BY <2>1, <1>3 DEF OwnedIDs, TypeOK, library, requests
  <1>4. CASE LoadGame(j)
    <2>1. Wants(job[j].snap, games[job[j].game]) \in SUBSET Kind
      BY WantsKinds
    <2>2. job' \in [Job -> GameSync]
      BY <1>1, <1>4, <2>1 DEF LoadGame, GameSync
    <2>3. lock' \in [Game -> Job \cup {Nobody}]
      BY <1>4 DEF LoadGame, TypeOK
    <2> QED BY <2>2, <2>3, <1>4 DEF LoadGame, TypeOK, library, requests
  <1>5. CASE FetchDetails(j)
    <2>1. job' \in [Job -> GameSync]
      BY <1>1, <1>5 DEF FetchDetails, GameSync
    <2> QED BY <2>1, <1>5 DEF FetchDetails, TypeOK, library, requests
  <1>6. CASE UpsertFile(j)
    <2>1. PICK k \in job[j].todo :
            /\ tracked' = [tracked EXCEPT ![job[j].game] = @ \cup {k}]
            /\ job' = [job EXCEPT ![j].todo = @ \ {k}, ![j].keep = @ \cup {k},
                                  ![j].pc = IF job[j].todo = {k} THEN "others" ELSE @]
      BY <1>6 DEF UpsertFile
    <2>2. k \in Kind /\ job[j].todo \ {k} \in SUBSET Kind /\ job[j].keep \cup {k} \in SUBSET Kind
      BY <1>1, <2>1 DEF GameSync
    <2>3. job' \in [Job -> GameSync]
      BY <1>1, <2>1, <2>2 DEF GameSync
    <2>4. tracked' \in [Game -> SUBSET Kind]
      BY <2>1, <2>2 DEF TypeOK
    <2> QED BY <2>3, <2>4, <1>6 DEF UpsertFile, TypeOK, requests
  <1>7. CASE DropOthers(j)
    <2>1. tracked' \in [Game -> SUBSET Kind]
      BY <1>7 DEF DropOthers, TypeOK
    <2> QED BY <2>1, <1>7, EndJobType DEF DropOthers, TypeOK, requests
  <1>8. CASE AbandonJob(j)
    BY <1>8, EndJobType DEF AbandonJob, TypeOK, library, requests
  <1> QED BY <1>2, <1>3, <1>4, <1>5, <1>6, <1>7, <1>8 DEF JobStep

-----------------------------------------------------------------------------
(* And the requests.                                                       *)

LEMMA ChangeGotoType ==
    ASSUME TypeOK, NEW c \in Change,
           NEW pc \in {"sem", "full", "games", "again", "drop", "done"}, ChangeGoto(c, pc)
    PROVE  change' \in [Change -> ChangeRequest]
  <1>1. change[c] \in ChangeRequest
    BY DEF TypeOK
  <1>2. [change[c] EXCEPT !.pc = pc] \in ChangeRequest
    BY <1>1 DEF ChangeRequest
  <1> QED BY <1>2 DEF ChangeGoto, TypeOK

LEMMA ReleaseSemType ==
    ASSUME TypeOK, NEW c, ReleaseSem(c) PROVE sem' \in Change \cup {Nobody}
  BY DEF ReleaseSem, TypeOK

LEMMA EndChangeType ==
    ASSUME TypeOK, NEW c \in Change, NEW result \in {"refused", "gone"},
           EndChange(c, result)
    PROVE  change' \in [Change -> ChangeRequest] /\ sem' \in Change \cup {Nobody}
  <1>1. change[c] \in ChangeRequest
    BY DEF TypeOK
  <1>2. [change[c] EXCEPT !.pc = "done", !.result = result, !.list = {},
                          !.awaits = {}] \in ChangeRequest
    BY <1>1 DEF ChangeRequest
  <1> QED BY <1>2, ReleaseSemType DEF EndChange, TypeOK

LEMMA FindUnwantedTypes ==
    ASSUME TypeOK, NEW c \in Change, NEW from, NEW to \in {"compare", "drop"},
           FindUnwanted(c, from, to)
    PROVE  TypeOK'
  <1>. DEFINE list == Unwanted(Game, change[c].new, games)
  <1>1. change' \in [Change -> ChangeRequest] /\ sem' \in Change \cup {Nobody}
    <2>1. CASE EndChange(c, "refused")
      BY <2>1, EndChangeType
    <2>2. CASE /\ change' = [change EXCEPT ![c].pc = to, ![c].list = list]
               /\ UNCHANGED sem
      <3>1. change[c] \in ChangeRequest /\ list \in SUBSET Dropped
        BY UnwantedType DEF TypeOK
      <3>. HIDE DEF list
      <3>2. [change[c] EXCEPT !.pc = to, !.list = list] \in ChangeRequest
        BY <3>1 DEF ChangeRequest
      <3> QED BY <2>2, <3>2 DEF TypeOK
    <2> QED BY <2>1, <2>2 DEF FindUnwanted
  <1> QED BY <1>1 DEF FindUnwanted, TypeOK, library, requests

LEMMA ChangeTypes ==
    ASSUME TypeOK, NEW c \in Change, PutSettings(c) \/ ChangeStep(c) \/ HangUp(c)
    PROVE  TypeOK'
  <1>1. change[c] \in ChangeRequest /\ stored \in SettingsRecord
    BY DEF TypeOK
  <1>2. CASE PutSettings(c)
    <2>1. PICK ns \in NewSettings, a \in Answers :
            change' = [change EXCEPT ![c].pc = "ask", ![c].new = ns, ![c].answer = a,
                                     ![c].old = stored]
      BY <1>2 DEF PutSettings
    <2>2. [change[c] EXCEPT !.pc = "ask", !.new = ns, !.answer = a, !.old = stored]
            \in ChangeRequest
      BY <1>1, SettingsAssumption, RequestAssumption DEF ChangeRequest
    <2>3. change' \in [Change -> ChangeRequest]
      BY <2>1, <2>2 DEF TypeOK
    <2> QED BY <2>3, <1>2 DEF PutSettings, TypeOK, library, requests
  <1>3. CASE Ask(c) \/ AskAgain(c)
    BY <1>3, FindUnwantedTypes DEF Ask, AskAgain
  <1>4. CASE Compare(c)
    <2>1. change' \in [Change -> ChangeRequest]
      BY <1>4, ChangeGotoType DEF Compare
    <2> QED BY <2>1, <1>4 DEF Compare, TypeOK, library, requests
  <1>5. CASE LockPlan(c)
    <2>1. change' \in [Change -> ChangeRequest]
      BY <1>5, ChangeGotoType DEF LockPlan
    <2> QED BY <2>1, <1>5 DEF LockPlan, TypeOK, library, requests
  <1>6. CASE CancelFull(c)
    <2>1. CASE ChangeGoto(c, "games") /\ UNCHANGED full
      <3>1. change' \in [Change -> ChangeRequest]
        BY <2>1, ChangeGotoType
      <3> QED BY <2>1, <3>1, <1>6 DEF CancelFull, TypeOK, library, requests
    <2>2. CASE /\ full' = [full EXCEPT !.cancelled = TRUE]
               /\ change' = [change EXCEPT ![c].pc = "games", ![c].awaits = {Full},
                                           ![c].stopped = {Full}]
      <3>1. [change[c] EXCEPT !.pc = "games", !.awaits = {Full}, !.stopped = {Full}]
              \in ChangeRequest
        BY <1>1 DEF ChangeRequest
      <3>2. change' \in [Change -> ChangeRequest] /\ full' \in FullSync
        BY <2>2, <3>1 DEF TypeOK, FullSync
      <3> QED BY <3>2, <1>6 DEF CancelFull, TypeOK, library, requests
    <2> QED BY <2>1, <2>2, <1>6 DEF CancelFull
  <1>7. CASE StopGameSyncs(c)
    <2>1. Registered \in SUBSET Edit /\ change[c].stopped \cup Registered \in SUBSET (Edit \cup {Full})
      BY <1>1 DEF Registered, ChangeRequest
    <2>2. [change[c] EXCEPT !.pc = "again", !.awaits = Registered,
                            !.stopped = change[c].stopped \cup Registered] \in ChangeRequest
      BY <1>1, <2>1 DEF ChangeRequest
    <2>3. change' \in [Change -> ChangeRequest]
      BY <1>7, <2>2 DEF StopGameSyncs, TypeOK
    <2>4. ASSUME NEW j \in Job PROVE [job[j] EXCEPT !.cancelled = TRUE] \in GameSync
      BY <2>4 DEF TypeOK, GameSync
    <2>5. job' \in [Job -> GameSync]
      BY <1>7, <2>4 DEF StopGameSyncs, TypeOK
    <2> QED BY <2>3, <2>5, <1>7 DEF StopGameSyncs, TypeOK, library, requests
  <1>8. CASE DropForChange(c)
    <2>1. PICK u \in change[c].list :
            /\ DropFile(u, change[c].answer)
            /\ change' = [change EXCEPT ![c].list = @ \ {u}]
      BY <1>8 DEF DropForChange
    <2>2. u \in Dropped /\ change[c].list \ {u} \in SUBSET Dropped
      BY <1>1, <2>1 DEF ChangeRequest
    <2>3. [change[c] EXCEPT !.list = change[c].list \ {u}] \in ChangeRequest
      BY <1>1, <2>2 DEF ChangeRequest
    <2>4. change' \in [Change -> ChangeRequest]
      BY <2>1, <2>3 DEF TypeOK
    <2>5. tracked' \in [Game -> SUBSET Kind] /\ copies' \in [Game -> SUBSET Kind]
      BY <2>1, <2>2, DropFileType
    <2> QED BY <2>4, <2>5, <1>8 DEF DropForChange, TypeOK, requests
  <1>9. CASE SaveSettings(c)
    <2>1. [change[c] EXCEPT !.pc = "configure", !.result = "stored"] \in ChangeRequest
          /\ change[c].new \in SettingsRecord
      BY <1>1 DEF ChangeRequest
    <2>2. change' \in [Change -> ChangeRequest]
      BY <2>1, <1>9 DEF SaveSettings, TypeOK
    <2>3. sem' \in Change \cup {Nobody}
      BY <1>9, ReleaseSemType DEF SaveSettings
    <2> QED BY <2>1, <2>2, <2>3, <1>9 DEF SaveSettings, TypeOK, requests
  <1>10. CASE Configure(c)
    <2>1. change[c].new.paused \in BOOLEAN
      BY <1>1 DEF ChangeRequest, SettingsRecord
    <2>2. change' \in [Change -> ChangeRequest]
      BY <1>10, ChangeGotoType DEF Configure
    <2>3. trigger' \in BOOLEAN
      BY <1>10 DEF Configure, NeedsSync, SamePlan, TypeOK
    <2> QED BY <2>1, <2>2, <2>3, <1>10 DEF Configure, TypeOK, library, requests
  <1>11. CASE HangUp(c)
    <2>1. change' \in [Change -> ChangeRequest] /\ sem' \in Change \cup {Nobody}
      BY <1>11, EndChangeType DEF HangUp
    <2> QED BY <2>1, <1>11 DEF HangUp, TypeOK, library, requests
  <1> QED BY <1>2, <1>3, <1>4, <1>5, <1>6, <1>7, <1>8, <1>9, <1>10, <1>11 DEF ChangeStep

LEMMA EndEditType ==
    ASSUME TypeOK, NEW e \in Edit, EndEdit(e) PROVE edit' \in [Edit -> EditRequest]
  <1>1. [NewEdit EXCEPT !.pc = "done"] \in EditRequest
    BY NullTypes DEF EditRequest
  <1> QED BY <1>1 DEF EndEdit, TypeOK

LEMMA EditTypes ==
    ASSUME TypeOK, NEW e \in Edit,
           RequestEdit(e) \/ EditStep(e) \/ HangUpEdit(e) \/ Expire(e)
    PROVE  TypeOK'
  <1>1. edit[e] \in EditRequest /\ edit \in [Edit -> EditRequest]
    BY DEF TypeOK
  <1>2. CASE RequestEdit(e)
    <2>1. PICK kind \in EditKinds, ids \in IdSets, a \in Answers :
            /\ ids # {} /\ \A g \in ids : games[g].listed
            /\ edit' = [edit EXCEPT ![e] =
                 [NewEdit EXCEPT !.pc = IF kind = "sync" THEN "sync" ELSE "locks",
                                 !.kind = kind, !.ids = ids, !.answer = a,
                                 !.before = games[Only(ids)],
                                 !.left = IF kind = "sync" THEN ids ELSE {}]]
      BY <1>2 DEF RequestEdit
    <2>2. ids \in SUBSET Game /\ a \in {"none", "keep", "delete"}
          /\ kind \in {"select", "deselect", "optin", "optout", "sync"}
      BY <2>1, RequestAssumption
    <2>3. games[Only(ids)] \in GameRow
      <3>1. Only(ids) \in ids
        BY <2>1 DEF Only
      <3> QED BY <3>1, <2>2 DEF TypeOK
    <2>4. [NewEdit EXCEPT !.pc = IF kind = "sync" THEN "sync" ELSE "locks",
                          !.kind = kind, !.ids = ids, !.answer = a,
                          !.before = games[Only(ids)],
                          !.left = IF kind = "sync" THEN ids ELSE {}] \in EditRequest
      BY <2>2, <2>3, NullTypes DEF EditRequest
    <2>5. edit' \in [Edit -> EditRequest]
      BY <1>1, <2>1, <2>4
    <2> QED BY <2>5, <1>2 DEF RequestEdit, TypeOK, library
  <1>3. CASE LockGame(e)
    <2>1. lock' \in [Game -> Job \cup {Nobody}]
      BY <1>3 DEF LockGame, TypeOK, Job
    <2>2. [edit[e] EXCEPT !.pc = "read"] \in EditRequest
      BY <1>1 DEF EditRequest
    <2>3. edit' \in [Edit -> EditRequest]
      BY <1>1, <1>3, <2>2 DEF LockGame
    <2> QED BY <2>1, <2>3, <1>3 DEF LockGame, TypeOK, library
  <1>4. CASE ListFiles(e)
    <2>1. edit' \in [Edit -> EditRequest] /\ lock' \in [Game -> Job \cup {Nobody}]
      <3>1. CASE EndEdit(e) /\ lock' = Unlocked(e)
        BY <3>1, EndEditType, UnlockedType
      <3>2. CASE /\ edit' = [edit EXCEPT ![e].pc = "drop", ![e].list = ToDrop(e)]
                 /\ UNCHANGED lock
        <4>1. ToDrop(e) \in SUBSET Dropped
          BY ToDropType
        <4>2. [edit[e] EXCEPT !.pc = "drop", !.list = ToDrop(e)] \in EditRequest
          BY <1>1, <4>1 DEF EditRequest
        <4> QED BY <1>1, <3>2, <4>2 DEF TypeOK
      <3> QED BY <1>4, <3>1, <3>2 DEF ListFiles
    <2> QED BY <2>1, <1>4 DEF ListFiles, TypeOK, library
  <1>5. CASE DropForEdit(e)
    <2>1. PICK u \in edit[e].list :
            /\ DropFile(u, edit[e].answer)
            /\ edit' = [edit EXCEPT ![e].list = @ \ {u}]
      BY <1>5 DEF DropForEdit
    <2>2. u \in Dropped /\ edit[e].list \ {u} \in SUBSET Dropped
      BY <1>1, <2>1 DEF EditRequest
    <2>3. [edit[e] EXCEPT !.list = edit[e].list \ {u}] \in EditRequest
      BY <1>1, <2>2 DEF EditRequest
    <2>4. edit' \in [Edit -> EditRequest]
      BY <1>1, <2>1, <2>3
    <2>5. tracked' \in [Game -> SUBSET Kind] /\ copies' \in [Game -> SUBSET Kind]
      BY <2>1, <2>2, DropFileType
    <2> QED BY <2>4, <2>5, <1>5 DEF DropForEdit, TypeOK
  <1>6. CASE StoreEdit(e)
    <2>1. [edit[e] EXCEPT !.pc = "after"] \in EditRequest
      BY <1>1 DEF EditRequest
    <2>2. edit' \in [Edit -> EditRequest]
      BY <1>1, <1>6, <2>1 DEF StoreEdit
    <2>3. games' \in [Game -> GameRow]
      BY <1>6, EditedType DEF StoreEdit
    <2>4. lock' \in [Game -> Job \cup {Nobody}]
      BY <1>6, UnlockedType DEF StoreEdit
    <2> QED BY <2>2, <2>3, <2>4, <1>6 DEF StoreEdit, TypeOK
  <1>7. CASE Reply(e)
    <2>1. (IF SyncsAfter(e) THEN edit[e].ids ELSE {}) \in SUBSET Game
      BY <1>1 DEF EditRequest
    <2>2. [edit[e] EXCEPT !.pc = "sync", !.left = IF SyncsAfter(e) THEN edit[e].ids ELSE {}]
            \in EditRequest
      BY <1>1, <2>1 DEF EditRequest
    <2>3. edit' \in [Edit -> EditRequest]
      BY <1>1, <1>7, <2>2 DEF Reply
    <2> QED BY <2>3, <1>7 DEF Reply, TypeOK, library
  <1>8. CASE SyncNext(e)
    <2>1. PICK g \in edit[e].left :
            /\ edit' = [edit EXCEPT ![e].left = @ \ {g}]
            /\ job' = [job EXCEPT ![e] = [NoJob EXCEPT !.pc = "plan", !.game = g]]
      BY <1>8 DEF SyncNext
    <2>2. g \in Game /\ [edit[e] EXCEPT !.left = edit[e].left \ {g}] \in EditRequest
      BY <1>1, <2>1 DEF EditRequest
    <2>3. [NoJob EXCEPT !.pc = "plan", !.game = g] \in GameSync
      BY <2>2, NullTypes DEF GameSync
    <2>4. edit' \in [Edit -> EditRequest] /\ job' \in [Job -> GameSync]
      BY <1>1, <2>1, <2>2, <2>3 DEF TypeOK
    <2> QED BY <2>4, <1>8 DEF SyncNext, TypeOK, library
  <1>9. CASE SyncedAll(e)
    <2>1. edit' \in [Edit -> EditRequest]
      BY <1>9, EndEditType DEF SyncedAll
    <2> QED BY <2>1, <1>9 DEF SyncedAll, TypeOK, library
  <1>10. CASE HangUpEdit(e)
    <2>1. edit' \in [Edit -> EditRequest] /\ lock' \in [Game -> Job \cup {Nobody}]
      BY <1>10, EndEditType, UnlockedType DEF HangUpEdit
    <2> QED BY <2>1, <1>10 DEF HangUpEdit, TypeOK, library
  <1>11. CASE Expire(e)
    <2>1. job' \in [Job -> GameSync]
      <3>1. e \in Job
        BY DEF Job
      <3>2. [job[e] EXCEPT !.cancelled = TRUE] \in GameSync
        BY <3>1 DEF TypeOK, GameSync
      <3> QED BY <1>11, <3>1, <3>2 DEF Expire, TypeOK
    <2> QED BY <2>1, <1>11 DEF Expire, TypeOK, library, requests
  <1> QED BY <1>2, <1>3, <1>4, <1>5, <1>6, <1>7, <1>8, <1>9, <1>10, <1>11 DEF EditStep

LEMMA OtherTypes ==
    ASSUME TypeOK,
           \/ \E p \in Pauser : ReadPaused(p) \/ WritePaused(p) \/ ConfigurePaused(p)
           \/ \E g \in Game : Buy(g)
           \/ \E g \in Game, k \in Kind : Download(g, k)
    PROVE  TypeOK'
  <1>1. ASSUME NEW p \in Pauser, ReadPaused(p) PROVE TypeOK'
    <2>1. PICK flag \in BOOLEAN :
            pauser' = [pauser EXCEPT ![p].pc = "write",
                                     ![p].new = [stored EXCEPT !.paused = flag]]
      BY <1>1 DEF ReadPaused
    <2>2. [stored EXCEPT !.paused = flag] \in SettingsRecord
      BY DEF TypeOK, SettingsRecord
    <2>3. [pauser[p] EXCEPT !.pc = "write", !.new = [stored EXCEPT !.paused = flag]]
            \in PauseRequest
      BY <2>2 DEF TypeOK, PauseRequest
    <2>4. pauser' \in [Pauser -> PauseRequest]
      BY <2>1, <2>3 DEF TypeOK
    <2> QED BY <2>4, <1>1 DEF ReadPaused, TypeOK, library
  <1>2. ASSUME NEW p \in Pauser, WritePaused(p) PROVE TypeOK'
    <2>1. pauser[p].new \in SettingsRecord
          /\ [pauser[p] EXCEPT !.pc = "configure"] \in PauseRequest
      BY DEF TypeOK, PauseRequest
    <2> QED BY <2>1, <1>2 DEF WritePaused, TypeOK
  <1>3. ASSUME NEW p \in Pauser, ConfigurePaused(p) PROVE TypeOK'
    <2>1. pauser[p].new.paused \in BOOLEAN
          /\ [pauser[p] EXCEPT !.pc = "done"] \in PauseRequest
      BY DEF TypeOK, PauseRequest, SettingsRecord
    <2> QED BY <2>1, <1>3 DEF ConfigurePaused, TypeOK, library
  <1>4. ASSUME NEW g \in Game, Buy(g) PROVE TypeOK'
    BY <1>4 DEF Buy, TypeOK, library, requests
  <1>5. ASSUME NEW g \in Game, NEW k \in Kind, Download(g, k) PROVE TypeOK'
    BY <1>5 DEF Download, TypeOK, requests
  <1> QED BY <1>1, <1>2, <1>3, <1>4, <1>5

\* Every variable keeps its type: no step leaves a record, a row or a holder
\* that the code has none of.
THEOREM TypeCorrect == Spec => []TypeOK
  <1>1. TypeOK /\ [Next]_vars => TypeOK'
    <2>. SUFFICES ASSUME TypeOK, [Next]_vars PROVE TypeOK'
      OBVIOUS
    <2>1. CASE Next
      BY <2>1, FullTypes, JobTypes, ChangeTypes, EditTypes, OtherTypes DEF Next
    <2>2. CASE UNCHANGED vars
      BY <2>2 DEF vars, TypeOK
    <2> QED BY <2>1, <2>2
  <1> QED BY InitTypes, <1>1, PTL DEF Spec

-----------------------------------------------------------------------------
(* Exclusion.  That no sync has settings while a change stores others is    *)
(* not inductive; what is says step by step whom a change still waits for:  *)
(* past CancelFull, a full sync that has settings is awaited, and past      *)
(* StopGameSyncs so is every sync of a request; a sync of the full sync is  *)
(* only there while the full sync is at its details.                        *)

\* Only a change that is stopping syncs, or storing, holds planSem.
HolderIsBusy ==
    \A c \in Change : /\ sem = c => change[c].pc \in {"full", "games", "again", "drop"}
                      /\ change[c].pc \in {"full", "games", "again"} => sem = c

FullIsAwaited ==
    \A c \in Change :
        sem = c /\ change[c].pc \in {"games", "again", "drop"} /\ Planning(full)
            => Full \in change[c].awaits

JobsAreAwaited ==
    \A c \in Change : \A e \in Edit :
        sem = c /\ change[c].pc \in {"again", "drop"} /\ Planning(job[e])
            => e \in change[c].awaits

NobodyLeft == \A c \in Change : sem = c /\ change[c].pc = "drop" => change[c].awaits = {}

WorkersBelongToFull == \A g \in Game : job[g].pc # "idle" => full.pc = "details"

ExclusionInv == /\ TypeOK /\ HolderIsBusy /\ FullIsAwaited /\ JobsAreAwaited
                /\ NobodyLeft /\ WorkersBelongToFull

LEMMA InitExclusion == Init => ExclusionInv
  BY InitTypes, ProcessAssumption
     DEF Init, ExclusionInv, HolderIsBusy, FullIsAwaited, JobsAreAwaited, NobodyLeft,
         WorkersBelongToFull, Planning, NoFull, NoJob, NewChange, Job

LEMMA ExclusionIsAlone == ExclusionInv => ChangeIsAlone
  <1>. SUFFICES ASSUME ExclusionInv, NEW c \in Change, sem = c, change[c].pc = "drop"
                PROVE  ~Planning(full) /\ \A j \in Job : ~Planning(job[j])
    BY DEF ChangeIsAlone
  <1>1. change[c].awaits = {}
    BY DEF ExclusionInv, NobodyLeft
  <1>2. ~Planning(full)
    BY <1>1 DEF ExclusionInv, FullIsAwaited
  <1>3. ASSUME NEW g \in Game PROVE ~Planning(job[g])
    BY <1>2 DEF ExclusionInv, WorkersBelongToFull, Planning
  <1>4. ASSUME NEW e \in Edit PROVE ~Planning(job[e])
    BY <1>1 DEF ExclusionInv, JobsAreAwaited
  <1> QED BY <1>2, <1>3, <1>4 DEF Job

\* A step that takes settings from no change and gives them to no sync, and after
\* which nobody is waited for in vain or forgotten, keeps the invariant.
LEMMA Undisturbed ==
    ASSUME ExclusionInv, TypeOK', sem' = sem,
           \A c \in Change : /\ change'[c].pc = change[c].pc
                             /\ change'[c].awaits \subseteq change[c].awaits,
           Planning(full)' => /\ Planning(full)
                              /\ \A c \in Change : Full \in change[c].awaits
                                                     => Full \in change'[c].awaits,
           \A e \in Edit : Planning(job[e])' =>
                              /\ Planning(job[e])
                              /\ \A c \in Change : e \in change[c].awaits
                                                     => e \in change'[c].awaits,
           WorkersBelongToFull'
    PROVE  ExclusionInv'
  <1>1. HolderIsBusy'
    BY DEF ExclusionInv, HolderIsBusy
  <1>2. FullIsAwaited'
    BY DEF ExclusionInv, FullIsAwaited
  <1>3. JobsAreAwaited'
    BY DEF ExclusionInv, JobsAreAwaited
  <1>4. NobodyLeft'
    BY DEF ExclusionInv, NobodyLeft
  <1> QED BY <1>1, <1>2, <1>3, <1>4 DEF ExclusionInv

\* Nobody holds planSem, so a sync may read the settings.
LEMMA SemIsFree ==
    ASSUME ExclusionInv, TypeOK', sem = Nobody, UNCHANGED <<sem, change>>,
           WorkersBelongToFull'
    PROVE  ExclusionInv'
  BY ProcessAssumption DEF ExclusionInv, HolderIsBusy, FullIsAwaited, JobsAreAwaited, NobodyLeft

LEMMA AwaitsLess ==
    ASSUME TypeOK, NEW x,
           change' = [c \in Change |-> [change[c] EXCEPT !.awaits = @ \ {x}]]
    PROVE  \A c \in Change : /\ change'[c].pc = change[c].pc
                             /\ change'[c].awaits = change[c].awaits \ {x}
  <1>. SUFFICES ASSUME NEW c \in Change
                PROVE  /\ change'[c].pc = change[c].pc
                       /\ change'[c].awaits = change[c].awaits \ {x}
    OBVIOUS
  <1>1. change[c] \in ChangeRequest
    BY DEF TypeOK
  <1>2. change'[c] = [change[c] EXCEPT !.awaits = change[c].awaits \ {x}]
    OBVIOUS
  <1> QED BY <1>1, <1>2 DEF ChangeRequest

LEMMA FullExclusion ==
    ASSUME ExclusionInv, TriggeredSync \/ DueSync \/ FullStep \/ Relogin
    PROVE  ExclusionInv'
  <1>1. TypeOK /\ TypeOK' /\ full \in FullSync /\ WorkersBelongToFull
    BY FullTypes DEF ExclusionInv, TypeOK
  <1>2. CASE TriggeredSync \/ DueSync
    <2>1. full'.pc = "plan" /\ full.pc = "idle" /\ UNCHANGED <<sem, job, change>>
      BY <1>2 DEF TriggeredSync, DueSync, StartFull, NoFull
    <2>2. WorkersBelongToFull'
      BY <2>1, <1>1 DEF WorkersBelongToFull
    <2> QED BY <1>1, <2>1, <2>2, Undisturbed DEF Planning
  <1>3. CASE PlanFull
    <2>1. full.pc = "plan" /\ sem = Nobody /\ UNCHANGED <<sem, job, change>>
      BY <1>3 DEF PlanFull
    <2>2. WorkersBelongToFull'
      BY <2>1, <1>1 DEF WorkersBelongToFull
    <2> QED BY <1>1, <2>1, <2>2, SemIsFree
  <1>4. CASE ListGames \/ SelectGame \/ RowsDone \/ \E g \in Game : UpsertGame(g)
    <2>1. full.pc \in {"list", "select", "rows"} /\ UNCHANGED <<sem, job, change>>
      BY <1>4 DEF ListGames, SelectGame, RowsDone, UpsertGame
    <2>2. WorkersBelongToFull'
      BY <2>1, <1>1 DEF WorkersBelongToFull
    <2> QED BY <1>1, <2>1, <2>2, Undisturbed DEF Planning
  <1>5. ASSUME NEW g \in Game, StartJob(g) PROVE ExclusionInv'
    <2>1. full.pc = "details" /\ full'.pc = "details" /\ UNCHANGED <<sem, change>>
      BY <1>1, <1>5 DEF StartJob, FullSync
    <2>2. ASSUME NEW e \in Edit PROVE job'[e] = job[e]
      BY <1>5, ProcessAssumption DEF StartJob, TypeOK, ExclusionInv, Job
    <2>3. WorkersBelongToFull'
      BY <2>1 DEF WorkersBelongToFull
    <2> QED BY <1>1, <2>1, <2>2, <2>3, Undisturbed DEF Planning
  <1>6. CASE FinishFull \/ AbandonFull
    <2>1. full'.pc = "idle" /\ EndFull /\ UNCHANGED <<sem, job>>
      BY <1>6 DEF FinishFull, AbandonFull, EndFull, NoFull
    <2>2. \A c \in Change : /\ change'[c].pc = change[c].pc
                            /\ change'[c].awaits = change[c].awaits \ {Full}
      BY <1>1, <2>1, AwaitsLess DEF EndFull
    <2>3. \A g \in Game : job[g].pc = "idle"
      BY <1>1, <1>6 DEF FinishFull, AbandonFull, JobsDone, EndsWithContext, WorkersBelongToFull
    <2>4. WorkersBelongToFull'
      BY <2>1, <2>3 DEF WorkersBelongToFull
    <2>5. ~Planning(full)' /\ \A e \in Edit : e # Full
      BY <2>1, ProcessAssumption DEF Planning
    <2> QED BY <1>1, <2>1, <2>2, <2>4, <2>5, Undisturbed DEF Planning
  <1>7. CASE Relogin
    <2>1. full'.pc = full.pc /\ UNCHANGED <<sem, job, change>>
      BY <1>1, <1>7 DEF Relogin, FullSync
    <2>2. WorkersBelongToFull'
      BY <2>1, <1>1 DEF WorkersBelongToFull
    <2> QED BY <1>1, <2>1, <2>2, Undisturbed DEF Planning
  <1> QED BY <1>2, <1>3, <1>4, <1>5, <1>6, <1>7 DEF FullStep

LEMMA JobExclusion ==
    ASSUME ExclusionInv, NEW j \in Job, JobStep(j) PROVE ExclusionInv'
  <1>1. TypeOK /\ TypeOK' /\ job \in [Job -> GameSync] /\ WorkersBelongToFull
    BY JobTypes DEF ExclusionInv, TypeOK
  <1>2. UNCHANGED <<sem, full>>
    BY DEF JobStep, PlanJob, OwnedIDs, LoadGame, FetchDetails, UpsertFile, DropOthers, AbandonJob
  <1>3. ASSUME \A i \in Job : job'[i].pc # "idle" => job[i].pc # "idle"
        PROVE  WorkersBelongToFull'
    BY <1>1, <1>2, <1>3 DEF WorkersBelongToFull, Job
  <1>4. CASE PlanJob(j)
    <2>1. \A i \in Job : job'[i].pc # "idle" => job[i].pc # "idle"
      BY <1>1, <1>4 DEF PlanJob
    <2>2. sem = Nobody /\ UNCHANGED <<sem, change>>
      BY <1>4 DEF PlanJob
    <2> QED BY <1>1, <1>3, <2>1, <2>2, SemIsFree
  <1>5. CASE OwnedIDs(j) \/ LoadGame(j) \/ FetchDetails(j) \/ UpsertFile(j)
    <2>1. \A i \in Job : /\ job'[i].pc # "idle" => job[i].pc # "idle"
                         /\ Planning(job[i])' => Planning(job[i])
      BY <1>1, <1>5 DEF OwnedIDs, LoadGame, FetchDetails, UpsertFile, Planning
    <2>2. UNCHANGED <<sem, full, change>>
      BY <1>5 DEF OwnedIDs, LoadGame, FetchDetails, UpsertFile
    <2> QED BY <1>1, <1>3, <2>1, <2>2, Undisturbed DEF Planning, Job
  <1>6. CASE DropOthers(j) \/ AbandonJob(j)
    <2>1. EndJob(j)
      BY <1>6 DEF DropOthers, AbandonJob
    <2>2. \A i \in Job : job'[i] = IF i = j THEN NoJob ELSE job[i]
      BY <1>1, <2>1 DEF EndJob
    <2>3. \A c \in Change : /\ change'[c].pc = change[c].pc
                            /\ change'[c].awaits = change[c].awaits \ {j}
      BY <1>1, <2>1, AwaitsLess DEF EndJob
    <2>4. WorkersBelongToFull'
      BY <1>3, <2>2 DEF NoJob
    <2>5. \A e \in Edit : Planning(job[e])' => Planning(job[e]) /\ e # j
      BY <2>2 DEF Planning, NoJob, Job
    <2>6. Full # j
      BY ProcessAssumption DEF Job
    <2> QED BY <1>1, <1>2, <2>3, <2>4, <2>5, <2>6, Undisturbed DEF Planning
  <1> QED BY <1>4, <1>5, <1>6 DEF JobStep

\* What a change does to its own record, the others stay as they are.
LEMMA OneChange ==
    ASSUME TypeOK, NEW c \in Change, NEW r, change' = [change EXCEPT ![c] = r]
    PROVE  \A d \in Change : change'[d] = IF d = c THEN r ELSE change[d]
  BY DEF TypeOK

\* A change that does not have planSem, or gives it back, and stops nothing.
LEMMA LeavesSem ==
    ASSUME ExclusionInv, TypeOK', NEW c \in Change, NEW r, ReleaseSem(c),
           change' = [change EXCEPT ![c] = r], r.pc \notin {"full", "games", "again"},
           UNCHANGED <<full, job>>
    PROVE  ExclusionInv'
  <1>1. \A d \in Change : change'[d] = IF d = c THEN r ELSE change[d]
    BY OneChange DEF ExclusionInv
  <1>2. sem' # c /\ (sem' = sem \/ (sem' = Nobody /\ sem = c))
    BY ProcessAssumption DEF ReleaseSem
  <1>3. Nobody \notin Change
    BY ProcessAssumption
  <1>4. HolderIsBusy'
    <2>. SUFFICES ASSUME NEW d \in Change
                  PROVE  /\ sem' = d => change'[d].pc \in {"full", "games", "again", "drop"}
                         /\ change'[d].pc \in {"full", "games", "again"} => sem' = d
      BY DEF HolderIsBusy
    <2>1. CASE d = c
      BY <2>1, <1>1, <1>2
    <2>2. CASE d # c
      BY <2>2, <1>1, <1>2, <1>3 DEF ExclusionInv, HolderIsBusy
    <2> QED BY <2>1, <2>2
  <1>5. ASSUME NEW d \in Change, sem' = d PROVE sem = d /\ change'[d] = change[d]
    BY <1>1, <1>2, <1>3, <1>5
  <1>6. FullIsAwaited' /\ NobodyLeft' /\ WorkersBelongToFull'
    BY <1>5 DEF ExclusionInv, FullIsAwaited, NobodyLeft, WorkersBelongToFull, Planning
  <1>7. JobsAreAwaited'
    BY <1>5 DEF ExclusionInv, JobsAreAwaited, Planning
  <1> QED BY <1>4, <1>6, <1>7 DEF ExclusionInv

\* A change that has planSem goes on: only its own record, and how the syncs are
\* cancelled, change.
LEMMA HoldsSem ==
    ASSUME ExclusionInv, TypeOK', NEW c \in Change, NEW r, sem = c, sem' = sem,
           change' = [change EXCEPT ![c] = r],
           r.pc \in {"full", "games", "again", "drop"},
           full'.pc = full.pc, \A j \in Job : job'[j].pc = job[j].pc,
           r.pc \in {"games", "again", "drop"} /\ Planning(full) => Full \in r.awaits,
           \A e \in Edit : r.pc \in {"again", "drop"} /\ Planning(job[e]) => e \in r.awaits,
           r.pc = "drop" => r.awaits = {}
    PROVE  ExclusionInv'
  <1>1. \A d \in Change : change'[d] = IF d = c THEN r ELSE change[d]
    BY OneChange DEF ExclusionInv
  <1>2. HolderIsBusy'
    BY <1>1 DEF ExclusionInv, HolderIsBusy
  <1>3. FullIsAwaited' /\ NobodyLeft' /\ WorkersBelongToFull'
    BY <1>1 DEF ExclusionInv, FullIsAwaited, NobodyLeft, WorkersBelongToFull, Planning, Job
  <1>4. JobsAreAwaited'
    BY <1>1 DEF JobsAreAwaited, Planning, Job
  <1> QED BY <1>2, <1>3, <1>4 DEF ExclusionInv

LEMMA EndChangeExclusion ==
    ASSUME ExclusionInv, TypeOK', NEW c \in Change, NEW result, EndChange(c, result),
           UNCHANGED <<full, job>>
    PROVE  ExclusionInv'
  <1>. DEFINE r == [change[c] EXCEPT !.pc = "done", !.result = result, !.list = {},
                                     !.awaits = {}]
  <1>1. change' = [change EXCEPT ![c] = r] /\ ReleaseSem(c)
    BY DEF EndChange
  <1>2. r.pc = "done"
    BY DEF ExclusionInv, TypeOK, ChangeRequest
  <1>. HIDE DEF r
  <1> QED BY <1>1, <1>2, LeavesSem

LEMMA ChangeExclusion ==
    ASSUME ExclusionInv, NEW c \in Change, PutSettings(c) \/ ChangeStep(c) \/ HangUp(c)
    PROVE  ExclusionInv'
  <1>1. TypeOK /\ TypeOK' /\ change[c] \in ChangeRequest
    BY ChangeTypes DEF ExclusionInv, TypeOK
  <1>2. ASSUME change[c].pc \in {"new", "ask", "compare", "sem", "configure"}
        PROVE  sem # c
    BY <1>2 DEF ExclusionInv, HolderIsBusy
  <1>3. CASE PutSettings(c)
    <2>1. PICK ns \in NewSettings, a \in Answers :
            change' = [change EXCEPT ![c].pc = "ask", ![c].new = ns, ![c].answer = a,
                                     ![c].old = stored]
      BY <1>3 DEF PutSettings
    <2>. DEFINE r == [change[c] EXCEPT !.pc = "ask", !.new = ns, !.answer = a,
                                       !.old = stored]
    <2>2. r.pc = "ask" /\ change' = [change EXCEPT ![c] = r]
      BY <1>1, <2>1 DEF ChangeRequest, TypeOK
    <2>3. ReleaseSem(c) /\ UNCHANGED <<full, job>>
      BY <1>2, <1>3 DEF PutSettings, ReleaseSem
    <2> QED BY <1>1, <2>1, <2>2, <2>3, LeavesSem
  <1>4. CASE Ask(c)
    <2>1. change[c].pc = "ask" /\ UNCHANGED <<full, job>>
      BY <1>4 DEF Ask, FindUnwanted
    <2>2. CASE EndChange(c, "refused")
      BY <1>1, <2>1, <2>2, EndChangeExclusion
    <2>3. CASE /\ change' = [change EXCEPT ![c].pc = "compare",
                                  ![c].list = Unwanted(Game, change[c].new, games)]
               /\ UNCHANGED sem
      <3>. DEFINE r == [change[c] EXCEPT !.pc = "compare",
                            !.list = Unwanted(Game, change[c].new, games)]
      <3>1. change' = [change EXCEPT ![c] = r] /\ r.pc = "compare"
        BY <1>1, <2>3 DEF ChangeRequest
      <3>2. ReleaseSem(c)
        BY <1>2, <2>1, <2>3 DEF ReleaseSem
      <3>. HIDE DEF r
      <3> QED BY <1>1, <2>1, <3>1, <3>2, LeavesSem
    <2> QED BY <1>4, <2>2, <2>3 DEF Ask, FindUnwanted
  <1>5. CASE Compare(c) \/ Configure(c)
    <2>1. PICK pc \in {"drop", "sem", "done"} :
            change' = [change EXCEPT ![c] = [change[c] EXCEPT !.pc = pc]]
      BY <1>5 DEF Compare, Configure, ChangeGoto
    <2>2. [change[c] EXCEPT !.pc = pc].pc = pc
      BY <1>1 DEF ChangeRequest
    <2>3. ReleaseSem(c) /\ UNCHANGED <<full, job>>
      BY <1>2, <1>5 DEF Compare, Configure, ReleaseSem
    <2> QED BY <1>1, <2>1, <2>2, <2>3, LeavesSem
  <1>6. CASE LockPlan(c)
    <2>. DEFINE r == [change[c] EXCEPT !.pc = "full"]
    <2>1. \A d \in Change : change'[d] = IF d = c THEN r ELSE change[d]
      BY <1>1, <1>6, OneChange DEF LockPlan, ChangeGoto
    <2>2. sem = Nobody /\ sem' = c /\ UNCHANGED <<full, job>> /\ Nobody \notin Change
      BY <1>6, ProcessAssumption DEF LockPlan
    <2>3. r.pc = "full"
      BY <1>1 DEF ChangeRequest
    <2>. HIDE DEF r
    <2>4. HolderIsBusy'
      BY <2>1, <2>2, <2>3 DEF ExclusionInv, HolderIsBusy
    <2>5. FullIsAwaited' /\ NobodyLeft' /\ WorkersBelongToFull'
      BY <2>1, <2>2, <2>3 DEF ExclusionInv, FullIsAwaited, NobodyLeft, WorkersBelongToFull
    <2>6. JobsAreAwaited'
      BY <2>1, <2>2, <2>3 DEF JobsAreAwaited
    <2> QED BY <1>1, <2>4, <2>5, <2>6 DEF ExclusionInv
  <1>7. CASE CancelFull(c)
    <2>1. sem = c /\ sem' = sem /\ UNCHANGED job
      BY <1>7 DEF CancelFull, ExclusionInv, HolderIsBusy
    <2>2. CASE full.pc = "idle"
      <3>1. change' = [change EXCEPT ![c] = [change[c] EXCEPT !.pc = "games"]]
            /\ full' = full /\ ~Planning(full)
        BY <1>7, <2>2 DEF CancelFull, ChangeGoto, Planning
      <3>2. [change[c] EXCEPT !.pc = "games"].pc = "games"
        BY <1>1 DEF ChangeRequest
      <3> QED BY <1>1, <2>1, <3>1, <3>2, HoldsSem
    <2>3. CASE full.pc # "idle"
      <3>. DEFINE r == [change[c] EXCEPT !.pc = "games", !.awaits = {Full},
                                         !.stopped = {Full}]
      <3>1. change' = [change EXCEPT ![c] = r] /\ full'.pc = full.pc
        BY <1>1, <1>7, <2>3 DEF CancelFull, TypeOK, FullSync
      <3>2. r.pc = "games" /\ r.awaits = {Full}
        BY <1>1 DEF ChangeRequest
      <3>. HIDE DEF r
      <3> QED BY <1>1, <2>1, <3>1, <3>2, HoldsSem
    <2> QED BY <2>2, <2>3
  <1>8. CASE StopGameSyncs(c)
    <2>. DEFINE r == [change[c] EXCEPT !.pc = "again", !.awaits = Registered,
                                       !.stopped = change[c].stopped \cup Registered]
    <2>1. sem = c /\ sem' = sem /\ change[c].pc = "games" /\ full' = full
          /\ change[c].awaits = {}
      BY <1>8 DEF StopGameSyncs, Stopped, ExclusionInv, HolderIsBusy
    <2>2. ~Planning(full)
      BY <2>1 DEF ExclusionInv, FullIsAwaited
    <2>3. change' = [change EXCEPT ![c] = r]
      BY <1>8 DEF StopGameSyncs
    <2>4. r.pc = "again" /\ r.awaits = Registered
      BY <1>1 DEF ChangeRequest
    <2>5. ASSUME NEW j \in Job PROVE job'[j].pc = job[j].pc
      BY <1>1, <1>8 DEF StopGameSyncs, TypeOK, GameSync
    <2>6. \A e \in Edit : Planning(job[e]) => e \in Registered
      BY DEF Planning, Registered
    <2>. HIDE DEF r
    <2> QED BY <1>1, <2>1, <2>2, <2>3, <2>4, <2>5, <2>6, HoldsSem
  <1>9. CASE AskAgain(c)
    <2>1. sem = c /\ change[c].pc = "again" /\ change[c].awaits = {} /\ UNCHANGED <<full, job>>
      BY <1>9 DEF AskAgain, FindUnwanted, Stopped, ExclusionInv, HolderIsBusy
    <2>2. CASE EndChange(c, "refused")
      BY <1>1, <2>1, <2>2, EndChangeExclusion
    <2>3. CASE /\ change' = [change EXCEPT ![c].pc = "drop",
                                  ![c].list = Unwanted(Game, change[c].new, games)]
               /\ UNCHANGED sem
      <3>. DEFINE r == [change[c] EXCEPT !.pc = "drop",
                            !.list = Unwanted(Game, change[c].new, games)]
      <3>1. change' = [change EXCEPT ![c] = r] /\ r.pc = "drop" /\ r.awaits = {}
        BY <1>1, <2>1, <2>3 DEF ChangeRequest
      <3>2. ~Planning(full) /\ \A e \in Edit : ~Planning(job[e])
        BY <2>1 DEF ExclusionInv, FullIsAwaited, JobsAreAwaited
      <3>. HIDE DEF r
      <3> QED BY <1>1, <2>1, <2>3, <3>1, <3>2, HoldsSem
    <2> QED BY <1>9, <2>2, <2>3 DEF AskAgain, FindUnwanted
  <1>10. CASE DropForChange(c)
    <2>1. PICK u \in change[c].list :
            change' = [change EXCEPT ![c] = [change[c] EXCEPT !.list = change[c].list \ {u}]]
      BY <1>10 DEF DropForChange
    <2>2. \A d \in Change : change'[d].pc = change[d].pc /\ change'[d].awaits = change[d].awaits
      BY <1>1, <2>1 DEF TypeOK, ChangeRequest
    <2>3. UNCHANGED <<sem, full, job>>
      BY <1>10 DEF DropForChange
    <2>4. WorkersBelongToFull'
      BY <2>3 DEF ExclusionInv, WorkersBelongToFull
    <2> QED BY <1>1, <2>2, <2>3, <2>4, Undisturbed DEF Planning
  <1>11. CASE SaveSettings(c)
    <2>. DEFINE r == [change[c] EXCEPT !.pc = "configure", !.result = "stored"]
    <2>1. change' = [change EXCEPT ![c] = r] /\ ReleaseSem(c) /\ UNCHANGED <<full, job>>
      BY <1>11 DEF SaveSettings
    <2>2. r.pc = "configure"
      BY <1>1 DEF ChangeRequest
    <2>. HIDE DEF r
    <2> QED BY <1>1, <2>1, <2>2, LeavesSem
  <1>12. CASE HangUp(c)
    <2>1. EndChange(c, "gone") /\ UNCHANGED <<full, job>>
      BY <1>12 DEF HangUp
    <2> QED BY <1>1, <2>1, EndChangeExclusion
  <1> QED BY <1>3, <1>4, <1>5, <1>6, <1>7, <1>8, <1>9, <1>10, <1>11, <1>12 DEF ChangeStep

LEMMA OtherExclusion ==
    ASSUME ExclusionInv,
           \/ \E e \in Edit : RequestEdit(e) \/ EditStep(e) \/ HangUpEdit(e) \/ Expire(e)
           \/ \E p \in Pauser : ReadPaused(p) \/ WritePaused(p) \/ ConfigurePaused(p)
           \/ \E g \in Game : Buy(g)
           \/ \E g \in Game, k \in Kind : Download(g, k)
    PROVE  ExclusionInv'
  <1>1. TypeOK /\ TypeOK' /\ job \in [Job -> GameSync]
    BY EditTypes, OtherTypes DEF ExclusionInv, TypeOK
  <1>2. UNCHANGED <<sem, full, change>>
    BY DEF RequestEdit, EditStep, LockGame, ListFiles, DropForEdit, StoreEdit, Reply,
           SyncNext, SyncedAll, HangUpEdit, Expire, ReadPaused, WritePaused,
           ConfigurePaused, Buy, Download
  <1>3. \/ job' = job
        \/ \E e \in Edit : SyncNext(e) \/ Expire(e)
    BY DEF RequestEdit, EditStep, LockGame, ListFiles, DropForEdit, StoreEdit, Reply,
           SyncNext, SyncedAll, HangUpEdit, Expire, ReadPaused, WritePaused,
           ConfigurePaused, Buy, Download
  <1>4. \A j \in Job : Planning(job[j])' => Planning(job[j])
    <2>1. ASSUME NEW e \in Edit, NEW j \in Job, SyncNext(e)
          PROVE  Planning(job[j])' => Planning(job[j])
      BY <1>1, <2>1, NullTypes DEF SyncNext, Planning, GameSync
    <2>2. ASSUME NEW e \in Edit, NEW j \in Job, Expire(e)
          PROVE  Planning(job[j])' => Planning(job[j])
      BY <1>1, <2>2 DEF Expire, Planning, GameSync
    <2> QED BY <1>3, <2>1, <2>2 DEF Planning
  <1>5. \A g \in Game : job'[g] = job[g]
    BY <1>1, <1>3, ProcessAssumption DEF SyncNext, Expire, Job
  <1>6. WorkersBelongToFull'
    BY <1>2, <1>5 DEF ExclusionInv, WorkersBelongToFull
  <1> QED BY <1>1, <1>2, <1>4, <1>6, Undisturbed DEF Job, Planning

LEMMA ExclusionHolds == Spec => []ExclusionInv
  <1>1. ExclusionInv /\ [Next]_vars => ExclusionInv'
    <2>. SUFFICES ASSUME ExclusionInv, [Next]_vars PROVE ExclusionInv'
      OBVIOUS
    <2>1. CASE Next
      BY <2>1, FullExclusion, JobExclusion, ChangeExclusion, OtherExclusion DEF Next
    <2>2. CASE UNCHANGED vars
      BY <2>2 DEF vars, ExclusionInv, TypeOK, HolderIsBusy, FullIsAwaited, JobsAreAwaited,
                  NobodyLeft, WorkersBelongToFull, Planning
    <2> QED BY <2>1, <2>2
  <1> QED BY InitExclusion, <1>1, PTL DEF Spec

\* While a change of the plan drops files and stores the settings, no sync of any
\* kind works with settings it has read, however many requests and syncs there are.
THEOREM ChangesExcludeSyncs == Spec => []ChangeIsAlone
  BY ExclusionHolds, ExclusionIsAlone, PTL

-----------------------------------------------------------------------------
(* Requests and the locks of games.                                        *)

\* The sync a request leaves behind runs when the request itself is through.
SyncsLast == \A e \in Edit : job[e].pc # "idle" => edit[e].pc = "sync"

\* A request that takes its locks has taken those of its smallest games.
TakenInOrder ==
    \A e \in Edit : edit[e].pc \in {"new", "locks"} =>
        \A g \in Game : lock[g] = e =>
            /\ edit[e].pc = "locks" /\ g \in edit[e].ids
            /\ \A h \in edit[e].ids : lock[h] # e => g <= h

LockInv == TypeOK /\ SyncsLast /\ TakenInOrder

LEMMA InitLocks == Init => LockInv
  BY InitTypes, ProcessAssumption
     DEF Init, LockInv, SyncsLast, TakenInOrder, NoJob, NewEdit, Job

LEMMA LocksAreAcyclic == LockInv => NoCircularWait
  <1>. SUFFICES ASSUME LockInv, NEW e \in Edit, NEW f \in Edit, e # f,
                       edit[e].pc = "locks", edit[f].pc = "locks",
                       NEW g \in edit[e].ids, NEW h \in edit[f].ids,
                       lock[g] = f, lock[h] = e
                PROVE  FALSE
    BY DEF NoCircularWait
  <1>1. g \in Game /\ h \in Game /\ g \in Int /\ h \in Int
    BY GameAssumption DEF LockInv, TypeOK, EditRequest
  <1>2. g \in edit[f].ids /\ g <= h
    BY <1>1 DEF LockInv, TakenInOrder
  <1>3. h \in edit[e].ids /\ h <= g
    BY <1>1 DEF LockInv, TakenInOrder
  <1> QED BY <1>1, <1>2, <1>3

\* A step that leaves to every request that takes locks what it has taken.
LEMMA LocksKept ==
    ASSUME LockInv, TypeOK', SyncsLast',
           \A e \in Edit : edit'[e].pc \in {"new", "locks"} =>
               /\ edit'[e].pc = edit[e].pc /\ edit'[e].ids = edit[e].ids
               /\ \A g \in Game : lock'[g] = e <=> lock[g] = e
    PROVE  LockInv'
  <1>1. ASSUME NEW e \in Edit, edit'[e].pc \in {"new", "locks"}, NEW g \in Game, lock'[g] = e
        PROVE  /\ edit'[e].pc = "locks" /\ g \in edit'[e].ids
               /\ \A h \in edit'[e].ids : lock'[h] # e => g <= h
    <2>1. edit[e].ids \subseteq Game
      BY DEF LockInv, TypeOK, EditRequest
    <2> QED BY <1>1, <2>1 DEF LockInv, TakenInOrder
  <1> QED BY <1>1 DEF LockInv, TakenInOrder

LEMMA FullLocks ==
    ASSUME LockInv,
           \/ TriggeredSync \/ DueSync \/ FullStep \/ Relogin
           \/ \E c \in Change : PutSettings(c) \/ ChangeStep(c) \/ HangUp(c)
           \/ \E e \in Edit : Expire(e)
           \/ \E p \in Pauser : ReadPaused(p) \/ WritePaused(p) \/ ConfigurePaused(p)
           \/ \E g \in Game : Buy(g)
           \/ \E g \in Game, k \in Kind : Download(g, k)
    PROVE  LockInv'
  <1>1. TypeOK /\ TypeOK' /\ job \in [Job -> GameSync]
    BY FullTypes, ChangeTypes, EditTypes, OtherTypes DEF LockInv, TypeOK
  <1>2. UNCHANGED <<lock, edit>>
    BY DEF TriggeredSync, DueSync, StartFull, FullStep, PlanFull, ListGames, UpsertGame,
           SelectGame, RowsDone, StartJob, FinishFull, AbandonFull, EndFull, Relogin,
           PutSettings, ChangeStep, Ask, FindUnwanted, EndChange, Compare, ChangeGoto,
           LockPlan, CancelFull, StopGameSyncs, AskAgain, DropForChange, SaveSettings,
           Configure, HangUp, Expire, ReadPaused, WritePaused, ConfigurePaused, Buy,
           Download, requests
  <1>3. \/ job' = job
        \/ \E g \in Game : StartJob(g)
        \/ \E c \in Change : StopGameSyncs(c)
        \/ \E e \in Edit : Expire(e)
    BY DEF TriggeredSync, DueSync, StartFull, FullStep, PlanFull, ListGames, UpsertGame,
           SelectGame, RowsDone, FinishFull, AbandonFull, EndFull, Relogin,
           PutSettings, ChangeStep, Ask, FindUnwanted, EndChange, Compare, ChangeGoto,
           LockPlan, CancelFull, AskAgain, DropForChange, SaveSettings,
           Configure, HangUp, ReadPaused, WritePaused, ConfigurePaused, Buy, Download
  <1>4. ASSUME NEW e \in Edit PROVE job'[e].pc = job[e].pc
    <2>1. ASSUME NEW g \in Game, StartJob(g) PROVE job'[e].pc = job[e].pc
      BY <1>1, <2>1, ProcessAssumption DEF StartJob, Job
    <2>2. ASSUME NEW c \in Change, StopGameSyncs(c) PROVE job'[e].pc = job[e].pc
      BY <1>1, <2>2 DEF StopGameSyncs, Job, GameSync
    <2>3. ASSUME NEW x \in Edit, Expire(x) PROVE job'[e].pc = job[e].pc
      BY <1>1, <2>3 DEF Expire, Job, GameSync
    <2> QED BY <1>3, <2>1, <2>2, <2>3
  <1>5. SyncsLast'
    BY <1>2, <1>4 DEF LockInv, SyncsLast
  <1> QED BY <1>1, <1>2, <1>5, LocksKept

LEMMA JobLocks ==
    ASSUME LockInv, NEW j \in Job, JobStep(j) PROVE LockInv'
  <1>1. TypeOK /\ TypeOK' /\ job \in [Job -> GameSync] /\ lock \in [Game -> Job \cup {Nobody}]
    BY JobTypes DEF LockInv, TypeOK
  <1>2. job[j].pc # "idle" /\ UNCHANGED edit
    BY DEF JobStep, PlanJob, OwnedIDs, LoadGame, FetchDetails, UpsertFile, DropOthers,
           AbandonJob, EndsWithContext, requests
  <1>3. \A e \in Edit : job'[e].pc # "idle" => job[e].pc # "idle"
    BY <1>1, <1>2, NullTypes
       DEF JobStep, PlanJob, OwnedIDs, LoadGame, FetchDetails, UpsertFile, DropOthers,
           AbandonJob, EndJob, NoJob, Job, GameSync
  <1>4. SyncsLast'
    BY <1>2, <1>3 DEF LockInv, SyncsLast
  <1>5. j \in Edit => edit[j].pc = "sync"
    BY <1>2 DEF LockInv, SyncsLast
  <1>6. \A g \in Game : lock'[g] # lock[g] =>
            \/ lock'[g] = j /\ lock[g] = Nobody
            \/ lock'[g] = Nobody /\ lock[g] = j
    <2>1. CASE LoadGame(j)
      BY <1>1, <2>1 DEF LoadGame
    <2>2. CASE DropOthers(j) \/ AbandonJob(j)
      BY <1>1, <2>2 DEF DropOthers, AbandonJob, EndJob, Unlocked
    <2>3. CASE PlanJob(j) \/ OwnedIDs(j) \/ FetchDetails(j) \/ UpsertFile(j)
      BY <2>3 DEF PlanJob, OwnedIDs, FetchDetails, UpsertFile
    <2> QED BY <2>1, <2>2, <2>3 DEF JobStep
  <1>7. ASSUME NEW e \in Edit, edit[e].pc \in {"new", "locks"}
        PROVE  e # j /\ e # Nobody
    BY <1>5, <1>7, ProcessAssumption
  <1> QED BY <1>1, <1>2, <1>4, <1>6, <1>7, LocksKept

LEMMA EditLocks ==
    ASSUME LockInv, NEW e \in Edit, RequestEdit(e) \/ EditStep(e) \/ HangUpEdit(e)
    PROVE  LockInv'
  <1>1. TypeOK /\ TypeOK' /\ edit \in [Edit -> EditRequest] /\ job \in [Job -> GameSync]
        /\ lock \in [Game -> Job \cup {Nobody}]
    BY EditTypes DEF LockInv, TypeOK
  <1>2. e # Nobody /\ e \in Job
    BY ProcessAssumption DEF Job
  <1>3. \A f \in Edit \ {e} : edit'[f] = edit[f] /\ job'[f] = job[f]
    BY <1>1, <1>2 DEF RequestEdit, EditStep, LockGame, ListFiles, EndEdit, DropForEdit,
       StoreEdit, Reply, SyncNext, SyncedAll, HangUpEdit, Job
  <1>4. \A f \in Edit \ {e} : \A g \in Game : lock'[g] = f <=> lock[g] = f
    BY <1>1, <1>2, ProcessAssumption
       DEF RequestEdit, EditStep, LockGame, ListFiles, EndEdit, DropForEdit,
           StoreEdit, Reply, SyncNext, SyncedAll, HangUpEdit, Unlocked
  <1>5. SyncsLast'
    <2>1. job'[e].pc # "idle" => edit'[e].pc = "sync"
      BY <1>1, <1>2 DEF RequestEdit, EditStep, LockGame, ListFiles, EndEdit, DropForEdit,
         StoreEdit, Reply, SyncNext, SyncedAll, HangUpEdit, LockInv, SyncsLast, EditRequest
    <2> QED BY <1>3, <2>1 DEF LockInv, SyncsLast
  <1>6. CASE RequestEdit(e)
    <2>1. edit[e].pc = "new" /\ UNCHANGED lock
      BY <1>6 DEF RequestEdit
    <2>2. \A g \in Game : lock[g] # e
      BY <2>1 DEF LockInv, TakenInOrder
    <2>3. TakenInOrder'
      <3>. SUFFICES ASSUME NEW f \in Edit, edit'[f].pc \in {"new", "locks"},
                           NEW g \in Game, lock'[g] = f
                    PROVE  /\ edit'[f].pc = "locks" /\ g \in edit'[f].ids
                           /\ \A h \in edit'[f].ids : lock'[h] # f => g <= h
        BY DEF TakenInOrder
      <3>1. f # e /\ edit'[f] = edit[f] /\ lock' = lock
        BY <1>3, <2>1, <2>2
      <3> QED BY <3>1 DEF LockInv, TakenInOrder
    <2> QED BY <1>1, <1>5, <2>3 DEF LockInv
  <1>7. CASE LockGame(e)
    <2>1. edit[e].pc = "locks" /\ edit'[e].ids = edit[e].ids
          /\ edit'[e].pc \in {"locks", "read"}
      BY <1>1, <1>7 DEF LockGame, EditRequest
    <2>2. PICK g \in {x \in edit[e].ids : lock[x] # e} :
            /\ \A h \in edit[e].ids : lock[h] # e => g <= h
            /\ lock' = [lock EXCEPT ![g] = e]
      BY <1>7 DEF LockGame, InOrder
    <2>3. edit[e].ids \subseteq Game
      BY <1>1 DEF EditRequest
    <2>4. ASSUME NEW x \in Game, lock'[x] = e
          PROVE  x \in edit[e].ids /\ \A h \in edit[e].ids : lock'[h] # e => x <= h
      <3>1. CASE x = g
        BY <1>1, <2>2, <2>3, <3>1
      <3>2. CASE x # g
        BY <1>1, <2>1, <2>2, <2>3, <2>4, <3>2 DEF LockInv, TakenInOrder
      <3> QED BY <3>1, <3>2
    <2>5. TakenInOrder'
      <3>. SUFFICES ASSUME NEW f \in Edit, edit'[f].pc \in {"new", "locks"},
                           NEW x \in Game, lock'[x] = f
                    PROVE  /\ edit'[f].pc = "locks" /\ x \in edit'[f].ids
                           /\ \A h \in edit'[f].ids : lock'[h] # f => x <= h
        BY DEF TakenInOrder
      <3>1. CASE f = e
        BY <2>1, <2>4, <3>1
      <3>2. CASE f # e
        <4>1. edit'[f] = edit[f] /\ edit[f].ids \subseteq Game /\ lock[x] = f
          BY <1>1, <1>3, <1>4, <3>2 DEF EditRequest
        <4> QED BY <1>4, <3>2, <4>1 DEF LockInv, TakenInOrder
      <3> QED BY <3>1, <3>2
    <2> QED BY <1>1, <1>5, <2>5 DEF LockInv
  <1>8. CASE ListFiles(e) \/ DropForEdit(e) \/ StoreEdit(e) \/ Reply(e) \/ SyncNext(e)
             \/ SyncedAll(e) \/ HangUpEdit(e)
    <2>1. edit'[e].pc \notin {"new", "locks"}
      <3>1. CASE ListFiles(e)
        <4>1. CASE Unanswered(ToDrop(e), edit[e].answer)
          BY <1>1, <3>1, <4>1 DEF ListFiles, EndEdit, NewEdit
        <4>2. CASE ~Unanswered(ToDrop(e), edit[e].answer)
          BY <1>1, <3>1, <4>2 DEF ListFiles, EditRequest
        <4> QED BY <4>1, <4>2
      <3>2. CASE DropForEdit(e) \/ StoreEdit(e) \/ Reply(e)
        BY <1>1, <3>2 DEF DropForEdit, StoreEdit, Reply, EditRequest
      <3>3. CASE SyncNext(e)
        BY <1>1, <3>3 DEF SyncNext, EditRequest
      <3>4. CASE SyncedAll(e) \/ HangUpEdit(e)
        BY <1>1, <3>4 DEF SyncedAll, HangUpEdit, EndEdit, NewEdit
      <3> QED BY <1>8, <3>1, <3>2, <3>3, <3>4
    <2> QED BY <1>1, <1>3, <1>4, <1>5, <2>1, LocksKept
  <1> QED BY <1>6, <1>7, <1>8 DEF EditStep

LEMMA LocksHold == Spec => []LockInv
  <1>1. LockInv /\ [Next]_vars => LockInv'
    <2>. SUFFICES ASSUME LockInv, [Next]_vars PROVE LockInv'
      OBVIOUS
    <2>1. CASE Next
      BY <2>1, FullLocks, JobLocks, EditLocks DEF Next
    <2>2. CASE UNCHANGED vars
      BY <2>2 DEF vars, LockInv, TypeOK, SyncsLast, TakenInOrder
    <2> QED BY <2>1, <2>2
  <1> QED BY InitLocks, <1>1, PTL DEF Spec

\* However many requests name whatever games in whatever order: no two of them wait
\* for each other, since SetSelection takes the games' locks in the order of their ids.
THEOREM LocksInOrder == Spec => []NoCircularWait
  BY LocksHold, LocksAreAcyclic, PTL

-----------------------------------------------------------------------------
(* Nobody works with a plan that has been replaced.                        *)

\* One request stores settings, or only those on the pause flag do: two that
\* compare before either has planSem, or a pause that writes back what it read,
\* replace a plan without stopping anyone.
OneAuthor ==
    /\ \A c, d \in Change : c = d
    /\ Change = {} \/ Pauser = {}

\* What a pause writes back has the stored plan, and so has a change that stores
\* without having stopped the syncs.
PlanInv ==
    /\ PlansAreCurrent
    /\ \A p \in Pauser : pauser[p].pc = "write" => SamePlan(pauser[p].new, stored)
    /\ \A c \in Change : change[c].pc = "drop" /\ sem # c => SamePlan(change[c].new, stored)

\* A sync that works, has been working, or reads the settings now; and settings
\* that are replaced by some with the same plan.
LEMMA PlanStays ==
    ASSUME PlanInv, SamePlan(stored', stored),
           Planning(full)' => \/ Planning(full) /\ full'.snap = full.snap
                              \/ full'.snap = stored,
           \A j \in Job : Planning(job[j])' =>
                 \/ Planning(job[j]) /\ job'[j].snap = job[j].snap
                 \/ job'[j].snap = stored
                 \/ Planning(full) /\ job'[j].snap = full.snap
    PROVE  PlansAreCurrent'
  BY DEF PlanInv, PlansAreCurrent, SamePlan

LEMMA SamePlanAlways ==
    /\ \A s : SamePlan(s, s)
    /\ \A s, o : SamePlan(s, o) <=> SamePlan(o, s)
    /\ \A s, o, t : SamePlan(s, o) /\ SamePlan(o, t) => SamePlan(s, t)
  BY DEF SamePlan

LEMMA InitPlan == Init => PlanInv
  BY ProcessAssumption DEF Init, PlanInv, PlansAreCurrent, Planning, NoFull, NoJob,
     NewPause, NewChange

\* Who neither stores settings nor is about to.
LEMMA PlanUnchanged ==
    ASSUME PlanInv, UNCHANGED <<stored, pauser, sem>>,
           \A c \in Change : change'[c].pc = change[c].pc /\ change'[c].new = change[c].new,
           PlansAreCurrent'
    PROVE  PlanInv'
  BY DEF PlanInv

LEMMA FullPlan ==
    ASSUME ExclusionInv, PlanInv, TriggeredSync \/ DueSync \/ FullStep \/ Relogin
    PROVE  PlanInv'
  <1>1. full \in FullSync /\ job \in [Job -> GameSync] /\ TypeOK
    BY DEF ExclusionInv, TypeOK
  <1>2. UNCHANGED <<stored, pauser, sem>>
    BY DEF TriggeredSync, DueSync, StartFull, FullStep, PlanFull, ListGames, SelectGame,
       RowsDone, FinishFull, AbandonFull, UpsertGame, StartJob, Relogin, library, requests
  <1>3. \A c \in Change : change'[c].pc = change[c].pc /\ change'[c].new = change[c].new
    <2>1. CASE UNCHANGED change
      BY <2>1
    <2>2. CASE EndFull
      BY <1>1, <2>2 DEF EndFull, TypeOK, ChangeRequest
    <2> QED BY <2>1, <2>2 DEF TriggeredSync, DueSync, StartFull, FullStep, PlanFull,
       ListGames, SelectGame, RowsDone, FinishFull, AbandonFull, UpsertGame, StartJob, Relogin
  <1>4. Planning(full)' => \/ Planning(full) /\ full'.snap = full.snap
                           \/ full'.snap = stored
    <2>1. CASE TriggeredSync \/ DueSync
      BY <2>1 DEF TriggeredSync, DueSync, StartFull, NoFull, Planning
    <2>2. CASE PlanFull
      BY <1>1, <2>2 DEF PlanFull, FullSync
    <2>3. CASE ListGames \/ SelectGame \/ RowsDone \/ \E g \in Game : UpsertGame(g) \/ StartJob(g)
      BY <1>1, <2>3 DEF ListGames, SelectGame, RowsDone, UpsertGame, StartJob, FullSync,
         Planning
    <2>4. CASE FinishFull \/ AbandonFull
      BY <2>4 DEF FinishFull, AbandonFull, EndFull, NoFull, Planning
    <2>5. CASE Relogin
      BY <1>1, <2>5 DEF Relogin, FullSync, Planning
    <2> QED BY <2>1, <2>2, <2>3, <2>4, <2>5 DEF FullStep
  <1>5. ASSUME NEW j \in Job, Planning(job[j])'
        PROVE  \/ Planning(job[j]) /\ job'[j].snap = job[j].snap
               \/ job'[j].snap = stored
               \/ Planning(full) /\ job'[j].snap = full.snap
    <2>1. CASE UNCHANGED job
      BY <1>5, <2>1 DEF Planning
    <2>2. ASSUME NEW g \in Game, StartJob(g)
          PROVE  \/ Planning(job[j]) /\ job'[j].snap = job[j].snap
                 \/ Planning(full) /\ job'[j].snap = full.snap
      <3>1. Planning(full) /\ g \in Job
        BY <2>2 DEF StartJob, Planning, Job
      <3>2. CASE j = g
        <4>1. job'[j] = [NoJob EXCEPT !.pc = "lock", !.snap = full.snap, !.game = g]
          BY <1>1, <2>2, <3>2 DEF StartJob
        <4>2. job'[j].snap = full.snap
          BY <4>1 DEF NoJob
        <4> QED BY <3>1, <4>2
      <3>3. CASE j # g
        BY <1>1, <1>5, <2>2, <3>3 DEF StartJob, Planning
      <3> QED BY <3>2, <3>3
    <2> QED BY <2>1, <2>2 DEF TriggeredSync, DueSync, StartFull, FullStep, PlanFull,
       ListGames, SelectGame, RowsDone, FinishFull, AbandonFull, UpsertGame, Relogin
  <1>6. PlansAreCurrent'
    BY <1>2, <1>4, <1>5, PlanStays, SamePlanAlways
  <1> QED BY <1>2, <1>3, <1>6, PlanUnchanged

LEMMA JobPlan ==
    ASSUME ExclusionInv, PlanInv, NEW j \in Job, JobStep(j)
    PROVE  PlanInv'
  <1>1. job \in [Job -> GameSync] /\ TypeOK
    BY DEF ExclusionInv, TypeOK
  <1>2. UNCHANGED <<stored, pauser, sem, full>>
    BY DEF JobStep, PlanJob, OwnedIDs, LoadGame, FetchDetails, UpsertFile, DropOthers,
       AbandonJob, library, requests
  <1>3. \A c \in Change : change'[c].pc = change[c].pc /\ change'[c].new = change[c].new
    <2>1. CASE UNCHANGED change
      BY <2>1
    <2>2. CASE EndJob(j)
      BY <1>1, <2>2 DEF EndJob, TypeOK, ChangeRequest
    <2> QED BY <2>1, <2>2 DEF JobStep, PlanJob, OwnedIDs, LoadGame, FetchDetails,
       UpsertFile, DropOthers, AbandonJob
  <1>4. ASSUME NEW i \in Job, Planning(job[i])'
        PROVE  \/ Planning(job[i]) /\ job'[i].snap = job[i].snap
               \/ job'[i].snap = stored
    <2>1. CASE PlanJob(j)
      BY <1>1, <1>4, <2>1 DEF PlanJob, GameSync, Planning
    <2>2. CASE OwnedIDs(j) \/ LoadGame(j) \/ FetchDetails(j) \/ UpsertFile(j)
      <3>1. Planning(job[j])
        BY <2>2 DEF OwnedIDs, LoadGame, FetchDetails, UpsertFile, Planning
      <3>2. job'[j].snap = job[j].snap
        <4>1. CASE OwnedIDs(j) \/ FetchDetails(j)
          BY <1>1, <4>1 DEF OwnedIDs, FetchDetails, GameSync
        <4>2. CASE LoadGame(j)
          BY <1>1, <4>2 DEF LoadGame, GameSync
        <4>3. CASE UpsertFile(j)
          BY <1>1, <4>3 DEF UpsertFile, GameSync
        <4> QED BY <2>2, <4>1, <4>2, <4>3
      <3>3. i # j => job'[i] = job[i]
        BY <1>1, <2>2 DEF OwnedIDs, LoadGame, FetchDetails, UpsertFile
      <3> QED BY <1>4, <3>1, <3>2, <3>3 DEF Planning
    <2>3. CASE EndJob(j)
      BY <1>1, <1>4, <2>3 DEF EndJob, NoJob, Planning
    <2> QED BY <2>1, <2>2, <2>3 DEF JobStep, DropOthers, AbandonJob
  <1>5. PlansAreCurrent'
    BY <1>2, <1>4, PlanStays, SamePlanAlways
  <1> QED BY <1>2, <1>3, <1>5, PlanUnchanged

LEMMA ChangePlan ==
    ASSUME OneAuthor, ExclusionInv, PlanInv, NEW c \in Change,
           PutSettings(c) \/ ChangeStep(c) \/ HangUp(c)
    PROVE  PlanInv'
  <1>1. /\ change \in [Change -> ChangeRequest] /\ full \in FullSync
        /\ job \in [Job -> GameSync] /\ TypeOK
    BY DEF ExclusionInv, TypeOK
  <1>2. Pauser = {} /\ \A d \in Change : d = c
    BY DEF OneAuthor
  <1>3. /\ Planning(full)' => Planning(full) /\ full'.snap = full.snap
        /\ \A j \in Job : Planning(job[j])' => Planning(job[j]) /\ job'[j].snap = job[j].snap
    <2>1. CASE CancelFull(c)
      BY <1>1, <2>1 DEF CancelFull, FullSync, Planning
    <2>2. CASE StopGameSyncs(c)
      BY <1>1, <2>2 DEF StopGameSyncs, GameSync, Planning
    <2>3. CASE UNCHANGED <<full, job>>
      BY <2>3 DEF Planning
    <2> QED BY <2>1, <2>2, <2>3 DEF PutSettings, ChangeStep, HangUp, Ask, AskAgain,
       FindUnwanted, Compare, LockPlan, DropForChange, SaveSettings, Configure
  <1>4. CASE ~SaveSettings(c)
    <2>1. UNCHANGED stored
      BY <1>4 DEF PutSettings, ChangeStep, HangUp, Ask, AskAgain, FindUnwanted, Compare,
         LockPlan, CancelFull, StopGameSyncs, DropForChange, Configure, library
    <2>2. PlansAreCurrent'
      BY <1>3, <2>1, PlanStays, SamePlanAlways
    <2>3. change'[c].pc = "drop" /\ sem' # c => SamePlan(change'[c].new, stored)
      <3>1. CASE Compare(c)
        BY <1>1, <3>1, SamePlanAlways DEF Compare, ChangeGoto, ChangeRequest
      <3>2. CASE AskAgain(c)
        <4>1. sem = c
          BY <3>2 DEF AskAgain, FindUnwanted, ExclusionInv, HolderIsBusy
        <4>2. CASE EndChange(c, "refused")
          BY <1>1, <4>2 DEF EndChange, ChangeRequest
        <4>3. CASE UNCHANGED sem
          BY <4>1, <4>3
        <4> QED BY <3>2, <4>2, <4>3 DEF AskAgain, FindUnwanted
      <3>3. CASE DropForChange(c)
        BY <1>1, <3>3 DEF DropForChange, ChangeRequest, PlanInv
      <3>4. CASE Ask(c) \/ HangUp(c)
        BY <1>1, <3>4 DEF Ask, FindUnwanted, HangUp, EndChange, ChangeRequest
      <3>5. CASE LockPlan(c) \/ StopGameSyncs(c) \/ Configure(c)
        BY <1>1, <3>5 DEF LockPlan, StopGameSyncs, Configure, ChangeGoto, ChangeRequest
      <3>6. CASE CancelFull(c)
        BY <1>1, <3>6 DEF CancelFull, ChangeGoto, ChangeRequest
      <3>7. CASE PutSettings(c)
        <4>1. PICK ns, a : change' = [change EXCEPT ![c].pc = "ask", ![c].new = ns,
                                                    ![c].answer = a, ![c].old = stored]
          BY <3>7 DEF PutSettings
        <4>2. change'[c].pc = "ask"
          BY <1>1, <4>1 DEF ChangeRequest
        <4> QED BY <4>2
      <3> QED BY <1>4, <3>1, <3>2, <3>3, <3>4, <3>5, <3>6, <3>7 DEF ChangeStep
    <2> QED BY <1>2, <2>1, <2>2, <2>3 DEF PlanInv
  <1>5. CASE SaveSettings(c)
    <2>1. /\ change[c].pc = "drop" /\ stored' = change[c].new
          /\ change'[c].pc = "configure" /\ UNCHANGED <<full, job>>
      BY <1>1, <1>5 DEF SaveSettings, ChangeRequest
    <2>2. PlansAreCurrent'
      <3>1. CASE sem = c
        <4>1. ~Planning(full) /\ \A j \in Job : ~Planning(job[j])
          BY <2>1, <3>1, ExclusionIsAlone DEF ChangeIsAlone
        <4> QED BY <2>1, <4>1 DEF PlansAreCurrent, Planning
      <3>2. CASE sem # c
        <4>1. SamePlan(stored', stored)
          BY <2>1, <3>2 DEF PlanInv
        <4> QED BY <1>3, <4>1, PlanStays
      <3> QED BY <3>1, <3>2
    <2> QED BY <1>2, <2>1, <2>2 DEF PlanInv
  <1> QED BY <1>4, <1>5

LEMMA OtherPlan ==
    ASSUME OneAuthor, ExclusionInv, PlanInv,
           \/ \E e \in Edit : RequestEdit(e) \/ EditStep(e) \/ HangUpEdit(e) \/ Expire(e)
           \/ \E p \in Pauser : ReadPaused(p) \/ WritePaused(p) \/ ConfigurePaused(p)
           \/ \E g \in Game : Buy(g)
           \/ \E g \in Game, k \in Kind : Download(g, k)
    PROVE  PlanInv'
  <1>1. /\ job \in [Job -> GameSync] /\ pauser \in [Pauser -> PauseRequest]
        /\ stored \in SettingsRecord
    BY DEF ExclusionInv, TypeOK
  <1>2. UNCHANGED <<sem, full, change>>
    BY DEF RequestEdit, EditStep, LockGame, ListFiles, DropForEdit, StoreEdit, Reply,
           SyncNext, SyncedAll, HangUpEdit, Expire, ReadPaused, WritePaused,
           ConfigurePaused, Buy, Download
  <1>3. ASSUME NEW j \in Job, Planning(job[j])'
        PROVE  Planning(job[j]) /\ job'[j].snap = job[j].snap
    <2>1. ASSUME NEW e \in Edit, SyncNext(e)
          PROVE  Planning(job[j]) /\ job'[j].snap = job[j].snap
      <3>1. CASE j = e
        <4>1. \E g : job'[j] = [NoJob EXCEPT !.pc = "plan", !.game = g]
          BY <1>1, <2>1, <3>1 DEF SyncNext
        <4>2. job'[j].pc = "plan"
          BY <4>1 DEF NoJob
        <4> QED BY <1>3, <4>2 DEF Planning
      <3>2. CASE j # e
        BY <1>1, <1>3, <2>1, <3>2 DEF SyncNext, Planning
      <3> QED BY <3>1, <3>2
    <2>2. ASSUME NEW e \in Edit, Expire(e)
          PROVE  Planning(job[j]) /\ job'[j].snap = job[j].snap
      BY <1>1, <1>3, <2>2 DEF Expire, Planning, GameSync
    <2>3. CASE job' = job
      BY <1>3, <2>3 DEF Planning
    <2> QED BY <2>1, <2>2, <2>3 DEF RequestEdit, EditStep, LockGame, ListFiles, DropForEdit,
       StoreEdit, Reply, SyncedAll, HangUpEdit, ReadPaused, WritePaused,
       ConfigurePaused, Buy, Download
  <1>4. ASSUME NEW p \in Pauser, ReadPaused(p)
        PROVE  UNCHANGED stored /\ \A q \in Pauser : pauser'[q].pc = "write"
                                      => SamePlan(pauser'[q].new, stored)
    <2>1. PICK flag \in BOOLEAN :
             pauser' = [pauser EXCEPT ![p].pc = "write", ![p].new = [stored EXCEPT !.paused = flag]]
      BY <1>4 DEF ReadPaused
    <2>2. SamePlan([stored EXCEPT !.paused = flag], stored)
      BY <1>1 DEF SettingsRecord, SamePlan
    <2>3. pauser'[p].new = [stored EXCEPT !.paused = flag]
      BY <1>1, <2>1 DEF PauseRequest
    <2>4. \A q \in Pauser : q # p => pauser'[q] = pauser[q]
      BY <1>1, <2>1
    <2> QED BY <1>4, <2>2, <2>3, <2>4 DEF ReadPaused, PlanInv, library
  <1>5. ASSUME NEW p \in Pauser, WritePaused(p)
        PROVE  /\ SamePlan(stored', stored) /\ Change = {}
               /\ \A q \in Pauser : pauser'[q].pc = "write" => SamePlan(pauser'[q].new, stored')
    <2>1. stored' = pauser[p].new /\ SamePlan(pauser[p].new, stored)
      BY <1>5 DEF WritePaused, PlanInv
    <2>2. \A q \in Pauser : pauser'[q].pc = "write" => pauser'[q] = pauser[q]
      BY <1>1, <1>5 DEF WritePaused, PauseRequest
    <2>3. \A q \in Pauser : pauser'[q].pc = "write" => SamePlan(pauser'[q].new, stored)
      BY <2>2 DEF PlanInv
    <2> QED BY <1>5, <2>1, <2>3, SamePlanAlways DEF OneAuthor
  <1>6. ASSUME NEW p \in Pauser, ConfigurePaused(p)
        PROVE  UNCHANGED stored /\ \A q \in Pauser : pauser'[q].pc = "write"
                                      => SamePlan(pauser'[q].new, stored)
    BY <1>1, <1>6 DEF ConfigurePaused, PauseRequest, PlanInv, library
  <1>7. \/ UNCHANGED <<stored, pauser>>
        \/ \E p \in Pauser : ReadPaused(p) \/ WritePaused(p) \/ ConfigurePaused(p)
    BY DEF RequestEdit, EditStep, LockGame, ListFiles, DropForEdit, StoreEdit, Reply,
           SyncNext, SyncedAll, HangUpEdit, Expire, Buy, Download, library, requests
  <1>8. /\ SamePlan(stored', stored)
        /\ \A q \in Pauser : pauser'[q].pc = "write" => SamePlan(pauser'[q].new, stored')
        /\ stored' = stored \/ Change = {}
    BY <1>4, <1>5, <1>6, <1>7, SamePlanAlways DEF PlanInv
  <1>9. PlansAreCurrent'
    BY <1>2, <1>3, <1>8, PlanStays DEF Planning
  <1> QED BY <1>2, <1>8, <1>9 DEF PlanInv

LEMMA PlanKept ==
    ASSUME OneAuthor
    PROVE  ExclusionInv /\ PlanInv /\ [Next]_vars => PlanInv'
  <1>. SUFFICES ASSUME ExclusionInv, PlanInv, [Next]_vars PROVE PlanInv'
    OBVIOUS
  <1>1. CASE Next
    BY <1>1, OneAuthor, FullPlan, JobPlan, ChangePlan, OtherPlan DEF Next
  <1>2. CASE UNCHANGED vars
    BY <1>2 DEF vars, PlanInv, PlansAreCurrent, Planning
  <1> QED BY <1>1, <1>2

\* However many syncs and requests on games there are, and whatever is cancelled,
\* refused or expires: whatever a sync plans by is what is stored, if one request
\* changes the settings, or only the pause flag is.
THEOREM NobodyPlansByOldSettings ==
    ASSUME OneAuthor
    PROVE  Spec => []PlansAreCurrent
  <1>1. PlanInv => PlansAreCurrent
    BY DEF PlanInv
  <1> QED BY InitPlan, PlanKept, <1>1, ExclusionHolds, PTL DEF Spec

-----------------------------------------------------------------------------
(* Which games are selected when the library is listed.                    *)

\* The full sync is never cut off between the first games it lists and the last:
\* a part of the library that was listed makes the rest look new, and a game
\* that was listed and not yet selected stays unselected.
Uninterrupted == Change = {} /\ Ops \cap {"fail", "relogin"} = {}

\* Nobody selects what was there before, or deselects what came later.
OldOnesLeft == "select" \in EditKinds => \A ids \in IdSets : ids \cap Bought = {}
NewOnesLeft == "deselect" \in EditKinds => \A ids \in IdSets : ids \subseteq Bought

\* What is bought comes after a first listing, which is of the whole account;
\* and a sync that selects new games has found all the old ones listed.
ListingInv ==
    /\ ~full.cancelled
    /\ Bought \subseteq account
    /\ account \subseteq Bought \/ Bought \subseteq Listed
    /\ full.pc \notin {"rows", "select"} => Listed = {} \/ Bought \subseteq Listed
    /\ full.pc \in {"rows", "select"} =>
         /\ Bought \subseteq Listed \cup full.todo
         /\ full.selectNew => Bought \subseteq Listed
    /\ full.pc = "select" => full.at \in Game \ Bought

\* An edit is of a kind, and of games, that were asked for.
AskedInv == \A e \in Edit : edit[e].kind # "sync" => /\ edit[e].kind \in EditKinds
                                                    /\ edit[e].ids \in IdSets

\* The steps that change what is listed, or what is about to be.
LEMMA ListingSteps ==
    ASSUME Uninterrupted, [Next]_vars
    PROVE  \/ UNCHANGED <<account, games, full>>
           \/ TriggeredSync \/ DueSync \/ FullStep
           \/ \E e \in Edit : StoreEdit(e)
           \/ \E g \in Game : Buy(g)
  <1>1. CASE Next
    <2>1. ~Relogin /\ Change = {}
      BY DEF Uninterrupted, Relogin
    <2>2. ASSUME NEW j \in Job, JobStep(j) PROVE UNCHANGED <<account, games, full>>
      BY <2>2 DEF JobStep, PlanJob, OwnedIDs, LoadGame, FetchDetails, UpsertFile, DropOthers,
         AbandonJob, library
    <2>3. ASSUME NEW e \in Edit, ~StoreEdit(e),
                 RequestEdit(e) \/ EditStep(e) \/ HangUpEdit(e) \/ Expire(e)
          PROVE  UNCHANGED <<account, games, full>>
      BY <2>3 DEF RequestEdit, EditStep, LockGame, ListFiles, DropForEdit, Reply, SyncNext,
         SyncedAll, HangUpEdit, Expire, library
    <2>4. ASSUME NEW p \in Pauser, ReadPaused(p) \/ WritePaused(p) \/ ConfigurePaused(p)
          PROVE  UNCHANGED <<account, games, full>>
      BY <2>4 DEF ReadPaused, WritePaused, ConfigurePaused, library
    <2>5. ASSUME NEW g \in Game, NEW k \in Kind, Download(g, k)
          PROVE  UNCHANGED <<account, games, full>>
      BY <2>5 DEF Download
    <2> QED BY <1>1, <2>1, <2>2, <2>3, <2>4, <2>5 DEF Next
  <1>2. CASE UNCHANGED vars
    BY <1>2 DEF vars
  <1> QED BY <1>1, <1>2

LEMMA AskedKept == TypeOK /\ AskedInv /\ [Next]_vars => AskedInv'
  <1>. SUFFICES ASSUME TypeOK, AskedInv, [Next]_vars PROVE AskedInv'
    OBVIOUS
  <1>1. edit \in [Edit -> EditRequest]
    BY DEF TypeOK
  <1>2. ASSUME NEW e \in Edit, RequestEdit(e) PROVE AskedInv'
    <2>1. PICK kind \in EditKinds, ids \in IdSets, a \in Answers :
            edit' = [edit EXCEPT ![e] =
             [NewEdit EXCEPT !.pc = IF kind = "sync" THEN "sync" ELSE "locks",
                             !.kind = kind, !.ids = ids, !.answer = a,
                             !.before = games[Only(ids)],
                             !.left = IF kind = "sync" THEN ids ELSE {}]]
      BY <1>2 DEF RequestEdit
    <2>2. edit'[e].kind = kind /\ edit'[e].ids = ids
      BY <1>1, <2>1 DEF NewEdit
    <2>3. \A f \in Edit : f # e => edit'[f] = edit[f]
      BY <1>1, <2>1
    <2> QED BY <2>2, <2>3 DEF AskedInv
  <1>3. ASSUME NEW e \in Edit, EditStep(e) \/ HangUpEdit(e) \/ Expire(e) PROVE AskedInv'
    <2>1. CASE EndEdit(e)
      BY <1>1, <2>1 DEF EndEdit, NewEdit, AskedInv
    <2>2. CASE ListFiles(e) /\ ~EndEdit(e)
      BY <1>1, <2>2 DEF ListFiles, EditRequest, AskedInv
    <2>3. CASE LockGame(e) \/ StoreEdit(e)
      <3>1. edit' = edit \/ \E pc : edit' = [edit EXCEPT ![e].pc = pc]
        BY <2>3 DEF LockGame, StoreEdit
      <3> QED BY <1>1, <3>1 DEF EditRequest, AskedInv
    <2>4. CASE DropForEdit(e)
      BY <1>1, <2>4 DEF DropForEdit, EditRequest, AskedInv
    <2>5. CASE Reply(e)
      BY <1>1, <2>5 DEF Reply, EditRequest, AskedInv
    <2>6. CASE SyncNext(e)
      BY <1>1, <2>6 DEF SyncNext, EditRequest, AskedInv
    <2>7. CASE UNCHANGED edit
      BY <2>7 DEF AskedInv
    <2> QED BY <1>3, <2>1, <2>2, <2>3, <2>4, <2>5, <2>6, <2>7
       DEF EditStep, SyncedAll, HangUpEdit, Expire, requests
  <1>4. CASE UNCHANGED edit
    BY <1>4 DEF AskedInv
  <1>5. ASSUME NEW c \in Change, PutSettings(c) \/ ChangeStep(c) \/ HangUp(c)
        PROVE  UNCHANGED edit
    BY <1>5 DEF PutSettings, ChangeStep, HangUp, Ask, AskAgain, FindUnwanted, Compare,
       LockPlan, CancelFull, StopGameSyncs, DropForChange, SaveSettings, Configure, requests
  <1>6. ASSUME NEW j \in Job, JobStep(j) PROVE UNCHANGED edit
    BY <1>6 DEF JobStep, PlanJob, OwnedIDs, LoadGame, FetchDetails, UpsertFile, DropOthers,
       AbandonJob, requests
  <1>7. CASE TriggeredSync \/ DueSync \/ FullStep \/ Relogin
    BY <1>4, <1>7 DEF TriggeredSync, DueSync, StartFull, FullStep, PlanFull, ListGames, SelectGame,
       RowsDone, FinishFull, AbandonFull, UpsertGame, StartJob, Relogin, requests
  <1>8. ASSUME NEW p \in Pauser, ReadPaused(p) \/ WritePaused(p) \/ ConfigurePaused(p)
        PROVE  UNCHANGED edit
    BY <1>8 DEF ReadPaused, WritePaused, ConfigurePaused
  <1>9. CASE (\E g \in Game : Buy(g)) \/ (\E g \in Game, k \in Kind : Download(g, k))
    BY <1>4, <1>9 DEF Buy, Download, requests
  <1> QED BY <1>2, <1>3, <1>4, <1>5, <1>6, <1>7, <1>8, <1>9 DEF Next, vars

\* What an edit stores of a game.
LEMMA StoredEdit ==
    ASSUME TypeOK, AskedInv, NEW e \in Edit, StoreEdit(e), NEW g \in Game
    PROVE  /\ games'[g].listed = games[g].listed
           /\ games'[g].selected /\ ~games[g].selected =>
                 g \in edit[e].ids /\ "select" \in EditKinds /\ edit[e].ids \in IdSets
           /\ games[g].selected /\ ~games'[g].selected =>
                 g \in edit[e].ids /\ "deselect" \in EditKinds /\ edit[e].ids \in IdSets
  <1>1. games[g] \in GameRow /\ games'[g] = Edited(e)[g]
    BY DEF TypeOK, StoreEdit
  <1>2. g \notin edit[e].ids => games'[g] = games[g]
    BY <1>1 DEF Edited
  <1>3. CASE g \in edit[e].ids
    <2>1. games'[g] = CASE edit[e].kind = "select"   -> [games[g] EXCEPT !.selected = TRUE]
                        [] edit[e].kind = "deselect" -> [games[g] EXCEPT !.selected = FALSE]
                        [] edit[e].kind = "optin"    -> [games[g] EXCEPT !.extras = TRUE]
                        [] edit[e].kind = "optout"   -> [games[g] EXCEPT !.extras = FALSE]
                        [] OTHER -> games[g]
      BY <1>1, <1>3 DEF Edited
    <2>2. CASE edit[e].kind = "select"
      BY <1>1, <1>3, <2>1, <2>2 DEF GameRow, AskedInv
    <2>3. CASE edit[e].kind = "deselect"
      BY <1>1, <1>3, <2>1, <2>3 DEF GameRow, AskedInv
    <2>4. CASE edit[e].kind = "optin"
      BY <1>1, <2>1, <2>4 DEF GameRow
    <2>5. CASE edit[e].kind = "optout"
      BY <1>1, <2>1, <2>5 DEF GameRow
    <2>6. CASE edit[e].kind \notin {"select", "deselect", "optin", "optout"}
      BY <2>1, <2>6
    <2> QED BY <2>2, <2>3, <2>4, <2>5, <2>6
  <1> QED BY <1>2, <1>3
\* The full sync, step by step, as far as it lists.
LEMMA FullListing ==
    ASSUME Uninterrupted, TypeOK, ListingInv, TriggeredSync \/ DueSync \/ FullStep
    PROVE  /\ ListingInv'
           /\ \A g \in Game : /\ games[g].listed => games'[g].listed
                              /\ games'[g].selected /\ ~games[g].selected => g \notin Bought
                              /\ games[g].selected => games'[g].selected
  <1>1. full \in FullSync /\ games \in [Game -> GameRow] /\ account \subseteq Game
        /\ Bought \subseteq Game
    BY GameAssumption DEF TypeOK
  <1>2. CASE TriggeredSync \/ DueSync
    <2>1. full.pc = "idle" /\ full'.pc = "plan" /\ ~full'.cancelled /\ UNCHANGED <<account, games>>
      BY <1>2 DEF TriggeredSync, DueSync, StartFull, NoFull, library
    <2> QED BY <2>1 DEF ListingInv, Listed
  <1>3. CASE PlanFull
    <2>1. /\ full.pc = "plan" /\ full'.pc = "list" /\ full'.cancelled = full.cancelled
          /\ UNCHANGED <<account, games>>
      BY <1>1, <1>3 DEF PlanFull, FullSync, library
    <2> QED BY <2>1 DEF ListingInv, Listed
  <1>4. CASE ListGames
    <2>1. /\ full.pc = "list" /\ full'.pc = "rows" /\ full'.cancelled = full.cancelled
          /\ full'.todo = account /\ full'.selectNew = SelectNew(full.snap, Listed)
          /\ UNCHANGED <<account, games>>
      BY <1>1, <1>4 DEF ListGames, FullSync, library
    <2>2. full'.selectNew => Bought \subseteq Listed
      BY <2>1 DEF SelectNew, ListingInv
    <2> QED BY <2>1, <2>2 DEF ListingInv, Listed
  <1>5. ASSUME NEW g \in Game, UpsertGame(g)
        PROVE  /\ ListingInv'
               /\ \A h \in Game : /\ games[h].listed => games'[h].listed
                                  /\ games'[h].selected = games[h].selected
    <2>1. /\ full.pc = "rows" /\ full'.cancelled = full.cancelled
          /\ full'.todo = full.todo \ {g} /\ full'.at = g /\ full'.selectNew = full.selectNew
          /\ full'.pc = IF full.selectNew /\ ~games[g].listed THEN "select" ELSE "rows"
          /\ UNCHANGED account
      BY <1>1, <1>5 DEF UpsertGame, FullSync
    <2>2. games' = [games EXCEPT ![g].listed = TRUE]
      BY <1>5 DEF UpsertGame
    <2>3. \A h \in Game : /\ games'[h].listed = (games[h].listed \/ h = g)
                          /\ games'[h].selected = games[h].selected
      BY <1>1, <2>2 DEF GameRow
    <2>4. Listed' = Listed \cup {g}
      BY <1>1, <2>3 DEF Listed
    <2>5. full'.pc = "select" => g \in Game \ Bought
      BY <2>1 DEF ListingInv, Listed
    <2> QED BY <2>1, <2>3, <2>4, <2>5 DEF ListingInv
  <1>6. CASE SelectGame
    <2>1. /\ full.pc = "select" /\ full'.pc = "rows" /\ full'.cancelled = full.cancelled
          /\ full'.todo = full.todo /\ full'.selectNew = full.selectNew
          /\ games' = [games EXCEPT ![full.at].selected = TRUE] /\ UNCHANGED account
      BY <1>1, <1>6 DEF SelectGame, FullSync
    <2>2. full.at \in Game \ Bought
      BY <2>1 DEF ListingInv
    <2>3. \A h \in Game : /\ games'[h].listed = games[h].listed
                          /\ games'[h].selected = (games[h].selected \/ h = full.at)
      BY <1>1, <2>1, <2>2 DEF GameRow
    <2>4. Listed' = Listed
      BY <2>3 DEF Listed
    <2> QED BY <2>1, <2>2, <2>3, <2>4 DEF ListingInv
  <1>7. CASE RowsDone
    <2>1. /\ full.pc = "rows" /\ full'.pc = "details" /\ full'.cancelled = full.cancelled
          /\ full.todo = {} /\ UNCHANGED <<account, games>>
      BY <1>1, <1>7 DEF RowsDone, FullSync, library
    <2> QED BY <2>1 DEF ListingInv, Listed
  <1>8. ASSUME NEW g \in Game, StartJob(g) PROVE ListingInv' /\ UNCHANGED games
    <2>1. /\ full.pc = "details" /\ full'.pc = "details" /\ full'.cancelled = full.cancelled
          /\ UNCHANGED <<account, games>>
      BY <1>1, <1>8 DEF StartJob, FullSync, library
    <2> QED BY <2>1 DEF ListingInv, Listed
  <1>9. CASE FinishFull \/ AbandonFull
    <2>1. ~AbandonFull
      BY DEF AbandonFull, ListingInv, Uninterrupted
    <2>2. /\ full.pc = "details" /\ full'.pc = "idle" /\ ~full'.cancelled
          /\ UNCHANGED <<account, games>>
      BY <1>9, <2>1 DEF FinishFull, EndFull, NoFull, library
    <2> QED BY <2>2 DEF ListingInv, Listed
  <1>10. ASSUME ListingInv', UNCHANGED games
         PROVE  /\ ListingInv'
                /\ \A g \in Game : /\ games[g].listed => games'[g].listed
                                   /\ games'[g].selected /\ ~games[g].selected => g \notin Bought
                                   /\ games[g].selected => games'[g].selected
    BY <1>10
  <1>11. CASE PlanFull \/ ListGames \/ RowsDone \/ FinishFull \/ AbandonFull
              \/ TriggeredSync \/ DueSync
    <2>1. UNCHANGED games
      BY <1>11 DEF PlanFull, ListGames, RowsDone, FinishFull, AbandonFull, TriggeredSync,
         DueSync, StartFull, library
    <2> QED BY <1>2, <1>3, <1>4, <1>7, <1>9, <1>11, <2>1, <1>10
  <1>12. CASE SelectGame
    <2>1. full.pc = "select" /\ full.at \in Game \ Bought
          /\ games' = [games EXCEPT ![full.at].selected = TRUE]
      BY <1>12 DEF SelectGame, ListingInv
    <2>2. \A h \in Game : /\ games'[h].listed = games[h].listed
                          /\ games'[h].selected = (games[h].selected \/ h = full.at)
      BY <1>1, <2>1 DEF GameRow
    <2> QED BY <1>6, <1>12, <2>1, <2>2
  <1> QED BY <1>5, <1>8, <1>10, <1>11, <1>12 DEF FullStep

LEMMA ListingKept ==
    ASSUME Uninterrupted
    PROVE  TypeOK /\ AskedInv /\ ListingInv /\ [Next]_vars => ListingInv'
  <1>. SUFFICES ASSUME TypeOK, AskedInv, ListingInv, [Next]_vars PROVE ListingInv'
    OBVIOUS
  <1>1. CASE UNCHANGED <<account, games, full>>
    BY <1>1 DEF ListingInv, Listed
  <1>2. CASE TriggeredSync \/ DueSync \/ FullStep
    BY <1>2, FullListing
  <1>3. ASSUME NEW e \in Edit, StoreEdit(e) PROVE ListingInv'
    <2>1. Listed' = Listed
      BY <1>3, StoredEdit DEF Listed
    <2>2. UNCHANGED <<account, full>>
      BY <1>3 DEF StoreEdit
    <2> QED BY <2>1, <2>2 DEF ListingInv
  <1>4. ASSUME NEW g \in Game, Buy(g) PROVE ListingInv'
    <2>1. /\ Bought \subseteq Listed /\ account' = account \cup {g}
          /\ UNCHANGED <<games, full>>
      BY <1>4 DEF Buy, library
    <2> QED BY <2>1 DEF ListingInv, Listed
  <1> QED BY <1>1, <1>2, <1>3, <1>4, ListingSteps

LEMMA InitListing == Init => ListingInv /\ AskedInv
  BY DEF Init, ListingInv, AskedInv, Listed, NoFull, NewEdit, NoGameRow

LEMMA ListingHolds ==
    ASSUME Uninterrupted
    PROVE  Spec => [](AskedInv /\ ListingInv)
  <1>1. TypeOK /\ AskedInv /\ ListingInv /\ [Next]_vars => AskedInv' /\ ListingInv'
    BY AskedKept, ListingKept
  <1> QED BY InitListing, <1>1, TypeCorrect, PTL DEF Spec

\* Whatever is bought, listed and synced, at whatever time: where the full sync is
\* not cut off and nobody selects them, the games there were from the start stay
\* unselected.
THEOREM OldGamesAreLeft ==
    ASSUME Uninterrupted, OldOnesLeft
    PROVE  Spec => []OldGamesStayUnselected
  <1>1. Init => OldGamesStayUnselected
    <2>. SUFFICES ASSUME Init, NEW g \in Bought
                  PROVE  ~games[g].selected
      BY DEF OldGamesStayUnselected
    <2>1. g \in Game
      BY GameAssumption
    <2>2. games[g] = NoGameRow
      BY <2>1 DEF Init
    <2>. QED
      BY <2>2 DEF NoGameRow
  <1>2. /\ TypeOK /\ AskedInv /\ ListingInv /\ OldGamesStayUnselected /\ [Next]_vars
        => OldGamesStayUnselected'
    <2>. SUFFICES ASSUME TypeOK, AskedInv, ListingInv, OldGamesStayUnselected, [Next]_vars,
                         NEW g \in Bought
                  PROVE  ~games'[g].selected
      BY DEF OldGamesStayUnselected
    <2>1. g \in Game /\ ~games[g].selected
      BY GameAssumption DEF OldGamesStayUnselected
    <2>2. CASE TriggeredSync \/ DueSync \/ FullStep
      BY <2>1, <2>2, FullListing
    <2>3. ASSUME NEW e \in Edit, StoreEdit(e) PROVE ~games'[g].selected
      BY <2>1, <2>3, StoredEdit, OldOnesLeft DEF OldOnesLeft
    <2>4. CASE UNCHANGED games
      BY <2>1, <2>4
    <2> QED BY <2>2, <2>3, <2>4, ListingSteps DEF Buy, library
  <1> QED BY <1>1, <1>2, TypeCorrect, ListingHolds, PTL DEF Spec

\* The settings say throughout that new games are selected.
SelectsThroughout == FirstSettings.mode = "selected_new" /\ Bought # {}

\* No new game is listed by a sync that does not select it, and one that is listed
\* and not yet selected is next.
NewInv ==
    /\ SamePlan(stored, FirstSettings)
    /\ full.pc \in {"rows", "select"} => full.selectNew \/ full.todo \subseteq Bought
    /\ \A g \in Listed \ Bought : games[g].selected \/ (full.pc = "select" /\ full.at = g)

LEMMA NewKept ==
    ASSUME Uninterrupted, NewOnesLeft, SelectsThroughout
    PROVE  /\ TypeOK /\ AskedInv /\ ListingInv /\ PlanInv /\ NewInv /\ [Next]_vars
           => NewInv'
  <1>. SUFFICES ASSUME TypeOK, AskedInv, ListingInv, PlanInv, NewInv, [Next]_vars
                PROVE  NewInv'
    OBVIOUS
  <1>1. full \in FullSync /\ games \in [Game -> GameRow]
    BY DEF TypeOK
  <1>2. SamePlan(stored', FirstSettings)
    <2>1. CASE UNCHANGED stored
      BY <2>1 DEF NewInv
    <2>2. ASSUME NEW p \in Pauser, WritePaused(p) PROVE SamePlan(stored', FirstSettings)
      BY <2>2, SamePlanAlways DEF WritePaused, PlanInv, NewInv
    <2>3. Change = {}
      BY DEF Uninterrupted
    <2>4. ASSUME NEW e \in Edit, RequestEdit(e) \/ EditStep(e) \/ HangUpEdit(e) \/ Expire(e)
          PROVE  UNCHANGED stored
      BY <2>4 DEF RequestEdit, EditStep, LockGame, ListFiles, DropForEdit, StoreEdit, Reply,
         SyncNext, SyncedAll, HangUpEdit, Expire, library
    <2>5. ASSUME NEW j \in Job, JobStep(j) PROVE UNCHANGED stored
      BY <2>5 DEF JobStep, PlanJob, OwnedIDs, LoadGame, FetchDetails, UpsertFile, DropOthers,
         AbandonJob, library
    <2>6. CASE TriggeredSync \/ DueSync \/ FullStep \/ Relogin
      BY <2>1, <2>6 DEF TriggeredSync, DueSync, StartFull, FullStep, PlanFull, ListGames,
         SelectGame, RowsDone, FinishFull, AbandonFull, UpsertGame, StartJob, Relogin, library
    <2> QED BY <2>1, <2>2, <2>3, <2>4, <2>5, <2>6
       DEF Next, vars, Buy, Download, ReadPaused, ConfigurePaused, library
  <1>3. ASSUME full'.pc \notin {"rows", "select"}, full.pc # "select", UNCHANGED games
        PROVE  NewInv'
    BY <1>2, <1>3 DEF NewInv, Listed
  <1>4. CASE TriggeredSync \/ DueSync
    <2>1. full'.pc = "plan" /\ full.pc = "idle" /\ UNCHANGED games
      BY <1>4 DEF TriggeredSync, DueSync, StartFull, NoFull, library
    <2> QED BY <1>3, <2>1
  <1>5. CASE PlanFull
    <2>1. full'.pc = "list" /\ full.pc = "plan" /\ UNCHANGED games
      BY <1>1, <1>5 DEF PlanFull, FullSync, library
    <2> QED BY <1>3, <2>1
  <1>6. CASE ListGames
    <2>1. /\ full.pc = "list" /\ full'.pc = "rows" /\ full'.todo = account
          /\ full'.selectNew = SelectNew(full.snap, Listed) /\ UNCHANGED games
      BY <1>1, <1>6 DEF ListGames, FullSync, library
    <2>2. SelectsNewGames(full.snap)
      <3>1. SamePlan(full.snap, stored)
        BY <2>1 DEF PlanInv, PlansAreCurrent, Planning
      <3> QED BY <3>1 DEF SelectsNewGames, SelectsThroughout, SamePlan, NewInv
    <2>3. full'.selectNew \/ full'.todo \subseteq Bought
      <3>1. CASE account \subseteq Bought
        BY <2>1, <3>1
      <3>2. CASE Bought \subseteq Listed
        BY <2>1, <2>2, <3>2 DEF SelectNew, SelectsThroughout
      <3> QED BY <3>1, <3>2 DEF ListingInv
    <2> QED BY <1>2, <2>1, <2>3 DEF NewInv, Listed
  <1>7. ASSUME NEW g \in Game, UpsertGame(g) PROVE NewInv'
    <2>1. /\ full.pc = "rows" /\ g \in full.todo
          /\ full'.todo = full.todo \ {g} /\ full'.at = g /\ full'.selectNew = full.selectNew
          /\ full'.pc = IF full.selectNew /\ ~games[g].listed THEN "select" ELSE "rows"
      BY <1>1, <1>7 DEF UpsertGame, FullSync
    <2>2. games' = [games EXCEPT ![g].listed = TRUE]
      BY <1>7 DEF UpsertGame
    <2>3. \A h \in Game : /\ games'[h].listed = (games[h].listed \/ h = g)
                          /\ games'[h].selected = games[h].selected
      BY <1>1, <2>2 DEF GameRow
    <2>4. ASSUME NEW h \in Listed' \ Bought
          PROVE  games'[h].selected \/ (full'.pc = "select" /\ full'.at = h)
      <3>1. h \in Game /\ (games[h].listed \/ h = g)
        BY <2>3 DEF Listed
      <3>2. CASE games[h].listed
        BY <2>1, <2>3, <3>1, <3>2 DEF NewInv, Listed
      <3>3. CASE ~games[h].listed
        <4>1. h = g /\ full.selectNew
          BY <2>1, <3>1, <3>3 DEF NewInv
        <4> QED BY <2>1, <3>3, <4>1
      <3> QED BY <3>2, <3>3
    <2>5. full'.selectNew \/ full'.todo \subseteq Bought
      BY <2>1 DEF NewInv
    <2> QED BY <1>2, <2>4, <2>5 DEF NewInv
  <1>8. CASE SelectGame
    <2>1. /\ full.pc = "select" /\ full'.pc = "rows"
          /\ full'.todo = full.todo /\ full'.selectNew = full.selectNew
          /\ games' = [games EXCEPT ![full.at].selected = TRUE]
      BY <1>1, <1>8 DEF SelectGame, FullSync
    <2>2. full.at \in Game
      BY <2>1 DEF ListingInv
    <2>3. \A h \in Game : /\ games'[h].listed = games[h].listed
                          /\ games'[h].selected = (games[h].selected \/ h = full.at)
      BY <1>1, <2>1, <2>2 DEF GameRow
    <2> QED BY <1>2, <2>1, <2>3 DEF NewInv, Listed
  <1>9. CASE RowsDone
    <2>1. full'.pc = "details" /\ full.pc = "rows" /\ UNCHANGED games
      BY <1>1, <1>9 DEF RowsDone, FullSync, library
    <2> QED BY <1>3, <2>1
  <1>10. ASSUME NEW g \in Game, StartJob(g) PROVE NewInv'
    <2>1. full'.pc = "details" /\ full.pc = "details" /\ UNCHANGED games
      BY <1>1, <1>10 DEF StartJob, FullSync, library
    <2> QED BY <1>3, <2>1
  <1>11. CASE FinishFull \/ AbandonFull
    <2>1. ~AbandonFull
      BY DEF AbandonFull, ListingInv, Uninterrupted
    <2>2. full.pc = "details" /\ full'.pc = "idle" /\ UNCHANGED games
      BY <1>11, <2>1 DEF FinishFull, EndFull, NoFull, library
    <2> QED BY <1>3, <2>2
  <1>12. ASSUME NEW e \in Edit, StoreEdit(e) PROVE NewInv'
    <2>1. \A g \in Game : /\ games'[g].listed = games[g].listed
                          /\ games[g].selected /\ g \notin Bought => games'[g].selected
      BY <1>12, StoredEdit, NewOnesLeft DEF NewOnesLeft
    <2>2. UNCHANGED full
      BY <1>12 DEF StoreEdit
    <2> QED BY <1>2, <2>1, <2>2 DEF NewInv, Listed
  <1>13. CASE UNCHANGED <<games, full>>
    BY <1>2, <1>13 DEF NewInv, Listed
  <1> QED BY <1>4, <1>5, <1>6, <1>7, <1>8, <1>9, <1>10, <1>11, <1>12, <1>13, ListingSteps
     DEF FullStep, Buy, library

\* The other half: a game bought later is selected when all is at rest, for any
\* number of games, purchases, pauses and requests on the old games.
THEOREM NewGamesGetSelected ==
    ASSUME Uninterrupted, NewOnesLeft, SelectsThroughout
    PROVE  Spec => []NewGamesAreSelected
  <1>1. OneAuthor
    BY DEF Uninterrupted, OneAuthor
  <1>2. Init => NewInv
    BY SamePlanAlways DEF Init, NewInv, Listed, NoFull, NoGameRow
  <1>3. ExclusionInv /\ PlanInv /\ [Next]_vars => PlanInv'
    BY <1>1, PlanKept
  <1>4. Spec => []PlanInv
    BY InitPlan, <1>3, ExclusionHolds, PTL DEF Spec
  <1>5. /\ TypeOK /\ AskedInv /\ ListingInv /\ PlanInv /\ NewInv /\ [Next]_vars
        => NewInv'
    BY NewKept
  <1>6. NewInv => NewGamesAreSelected
    BY DEF NewInv, NewGamesAreSelected, AtRest
  <1> QED BY <1>2, <1>4, <1>5, <1>6, TypeCorrect, ListingHolds, PTL DEF Spec

-----------------------------------------------------------------------------
(* Nothing stays tracked that is not wanted.                               *)

\* A full sync ends early only when it is cancelled.
Unfailing == "fail" \notin Ops

\* Between taking a game's lock and letting it go.
Working(x) == x.pc \in {"fetch", "upsert", "others"}

\* Syncs and requests are about games that have been listed, and so is whatever
\* is tracked.
KnownInv ==
    /\ Listed \subseteq account /\ full.todo \subseteq account
    /\ full.pc = "details" => full.todo \subseteq Listed
    /\ \A g \in Game : /\ tracked[g] # {} => g \in Listed
                       /\ job[g].pc # "idle" => job[g].game = g
    /\ \A j \in Job : job[j].pc # "idle" => job[j].game \in Listed
    /\ \A e \in Edit : edit[e].ids \subseteq Listed /\ edit[e].left \subseteq edit[e].ids

\* Who works on a game has its lock, and plans what the game's row wants.
HeldInv ==
    /\ \A e \in Edit : edit[e].pc \in {"read", "drop"} => \A g \in edit[e].ids : lock[g] = e
    /\ \A j \in Job :
         IF Working(job[j])
         THEN /\ lock[job[j].game] = j
              /\ job[j].todo \cup job[j].keep \subseteq Wants(job[j].snap, games[job[j].game])
         ELSE job[j].todo = {} /\ job[j].keep = {}

\* A change compares with the settings that are stored, and is the last to have
\* stored any.
ChangesInv ==
    \A c \in Change :
        /\ change[c].result = "stored" => change[c].pc \in {"configure", "done"}
        /\ change[c].pc = "configure" => change[c].result = "stored"
        /\ change[c].pc \notin {"new", "configure", "done"} => SamePlan(change[c].old, stored)

\* A full sync goes on to game g, or has been asked for since the plan changed.
Replaced == \E c \in Change : change[c].result = "stored" /\ NeedsSync(c)
UnderWay(g) ==
    /\ ~full.cancelled
    /\ \/ full.pc \in {"plan", "list", "rows", "select"}
       \/ full.pc = "details" /\ (g \in full.todo \/ job[g].pc # "idle")
Revisited(g) ==
    /\ Replaced
    /\ trigger \/ UnderWay(g) \/ \E c \in Change : change[c].pc = "configure"

Settled(g) == tracked[g] \subseteq Wants(stored, games[g])

\* What is not wanted goes by the list of the request that unwants it, or by the
\* next full sync.
SettledInv ==
    /\ \A g \in Game : Settled(g) \/ Revisited(g)
    /\ \A e \in Edit : edit[e].pc = "drop" =>
         \A g \in edit[e].ids :
            \/ Revisited(g)
            \/ \A k \in tracked[g] \ Wants(stored, Edited(e)[g]) :
                  \E u \in edit[e].list : u.game = g /\ u.kind = k

\* A row that is listed, or selected, wants no less than before.
LEMMA WantsGrow ==
    ASSUME NEW s, NEW gm \in GameRow
    PROVE  /\ Wants(s, [gm EXCEPT !.listed = TRUE]) = Wants(s, gm)
           /\ Wants(s, gm) \subseteq Wants(s, [gm EXCEPT !.selected = TRUE])
  BY DEF Wants, WantsGame, GameRow

LEMMA PlanWants ==
    ASSUME NEW s, NEW o, SamePlan(s, o), NEW gm PROVE Wants(s, gm) = Wants(o, gm)
  BY DEF SamePlan, Wants, WantsGame, SelectedOnly

-----------------------------------------------------------------------------
(* What the steps of each process do to the games.                         *)

\* A change but for the syncs it waits for.
SameChange(c) ==
    /\ change'[c].pc = change[c].pc /\ change'[c].result = change[c].result
    /\ change'[c].old = change[c].old /\ change'[c].new = change[c].new
    /\ change'[c].list = change[c].list /\ change'[c].answer = change[c].answer

LEMMA AwaitsKeepChange ==
    ASSUME TypeOK, NEW x, change' = [c \in Change |-> [change[c] EXCEPT !.awaits = @ \ {x}]],
           NEW c \in Change
    PROVE  SameChange(c)
  BY DEF TypeOK, ChangeRequest, SameChange

LEMMA FullWork ==
    ASSUME TypeOK, TriggeredSync \/ DueSync \/ FullStep \/ Relogin
    PROVE  /\ UNCHANGED <<account, stored, tracked, sem, lock, edit, pauser>>
           /\ \A c \in Change : SameChange(c)
           /\ \A j \in Job :
                 \/ job'[j] = job[j]
                 \/ /\ j \in full.todo /\ full.pc = "details"
                    /\ job'[j].pc = "lock" /\ job'[j].game = j
                    /\ job'[j].todo = {} /\ job'[j].keep = {}
           /\ \/ UNCHANGED games
              \/ \E g \in full.todo : UpsertGame(g) /\ games' = [games EXCEPT ![g].listed = TRUE]
              \/ \E g \in Game : SelectGame /\ games' = [games EXCEPT ![g].selected = TRUE]
  <1>0. full \in FullSync /\ job \in [Job -> GameSync] /\ change \in [Change -> ChangeRequest]
    BY DEF TypeOK
  <1>1. UNCHANGED <<account, stored, tracked, sem, lock, edit, pauser>>
    BY DEF TriggeredSync, DueSync, StartFull, FullStep, PlanFull, ListGames, SelectGame,
       RowsDone, FinishFull, AbandonFull, UpsertGame, StartJob, Relogin, library, requests
  <1>2. ASSUME NEW c \in Change PROVE SameChange(c)
    <2>1. CASE UNCHANGED change
      BY <2>1 DEF SameChange
    <2>2. CASE EndFull
      BY <2>2, AwaitsKeepChange DEF EndFull
    <2> QED BY <2>1, <2>2 DEF TriggeredSync, DueSync, StartFull, FullStep, PlanFull,
       ListGames, SelectGame, RowsDone, FinishFull, AbandonFull, UpsertGame, StartJob, Relogin
  <1>3. ASSUME NEW j \in Job
        PROVE  \/ job'[j] = job[j]
               \/ /\ j \in full.todo /\ full.pc = "details"
                  /\ job'[j].pc = "lock" /\ job'[j].game = j
                  /\ job'[j].todo = {} /\ job'[j].keep = {}
    <2>1. ASSUME NEW g \in Game, StartJob(g)
          PROVE  \/ job'[j] = job[j]
                 \/ /\ j \in full.todo /\ full.pc = "details"
                    /\ job'[j].pc = "lock" /\ job'[j].game = j
                    /\ job'[j].todo = {} /\ job'[j].keep = {}
      <3>1. g \in full.todo /\ full.pc = "details"
            /\ job' = [job EXCEPT ![g] = [NoJob EXCEPT !.pc = "lock", !.snap = full.snap,
                                                       !.game = g]]
        BY <2>1 DEF StartJob
      <3>2. CASE j = g
        <4>1. job'[j] = [NoJob EXCEPT !.pc = "lock", !.snap = full.snap, !.game = g]
          BY <1>0, <3>1, <3>2
        <4>2. /\ job'[j].pc = "lock" /\ job'[j].game = j
              /\ job'[j].todo = {} /\ job'[j].keep = {}
          BY <3>2, <4>1 DEF NoJob
        <4> QED BY <3>1, <3>2, <4>2
      <3>3. CASE j # g
        BY <1>0, <3>1, <3>3
      <3> QED BY <3>2, <3>3
    <2> QED BY <2>1 DEF TriggeredSync, DueSync, StartFull, FullStep, PlanFull,
       ListGames, SelectGame, RowsDone, FinishFull, AbandonFull, UpsertGame, Relogin
  <1>4. \/ UNCHANGED games
        \/ \E g \in full.todo : UpsertGame(g) /\ games' = [games EXCEPT ![g].listed = TRUE]
        \/ SelectGame
    BY DEF TriggeredSync, DueSync, StartFull, FullStep, PlanFull, ListGames,
       RowsDone, FinishFull, AbandonFull, UpsertGame, StartJob, Relogin, library
  <1>5. ASSUME SelectGame
        PROVE  \/ UNCHANGED games
               \/ \E g \in Game : SelectGame /\ games' = [games EXCEPT ![g].selected = TRUE]
    <2>1. games' = [games EXCEPT ![full.at].selected = TRUE]
      BY <1>5 DEF SelectGame
    <2>2. CASE full.at \in Game
      BY <1>5, <2>1, <2>2
    <2>3. CASE full.at \notin Game
      BY <2>1, <2>3 DEF TypeOK
    <2> QED BY <2>2, <2>3
  <1> QED BY <1>1, <1>2, <1>3, <1>4, <1>5

LEMMA JobWork ==
    ASSUME TypeOK, NEW j \in Job, JobStep(j)
    PROVE  /\ UNCHANGED <<account, stored, games, trigger, sem, full, edit, pauser>>
           /\ \A c \in Change : SameChange(c)
           /\ \A i \in Job \ {j} : job'[i] = job[i]
           /\ job[j].pc # "idle"
           /\ \A g \in Game : \/ lock'[g] = lock[g]
                              \/ lock'[g] = j /\ lock[g] = Nobody
                              \/ lock'[g] = Nobody /\ lock[g] = j
           /\ \/ /\ PlanJob(j) \/ OwnedIDs(j)
                 /\ job'[j].pc \in {"owned", "lock"} /\ job'[j].game = job[j].game
                 /\ job'[j].todo = job[j].todo /\ job'[j].keep = job[j].keep
                 /\ ~Working(job[j]) /\ UNCHANGED <<tracked, lock>>
              \/ /\ LoadGame(j) /\ Working(job'[j]) /\ job[j].pc = "lock"
                 /\ job'[j].game = job[j].game /\ job'[j].snap = job[j].snap
                 /\ job'[j].todo = Wants(job[j].snap, games[job[j].game])
                 /\ job'[j].keep = job[j].keep
                 /\ lock' = [lock EXCEPT ![job[j].game] = j] /\ UNCHANGED tracked
              \/ /\ Working(job[j]) /\ Working(job'[j]) /\ UNCHANGED lock
                 /\ job'[j].game = job[j].game /\ job'[j].snap = job[j].snap
                 /\ \E k \in job[j].todo \cup {"none"} :
                      /\ tracked' = IF k \in job[j].todo
                                    THEN [tracked EXCEPT ![job[j].game] = @ \cup {k}]
                                    ELSE tracked
                      /\ job'[j].todo = job[j].todo \ {k}
                      /\ job'[j].keep = job[j].keep \cup ({k} \cap job[j].todo)
              \/ /\ job'[j] = NoJob /\ lock' = Unlocked(j)
                 /\ \/ /\ job[j].pc = "others"
                       /\ tracked' = [tracked EXCEPT ![job[j].game] = @ \cap job[j].keep]
                    \/ /\ Cancelled(j) \/ "fail" \in Ops
                       /\ UNCHANGED tracked
  <1>0. /\ job \in [Job -> GameSync] /\ lock \in [Game -> Job \cup {Nobody}]
        /\ change \in [Change -> ChangeRequest]
    BY DEF TypeOK
  <1>1. UNCHANGED <<account, stored, games, trigger, sem, full, edit, pauser>>
    BY DEF JobStep, PlanJob, OwnedIDs, LoadGame, FetchDetails, UpsertFile, DropOthers,
       AbandonJob, library, requests
  <1>2. ASSUME NEW c \in Change PROVE SameChange(c)
    <2>1. CASE UNCHANGED change
      BY <2>1 DEF SameChange
    <2>2. CASE EndJob(j)
      BY <2>2, AwaitsKeepChange DEF EndJob
    <2> QED BY <2>1, <2>2 DEF JobStep, PlanJob, OwnedIDs, LoadGame, FetchDetails,
       UpsertFile, DropOthers, AbandonJob
  <1>3. job[j].pc # "idle" /\ \A i \in Job \ {j} : job'[i] = job[i]
    BY <1>0 DEF JobStep, PlanJob, OwnedIDs, LoadGame, FetchDetails, UpsertFile, DropOthers,
       AbandonJob, EndsWithContext, EndJob
  <1>4. \A g \in Game : \/ lock'[g] = lock[g]
                        \/ lock'[g] = j /\ lock[g] = Nobody
                        \/ lock'[g] = Nobody /\ lock[g] = j
    <2>1. CASE LoadGame(j)
      BY <1>0, <2>1 DEF LoadGame
    <2>2. CASE DropOthers(j) \/ AbandonJob(j)
      BY <1>0, <2>2 DEF DropOthers, AbandonJob, EndJob, Unlocked
    <2>3. CASE PlanJob(j) \/ OwnedIDs(j) \/ FetchDetails(j) \/ UpsertFile(j)
      BY <2>3 DEF PlanJob, OwnedIDs, FetchDetails, UpsertFile
    <2> QED BY <2>1, <2>2, <2>3 DEF JobStep
  <1>. DEFINE Moves == /\ PlanJob(j) \/ OwnedIDs(j)
                       /\ job'[j].pc \in {"owned", "lock"} /\ job'[j].game = job[j].game
                       /\ job'[j].todo = job[j].todo /\ job'[j].keep = job[j].keep
                       /\ ~Working(job[j]) /\ UNCHANGED <<tracked, lock>>
              Loads == /\ LoadGame(j) /\ Working(job'[j]) /\ job[j].pc = "lock"
                       /\ job'[j].game = job[j].game /\ job'[j].snap = job[j].snap
                       /\ job'[j].todo = Wants(job[j].snap, games[job[j].game])
                       /\ job'[j].keep = job[j].keep
                       /\ lock' = [lock EXCEPT ![job[j].game] = j] /\ UNCHANGED tracked
              Tracks(k) == /\ tracked' = IF k \in job[j].todo
                                    THEN [tracked EXCEPT ![job[j].game] = @ \cup {k}]
                                    ELSE tracked
                           /\ job'[j].todo = job[j].todo \ {k}
                           /\ job'[j].keep = job[j].keep \cup ({k} \cap job[j].todo)
              Works == /\ Working(job[j]) /\ Working(job'[j]) /\ UNCHANGED lock
                       /\ job'[j].game = job[j].game /\ job'[j].snap = job[j].snap
                       /\ \E k \in job[j].todo \cup {"none"} : Tracks(k)
              Ends == /\ job'[j] = NoJob /\ lock' = Unlocked(j)
                      /\ \/ /\ job[j].pc = "others"
                            /\ tracked' = [tracked EXCEPT ![job[j].game] = @ \cap job[j].keep]
                         \/ /\ Cancelled(j) \/ "fail" \in Ops
                            /\ UNCHANGED tracked
  <1>5. CASE PlanJob(j)
    <2>1. job'[j] = [job[j] EXCEPT !.pc = "owned", !.snap = stored] /\ job[j] \in GameSync
      BY <1>0, <1>5 DEF PlanJob
    <2>2. /\ job'[j].pc = "owned" /\ job'[j].game = job[j].game
          /\ job'[j].todo = job[j].todo /\ job'[j].keep = job[j].keep
      BY <2>1 DEF GameSync
    <2>3. Moves
      BY <1>5, <2>2 DEF PlanJob, Working, library
    <2> QED BY <1>1, <1>2, <1>3, <1>4, <2>3
  <1>6. CASE OwnedIDs(j)
    <2>1. job'[j] = [job[j] EXCEPT !.pc = "lock"] /\ job[j] \in GameSync
      BY <1>0, <1>6 DEF OwnedIDs
    <2>2. Moves
      BY <1>6, <2>1 DEF OwnedIDs, Working, library, GameSync
    <2> QED BY <1>1, <1>2, <1>3, <1>4, <2>2
  <1>7. CASE LoadGame(j)
    <2>1. job[j] \in GameSync
          /\ job'[j] = [job[j] EXCEPT
                !.todo = Wants(job[j].snap, games[job[j].game]),
                !.pc = IF Wants(job[j].snap, games[job[j].game]) = {} THEN "others" ELSE "fetch"]
      BY <1>0, <1>7 DEF LoadGame
    <2>2. /\ job'[j].pc \in {"others", "fetch"}
          /\ job'[j].game = job[j].game /\ job'[j].snap = job[j].snap
          /\ job'[j].todo = Wants(job[j].snap, games[job[j].game])
          /\ job'[j].keep = job[j].keep
      BY <2>1 DEF GameSync
    <2>3. /\ job[j].pc = "lock" /\ lock' = [lock EXCEPT ![job[j].game] = j]
          /\ UNCHANGED tracked
      BY <1>7 DEF LoadGame, library
    <2>4. Loads
      BY <1>7, <2>2, <2>3 DEF Working
    <2> QED BY <1>1, <1>2, <1>3, <1>4, <2>4
  <1>8. CASE FetchDetails(j)
    <2>1. job'[j] = [job[j] EXCEPT !.pc = "upsert"] /\ job[j] \in GameSync
      BY <1>0, <1>8 DEF FetchDetails
    <2>2. job[j].todo \subseteq Kind /\ "none" \notin Kind
      BY <2>1 DEF GameSync, Kind
    <2>3. /\ Working(job[j]) /\ Working(job'[j]) /\ UNCHANGED <<lock, tracked>>
          /\ job'[j].game = job[j].game /\ job'[j].snap = job[j].snap
          /\ job'[j].todo = job[j].todo /\ job'[j].keep = job[j].keep
      BY <1>8, <2>1 DEF FetchDetails, Working, library, GameSync
    <2>4. Tracks("none")
      BY <2>2, <2>3
    <2>5. Works
      BY <2>3, <2>4
    <2> QED BY <1>1, <1>2, <1>3, <1>4, <2>5
  <1>9. CASE UpsertFile(j)
    <2>1. PICK k \in job[j].todo :
            /\ tracked' = [tracked EXCEPT ![job[j].game] = @ \cup {k}]
            /\ job' = [job EXCEPT ![j].todo = @ \ {k}, ![j].keep = @ \cup {k},
                                  ![j].pc = IF job[j].todo = {k} THEN "others" ELSE @]
      BY <1>9 DEF UpsertFile
    <2>2. job[j] \in GameSync /\ job[j].pc = "upsert"
          /\ job'[j] = [job[j] EXCEPT !.todo = @ \ {k}, !.keep = @ \cup {k},
                                      !.pc = IF job[j].todo = {k} THEN "others" ELSE @]
      BY <1>0, <1>9, <2>1 DEF UpsertFile
    <2>3. /\ Working(job[j]) /\ Working(job'[j]) /\ UNCHANGED lock
          /\ job'[j].game = job[j].game /\ job'[j].snap = job[j].snap
          /\ job'[j].todo = job[j].todo \ {k} /\ job'[j].keep = job[j].keep \cup {k}
      BY <1>9, <2>2 DEF UpsertFile, Working, GameSync
    <2>4. Tracks(k)
      BY <2>1, <2>3
    <2>5. Works
      BY <2>3, <2>4
    <2> QED BY <1>1, <1>2, <1>3, <1>4, <2>5
  <1>10. CASE DropOthers(j) \/ AbandonJob(j)
    <2>1. Ends
      BY <1>0, <1>10 DEF DropOthers, AbandonJob, EndJob, library
    <2> QED BY <1>1, <1>2, <1>3, <1>4, <2>1
  <1> QED BY <1>5, <1>6, <1>7, <1>8, <1>9, <1>10 DEF JobStep

-----------------------------------------------------------------------------
(* The full sync keeps them.                                               *)

\* Revisited again, after a step that neither stores nor compares settings.
LEMMA RevisitedStill ==
    ASSUME \A c \in Change : SameChange(c), NEW g, Revisited(g),
           trigger \/ UnderWay(g) => trigger' \/ UnderWay(g)'
    PROVE  Revisited(g)'
  <1>1. Replaced'
    BY DEF Revisited, Replaced, SameChange, NeedsSync
  <1>2. (\E c \in Change : change[c].pc = "configure")
            => \E c \in Change : change'[c].pc = "configure"
    BY DEF SameChange
  <1> QED BY <1>1, <1>2 DEF Revisited

\* A sync that was asked for gets to a listed game, and ends no sooner.
LEMMA FullGoesOn ==
    ASSUME Unfailing, TypeOK, TriggeredSync \/ DueSync \/ FullStep \/ Relogin,
           NEW g \in Listed, Listed \subseteq account, trigger \/ UnderWay(g)
    PROVE  trigger' \/ UnderWay(g)'
  <1>1. full \in FullSync /\ job \in [Job -> GameSync] /\ g \in Game /\ g \in Job
    BY DEF TypeOK, Listed, Job
  <1>2. CASE TriggeredSync
    BY <1>2 DEF TriggeredSync, StartFull, NoFull, UnderWay
  <1>3. CASE DueSync
    BY <1>3 DEF DueSync, StartFull, UnderWay
  <1>4. CASE PlanFull \/ ListGames \/ SelectGame
    BY <1>1, <1>4 DEF PlanFull, ListGames, SelectGame, FullSync, UnderWay
  <1>5. CASE RowsDone
    BY <1>1, <1>5 DEF RowsDone, FullSync, UnderWay
  <1>6. CASE FinishFull
    BY <1>1, <1>6 DEF FinishFull, UnderWay, JobsDone
  <1>7. CASE AbandonFull
    BY <1>7 DEF AbandonFull, UnderWay, Unfailing
  <1>8. CASE Relogin
    BY <1>8 DEF Relogin
  <1>9. ASSUME NEW h \in Game, UpsertGame(h) PROVE trigger' \/ UnderWay(g)'
    BY <1>1, <1>9 DEF UpsertGame, FullSync, UnderWay
  <1>10. ASSUME NEW h \in Game, StartJob(h) PROVE trigger' \/ UnderWay(g)'
    <2>1. /\ full.pc = "details" /\ ~full.cancelled /\ UNCHANGED trigger
          /\ full' = [full EXCEPT !.todo = @ \ {h}]
          /\ job' = [job EXCEPT ![h] = [NoJob EXCEPT !.pc = "lock", !.snap = full.snap,
                                                     !.game = h]]
      BY <1>10 DEF StartJob
    <2>2. full'.pc = "details" /\ ~full'.cancelled /\ full'.todo = full.todo \ {h}
      BY <1>1, <2>1 DEF FullSync
    <2>3. CASE g = h
      <3>1. job'[g] = [NoJob EXCEPT !.pc = "lock", !.snap = full.snap, !.game = h]
        BY <1>1, <2>1, <2>3
      <3>2. job'[g].pc = "lock"
        BY <3>1 DEF NoJob
      <3> QED BY <2>2, <3>2 DEF UnderWay
    <2>4. CASE g # h
      <3>1. job'[g] = job[g]
        BY <1>1, <2>1, <2>4
      <3> QED BY <2>1, <2>2, <2>4, <3>1 DEF UnderWay
    <2> QED BY <2>3, <2>4
  <1> QED BY <1>2, <1>3, <1>4, <1>5, <1>6, <1>7, <1>8, <1>9, <1>10 DEF FullStep

\* What rows of games a full sync writes, by what it says of them.
LEMMA FullRows ==
    ASSUME TypeOK, TriggeredSync \/ DueSync \/ FullStep \/ Relogin, NEW g \in Game
    PROVE  \/ games'[g] = games[g]
           \/ games'[g] = [games[g] EXCEPT !.listed = TRUE] /\ g \in full.todo
           \/ games'[g] = [games[g] EXCEPT !.selected = TRUE]
  <1>1. games \in [Game -> GameRow]
    BY DEF TypeOK
  <1>2. \/ UNCHANGED games
        \/ \E h \in full.todo : games' = [games EXCEPT ![h].listed = TRUE]
        \/ \E h \in Game : games' = [games EXCEPT ![h].selected = TRUE]
    BY FullWork
  <1> QED BY <1>1, <1>2

LEMMA FullKnown ==
    ASSUME TypeOK, KnownInv, TriggeredSync \/ DueSync \/ FullStep \/ Relogin
    PROVE  KnownInv'
  <1>1. /\ full \in FullSync /\ job \in [Job -> GameSync]
        /\ UNCHANGED <<account, tracked, edit>> /\ account \subseteq Game
    BY FullWork DEF TypeOK
  <1>2. \A g \in Game : games'[g].listed = games[g].listed \/ g \in full.todo
    BY FullRows DEF TypeOK, GameRow
  <1>3. \A g \in Game : games[g].listed => games'[g].listed
    BY FullRows DEF TypeOK, GameRow
  <1>4. Listed \subseteq Listed' /\ Listed' \subseteq account
    BY <1>2, <1>3 DEF Listed, KnownInv
  <1>5. full'.todo \subseteq account /\ (full'.pc = "details" => full'.todo \subseteq Listed')
    <2>1. CASE TriggeredSync \/ DueSync \/ FinishFull \/ AbandonFull
      BY <2>1 DEF TriggeredSync, DueSync, StartFull, FinishFull, AbandonFull, EndFull, NoFull
    <2>2. CASE PlanFull \/ ListGames \/ SelectGame
      BY <1>1, <2>2 DEF PlanFull, ListGames, SelectGame, FullSync, KnownInv
    <2>3. CASE RowsDone
      BY <1>1, <1>4, <2>3 DEF RowsDone, FullSync
    <2>4. CASE Relogin
      BY <1>1, <1>4, <2>4 DEF Relogin, FullSync, KnownInv
    <2>5. ASSUME NEW g \in Game, UpsertGame(g)
          PROVE  full'.pc # "details" /\ full'.todo \subseteq account
      BY <1>1, <2>5 DEF UpsertGame, FullSync, KnownInv
    <2>6. ASSUME NEW g \in Game, StartJob(g)
          PROVE  full'.todo \subseteq full.todo /\ full.pc = "details"
      BY <1>1, <2>6 DEF StartJob, FullSync
    <2> QED BY <1>4, <2>1, <2>2, <2>3, <2>4, <2>5, <2>6 DEF FullStep, KnownInv
  <1>6. \A j \in Job : job'[j].pc # "idle" => /\ job'[j].game \in Listed
                                              /\ j \in Game => job'[j].game = j
    BY FullWork DEF KnownInv
  <1>7. \A g \in Game : job'[g].pc # "idle" => job'[g].game = g
    BY <1>6 DEF Job
  <1> QED BY <1>1, <1>4, <1>5, <1>6, <1>7 DEF KnownInv

\* Neither the rows of a full sync nor a login take anything from what is wanted.
LEMMA FullWants ==
    ASSUME TypeOK, TriggeredSync \/ DueSync \/ FullStep \/ Relogin, NEW g \in Game, NEW s
    PROVE  /\ Wants(s, games[g]) \subseteq Wants(s, games'[g])
           /\ \A e \in Edit : Wants(s, Edited(e)[g]) \subseteq Wants(s, Edited(e)'[g])
  <1>1. games[g] \in GameRow
    BY DEF TypeOK
  <1>2. Wants(s, games[g]) \subseteq Wants(s, games'[g])
    BY <1>1, FullRows, WantsGrow
  <1>3. ASSUME NEW e \in Edit
        PROVE  Wants(s, Edited(e)[g]) \subseteq Wants(s, Edited(e)'[g])
    <2>1. edit' = edit
      BY FullWork
    <2>2. /\ games'[g] \in GameRow
          /\ games[g].selected => games'[g].selected
          /\ games[g].extras = games'[g].extras
      BY <1>1, FullRows DEF GameRow
    <2>. DEFINE R == Edited(e)[g]
                Q == Edited(e)'[g]
    <2>3. /\ R.selected => Q.selected
          /\ R.extras = Q.extras
      BY <1>1, <2>1, <2>2 DEF Edited, GameRow
    <2>. HIDE DEF R, Q
    <2>4. Wants(s, R) \subseteq Wants(s, Q)
      BY <2>3 DEF Wants, WantsGame
    <2> QED BY <2>4 DEF R, Q
  <1> QED BY <1>2, <1>3

LEMMA FullHeld ==
    ASSUME TypeOK, KnownInv, HeldInv, TriggeredSync \/ DueSync \/ FullStep \/ Relogin
    PROVE  HeldInv'
  <1>1. UNCHANGED <<edit, lock>>
    BY FullWork
  <1>2. ASSUME NEW j \in Job
        PROVE  IF Working(job'[j])
               THEN /\ lock'[job'[j].game] = j
                    /\ job'[j].todo \cup job'[j].keep
                         \subseteq Wants(job'[j].snap, games'[job'[j].game])
               ELSE job'[j].todo = {} /\ job'[j].keep = {}
    <2>1. CASE job'[j] = job[j]
      <3>1. CASE Working(job[j])
        <4>1. job[j].game \in Game
          BY <3>1 DEF Working, KnownInv, Listed
        <4> QED BY <1>1, <2>1, <3>1, <4>1, FullWants DEF HeldInv
      <3>2. CASE ~Working(job[j])
        BY <2>1, <3>2 DEF HeldInv
      <3> QED BY <3>1, <3>2
    <2>2. CASE job'[j].pc = "lock" /\ job'[j].todo = {} /\ job'[j].keep = {}
      BY <2>2 DEF Working
    <2> QED BY <2>1, <2>2, FullWork
  <1> QED BY <1>1, <1>2 DEF HeldInv, Working

LEMMA SameChanges ==
    ASSUME ChangesInv, \A c \in Change : SameChange(c), UNCHANGED stored
    PROVE  ChangesInv'
  BY DEF ChangesInv, SameChange

LEMMA FullSettled ==
    ASSUME Unfailing, TypeOK, KnownInv, SettledInv,
           TriggeredSync \/ DueSync \/ FullStep \/ Relogin
    PROVE  SettledInv'
  <1>1. /\ UNCHANGED <<stored, tracked, edit>>
        /\ \A c \in Change : SameChange(c)
        /\ edit \in [Edit -> EditRequest]
    BY FullWork DEF TypeOK
  <1>2. ASSUME NEW g \in Game, Revisited(g) PROVE Revisited(g)' \/ tracked[g] = {}
    <2>1. CASE g \in Listed
      BY <1>1, <1>2, <2>1, FullGoesOn, RevisitedStill DEF KnownInv
    <2>2. CASE g \notin Listed
      BY <2>2 DEF KnownInv
    <2> QED BY <2>1, <2>2
  <1>3. ASSUME NEW g \in Game PROVE Settled(g)' \/ Revisited(g)'
    BY <1>1, <1>2, FullWants DEF SettledInv, Settled
  <1>4. ASSUME NEW e \in Edit, edit'[e].pc = "drop", NEW g \in edit'[e].ids
        PROVE  \/ Revisited(g)'
               \/ \A k \in tracked'[g] \ Wants(stored', Edited(e)'[g]) :
                     \E u \in edit'[e].list : u.game = g /\ u.kind = k
    <2>1. g \in Game
      BY <1>1, <1>4 DEF EditRequest
    <2>2. Wants(stored, Edited(e)[g]) \subseteq Wants(stored, Edited(e)'[g])
      BY <2>1, FullWants
    <2> QED BY <1>1, <1>2, <1>4, <2>1, <2>2 DEF SettledInv
  <1> QED BY <1>3, <1>4 DEF SettledInv

-----------------------------------------------------------------------------
(* So do the syncs of single games.                                        *)

LEMMA JobKnown ==
    ASSUME TypeOK, KnownInv, NEW j \in Job, JobStep(j) PROVE KnownInv'
  <1>1. /\ UNCHANGED <<account, games, full, edit>>
        /\ \A i \in Job \ {j} : job'[i] = job[i]
        /\ job[j].pc # "idle" /\ job[j].game \in Listed
    BY JobWork DEF KnownInv
  <1>2. job'[j].pc # "idle" => job'[j].game = job[j].game
    <2>1. NoJob.pc = "idle"
      BY DEF NoJob
    <2> QED BY <2>1, JobWork
  <1>3. /\ \A i \in Job : job'[i].pc # "idle" => job'[i].game \in Listed
        /\ \A g \in Game : job'[g].pc # "idle" => job'[g].game = g
    BY <1>1, <1>2 DEF KnownInv, Job
  <1>4. \A g \in Game : tracked'[g] # {} => g \in Listed
    <2>1. tracked \in [Game -> SUBSET Kind]
      BY DEF TypeOK
    <2>2. CASE UNCHANGED tracked
      BY <2>2 DEF KnownInv
    <2>3. ASSUME NEW k, tracked' = [tracked EXCEPT ![job[j].game] = @ \cup {k}]
          PROVE  \A g \in Game : tracked'[g] # {} => g \in Listed
      BY <1>1, <2>1, <2>3 DEF KnownInv
    <2>4. CASE tracked' = [tracked EXCEPT ![job[j].game] = @ \cap job[j].keep]
      BY <1>1, <2>1, <2>4 DEF KnownInv
    <2> QED BY <2>2, <2>3, <2>4, JobWork
  <1>5. Listed' = Listed
    BY <1>1 DEF Listed
  <1> QED BY <1>1, <1>3, <1>4, <1>5 DEF KnownInv

LEMMA JobHeld ==
    ASSUME TypeOK, KnownInv, SyncsLast, HeldInv, NEW j \in Job, JobStep(j) PROVE HeldInv'
  <1>1. /\ UNCHANGED <<games, edit>>
        /\ \A i \in Job \ {j} : job'[i] = job[i]
        /\ lock \in [Game -> Job \cup {Nobody}]
        /\ \A i \in Job : i # Nobody
        /\ job[j].pc # "idle" /\ job[j].game \in Game
    BY JobWork, ProcessAssumption DEF TypeOK, Job, KnownInv, Listed
  <1>2. \A g \in Game : \A x \in Job \ {j} : lock[g] = x => lock'[g] = x
    BY <1>1, JobWork
  <1>3. ASSUME NEW e \in Edit, edit'[e].pc \in {"read", "drop"}, NEW g \in edit'[e].ids
        PROVE  lock'[g] = e
    <2>1. e # j /\ e \in Job
      BY <1>1, <1>3 DEF SyncsLast, Job
    <2>2. g \in Game /\ lock[g] = e
      BY <1>1, <1>3 DEF HeldInv, KnownInv, Listed
    <2> QED BY <1>2, <2>1, <2>2
  <1>4. ASSUME NEW i \in Job, i # j
        PROVE  IF Working(job'[i])
               THEN /\ lock'[job'[i].game] = i
                    /\ job'[i].todo \cup job'[i].keep
                         \subseteq Wants(job'[i].snap, games'[job'[i].game])
               ELSE job'[i].todo = {} /\ job'[i].keep = {}
    <2>1. Working(job[i]) => job[i].game \in Game
      BY <1>4 DEF Working, KnownInv, Listed
    <2> QED BY <1>1, <1>2, <1>4, <2>1 DEF HeldInv
  <1>5. IF Working(job'[j])
        THEN /\ lock'[job'[j].game] = j
             /\ job'[j].todo \cup job'[j].keep
                  \subseteq Wants(job'[j].snap, games'[job'[j].game])
        ELSE job'[j].todo = {} /\ job'[j].keep = {}
    <2>1. CASE /\ job'[j].pc \in {"owned", "lock"} /\ ~Working(job[j])
               /\ job'[j].todo = job[j].todo /\ job'[j].keep = job[j].keep
      BY <2>1 DEF HeldInv, Working
    <2>2. CASE /\ LoadGame(j) /\ Working(job'[j]) /\ job[j].pc = "lock"
               /\ job'[j].game = job[j].game /\ job'[j].snap = job[j].snap
               /\ job'[j].todo = Wants(job[j].snap, games[job[j].game])
               /\ job'[j].keep = job[j].keep
               /\ lock' = [lock EXCEPT ![job[j].game] = j] /\ UNCHANGED tracked
      <3>1. job[j].keep = {}
        BY <2>2 DEF HeldInv, Working
      <3> QED BY <1>1, <2>2, <3>1
    <2>3. CASE /\ Working(job[j]) /\ Working(job'[j]) /\ UNCHANGED lock
               /\ job'[j].game = job[j].game /\ job'[j].snap = job[j].snap
               /\ \E k \in job[j].todo \cup {"none"} :
                    /\ job'[j].todo = job[j].todo \ {k}
                    /\ job'[j].keep = job[j].keep \cup ({k} \cap job[j].todo)
      BY <1>1, <2>3 DEF HeldInv
    <2>4. CASE job'[j] = NoJob
      BY <2>4 DEF NoJob, Working
    <2> QED BY <2>1, <2>2, <2>3, <2>4, JobWork
  <1> QED BY <1>1, <1>3, <1>4, <1>5 DEF HeldInv, Working

\* What a sync does to what is tracked of a game that it holds: its plan is by
\* the settings that are stored.
LEMMA JobTracks ==
    ASSUME Unfailing, TypeOK, KnownInv, HeldInv, PlansAreCurrent, NEW j \in Job, JobStep(j),
           NEW g \in Game
    PROVE  /\ tracked'[g] # tracked[g] => lock[g] = j
           /\ tracked'[g] \subseteq tracked[g] \cup Wants(stored, games[g])
           /\ g = j /\ job'[g].pc = "idle" /\ ~full.cancelled =>
                lock[g] = j /\ tracked'[g] \subseteq Wants(stored, games[g])
  <1>1. /\ tracked \in [Game -> SUBSET Kind] /\ job[j].pc # "idle"
        /\ job[j].game \in Game
    BY JobWork DEF TypeOK, KnownInv, Listed
  <1>2. Working(job[j]) =>
          /\ lock[job[j].game] = j
          /\ job[j].todo \cup job[j].keep \subseteq Wants(stored, games[job[j].game])
    <2>1. Working(job[j]) => SamePlan(job[j].snap, stored)
      BY DEF Working, Planning, PlansAreCurrent
    <2> QED BY <2>1, PlanWants DEF HeldInv
  <1>3. g = j => job[j].game = g /\ (Cancelled(j) => full.cancelled)
    BY <1>1, ProcessAssumption DEF KnownInv, Cancelled
  <1>4. CASE Working(job'[j]) \/ job'[j].pc \in {"owned", "lock"}
    <2>1. job'[j].pc # "idle"
      BY <1>4 DEF Working
    <2>2. NoJob.pc = "idle"
      BY DEF NoJob
    <2>3. CASE UNCHANGED tracked
      BY <2>1, <2>3
    <2>4. ASSUME NEW k \in job[j].todo, Working(job[j]),
                 tracked' = [tracked EXCEPT ![job[j].game] = @ \cup {k}]
          PROVE  /\ tracked'[g] # tracked[g] => lock[g] = j
                 /\ tracked'[g] \subseteq tracked[g] \cup Wants(stored, games[g])
      BY <1>1, <1>2, <2>4
    <2> QED BY <2>1, <2>2, <2>3, <2>4, JobWork
  <1>5. CASE /\ job[j].pc = "others"
             /\ tracked' = [tracked EXCEPT ![job[j].game] = @ \cap job[j].keep]
    BY <1>1, <1>2, <1>3, <1>5 DEF Working
  <1>6. CASE (Cancelled(j) \/ "fail" \in Ops) /\ UNCHANGED tracked
    BY <1>3, <1>6 DEF Unfailing
  <1> QED BY <1>4, <1>5, <1>6, JobWork

LEMMA JobSettled ==
    ASSUME Unfailing, TypeOK, KnownInv, SyncsLast, HeldInv, PlansAreCurrent, SettledInv,
           NEW j \in Job, JobStep(j)
    PROVE  SettledInv'
  <1>1. /\ UNCHANGED <<stored, games, trigger, full, edit>>
        /\ \A c \in Change : SameChange(c)
        /\ \A i \in Job \ {j} : job'[i] = job[i]
        /\ edit \in [Edit -> EditRequest]
    BY JobWork DEF TypeOK
  <1>2. ASSUME NEW g \in Game, Revisited(g)
        PROVE  \/ Revisited(g)'
               \/ lock[g] = j /\ j = g /\ tracked'[g] \subseteq Wants(stored, games[g])
    <2>1. CASE g = j /\ job'[g].pc = "idle" /\ ~full.cancelled
      BY <2>1, JobTracks
    <2>2. CASE ~(g = j /\ job'[g].pc = "idle" /\ ~full.cancelled)
      <3>1. trigger \/ UnderWay(g) => trigger' \/ UnderWay(g)'
        BY <1>1, <2>2 DEF UnderWay, Job
      <3> QED BY <1>1, <1>2, <3>1, RevisitedStill
    <2> QED BY <2>1, <2>2
  <1>3. ASSUME NEW g \in Game PROVE Settled(g)' \/ Revisited(g)'
    BY <1>1, <1>2, JobTracks DEF SettledInv, Settled
  <1>4. ASSUME NEW e \in Edit, edit'[e].pc = "drop", NEW g \in edit'[e].ids
        PROVE  \/ Revisited(g)'
               \/ \A k \in tracked'[g] \ Wants(stored', Edited(e)'[g]) :
                     \E u \in edit'[e].list : u.game = g /\ u.kind = k
    <2>1. g \in Game /\ lock[g] = e
      BY <1>1, <1>4 DEF EditRequest, HeldInv
    <2>2. Edited(e)' = Edited(e)
      BY <1>1 DEF Edited
    <2>3. CASE lock[g] # j
      BY <1>1, <1>2, <1>4, <2>1, <2>2, <2>3, JobTracks DEF SettledInv
    <2>4. CASE lock[g] = j
      <3>1. e = j /\ job[j].pc # "idle"
        BY <2>1, <2>4, JobWork
      <3> QED BY <1>1, <1>4, <3>1 DEF SyncsLast
    <2> QED BY <2>3, <2>4
  <1> QED BY <1>3, <1>4 DEF SettledInv

-----------------------------------------------------------------------------
(* A change of the settings keeps them.                                    *)

LEMMA DropShrinks ==
    ASSUME TypeOK, NEW u \in Dropped, NEW answer, DropFile(u, answer)
    PROVE  /\ \A g \in Game : tracked'[g] \subseteq tracked[g]
           /\ u.kind \notin tracked'[u.game]
  BY DEF DropFile, TypeOK, Dropped

\* A change takes from what is tracked, and may cancel syncs.
LEMMA ChangeWork ==
    ASSUME TypeOK, NEW c \in Change, PutSettings(c) \/ ChangeStep(c) \/ HangUp(c)
    PROVE  /\ UNCHANGED <<account, games, lock, edit, pauser>>
           /\ \A j \in Job : /\ job'[j].pc = job[j].pc /\ job'[j].game = job[j].game
                             /\ job'[j].snap = job[j].snap
                             /\ job'[j].todo = job[j].todo /\ job'[j].keep = job[j].keep
           /\ full'.pc = full.pc /\ full'.todo = full.todo
           /\ full'.snap = full.snap /\ full'.selectNew = full.selectNew
           /\ \A g \in Game : tracked'[g] \subseteq tracked[g]
           /\ \/ UNCHANGED full
              \/ change[c].pc = "full"
  <1>1. /\ job \in [Job -> GameSync] /\ full \in FullSync /\ change[c] \in ChangeRequest
    BY DEF TypeOK
  <1>2. UNCHANGED <<account, games, lock, edit, pauser>>
    BY DEF PutSettings, ChangeStep, HangUp, Ask, AskAgain, FindUnwanted, Compare, LockPlan,
       CancelFull, StopGameSyncs, DropForChange, SaveSettings, Configure, library, requests
  <1>3. \A j \in Job : /\ job'[j].pc = job[j].pc /\ job'[j].game = job[j].game
                       /\ job'[j].snap = job[j].snap
                       /\ job'[j].todo = job[j].todo /\ job'[j].keep = job[j].keep
    <2>1. CASE StopGameSyncs(c)
      BY <1>1, <2>1 DEF StopGameSyncs, GameSync
    <2>2. CASE UNCHANGED job
      BY <2>2
    <2> QED BY <2>1, <2>2 DEF PutSettings, ChangeStep, HangUp, Ask, AskAgain,
       FindUnwanted, Compare, LockPlan, CancelFull, DropForChange, SaveSettings, Configure
  <1>4. /\ full'.pc = full.pc /\ full'.todo = full.todo
        /\ full'.snap = full.snap /\ full'.selectNew = full.selectNew
        /\ UNCHANGED full \/ change[c].pc = "full"
    <2>1. CASE CancelFull(c)
      BY <1>1, <2>1 DEF CancelFull, FullSync
    <2>2. CASE UNCHANGED full
      BY <2>2
    <2> QED BY <2>1, <2>2 DEF PutSettings, ChangeStep, HangUp, Ask, AskAgain,
       FindUnwanted, Compare, LockPlan, StopGameSyncs, DropForChange, SaveSettings, Configure
  <1>5. \A g \in Game : tracked'[g] \subseteq tracked[g]
    <2>1. CASE DropForChange(c)
      <3>1. PICK u \in change[c].list : DropFile(u, change[c].answer)
        BY <2>1 DEF DropForChange
      <3> QED BY <1>1, <3>1, DropShrinks DEF ChangeRequest
    <2>2. CASE UNCHANGED tracked
      BY <2>2
    <2> QED BY <2>1, <2>2 DEF PutSettings, ChangeStep, HangUp, Ask, AskAgain,
       FindUnwanted, Compare, LockPlan, CancelFull, StopGameSyncs, SaveSettings, Configure,
       library
  <1> QED BY <1>2, <1>3, <1>4, <1>5

\* A change compares with the settings it read, stores some, and asks for a sync.
LEMMA ChangeGoesOn ==
    ASSUME TypeOK, NEW c \in Change, PutSettings(c) \/ ChangeStep(c) \/ HangUp(c)
    PROVE  \/ /\ change[c].pc = "configure" /\ change'[c].pc = "done"
              /\ change'[c].result = change[c].result
              /\ change'[c].old = change[c].old /\ change'[c].new = change[c].new
              /\ UNCHANGED stored /\ trigger' = (trigger \/ NeedsSync(c))
           \/ /\ change[c].pc = "drop" /\ change'[c].pc = "configure"
              /\ change'[c].result = "stored"
              /\ change'[c].old = change[c].old /\ change'[c].new = change[c].new
              /\ stored' = change[c].new
           \/ /\ change[c].pc \notin {"configure", "done"} /\ change'[c].pc # "configure"
              /\ UNCHANGED stored
              /\ change'[c].result \in {change[c].result, "refused", "gone"}
              /\ \/ change'[c].old = change[c].old /\ change[c].pc # "new"
                 \/ change'[c].old = stored
  <1>1. change[c] \in ChangeRequest /\ change \in [Change -> ChangeRequest]
    BY DEF TypeOK
  <1>. DEFINE Compares == /\ change[c].pc \notin {"configure", "done"}
                          /\ change'[c].pc # "configure"
                          /\ UNCHANGED stored
                          /\ change'[c].result \in {change[c].result, "refused", "gone"}
                          /\ \/ change'[c].old = change[c].old /\ change[c].pc # "new"
                             \/ change'[c].old = stored
  <1>2. CASE Configure(c)
    BY <1>1, <1>2 DEF Configure, ChangeGoto, ChangeRequest, library
  <1>3. CASE SaveSettings(c)
    BY <1>1, <1>3 DEF SaveSettings, ChangeRequest
  <1>4. CASE PutSettings(c)
    <2>1. PICK ns, a : change' = [change EXCEPT ![c].pc = "ask", ![c].new = ns,
                                                ![c].answer = a, ![c].old = stored]
      BY <1>4 DEF PutSettings
    <2>2. /\ change'[c].pc = "ask" /\ change'[c].old = stored
          /\ change'[c].result = change[c].result
      BY <1>1, <2>1 DEF ChangeRequest
    <2>3. change[c].pc = "new" /\ UNCHANGED stored
      BY <1>4 DEF PutSettings, library
    <2>4. Compares
      BY <2>2, <2>3
    <2> QED BY <2>4
  <1>5. CASE Ask(c) \/ AskAgain(c)
    <2>1. PICK from \in {"ask", "again"}, to \in {"compare", "drop"} : FindUnwanted(c, from, to)
      BY <1>5 DEF Ask, AskAgain
    <2>2. change[c].pc = from /\ UNCHANGED stored
      BY <2>1 DEF FindUnwanted, library
    <2>3. CASE EndChange(c, "refused")
      BY <1>1, <2>2, <2>3 DEF EndChange, ChangeRequest
    <2>4. ASSUME NEW list, change' = [change EXCEPT ![c].pc = to, ![c].list = list]
          PROVE  Compares
      <3>1. /\ change'[c].pc = to /\ change'[c].result = change[c].result
            /\ change'[c].old = change[c].old
        BY <1>1, <2>4 DEF ChangeRequest
      <3> QED BY <2>2, <3>1
    <2> QED BY <2>1, <2>3, <2>4 DEF FindUnwanted
  <1>6. CASE Compare(c) \/ LockPlan(c)
    <2>1. PICK pc \in {"drop", "sem", "full"} : ChangeGoto(c, pc)
      BY <1>6 DEF Compare, LockPlan
    <2>2. /\ change'[c].pc = pc /\ change'[c].result = change[c].result
          /\ change'[c].old = change[c].old
      BY <1>1, <2>1 DEF ChangeGoto, ChangeRequest
    <2>3. change[c].pc \in {"compare", "sem"} /\ UNCHANGED stored
      BY <1>6 DEF Compare, LockPlan, library
    <2> QED BY <2>2, <2>3
  <1>7. CASE CancelFull(c) \/ StopGameSyncs(c) \/ DropForChange(c)
    <2>1. change[c].pc \in {"full", "games", "drop"} /\ UNCHANGED stored
      BY <1>7 DEF CancelFull, StopGameSyncs, DropForChange, library
    <2>2. /\ change'[c].pc \in {"games", "again", "drop"}
          /\ change'[c].result = change[c].result /\ change'[c].old = change[c].old
      <3>1. CASE CancelFull(c)
        BY <1>1, <3>1 DEF CancelFull, ChangeGoto, ChangeRequest
      <3>2. CASE StopGameSyncs(c)
        BY <1>1, <3>2 DEF StopGameSyncs, ChangeRequest
      <3>3. CASE DropForChange(c)
        BY <1>1, <3>3 DEF DropForChange, ChangeRequest
      <3> QED BY <1>7, <3>1, <3>2, <3>3
    <2> QED BY <2>1, <2>2
  <1>8. CASE HangUp(c)
    <2>1. /\ change'[c].pc = "done" /\ change'[c].result = "gone"
          /\ change'[c].old = change[c].old
      BY <1>1, <1>8 DEF HangUp, EndChange, ChangeRequest
    <2>2. /\ change[c].pc \notin {"new", "configure", "done"} /\ UNCHANGED stored
      BY <1>8 DEF HangUp, library
    <2> QED BY <2>1, <2>2
  <1> QED BY <1>2, <1>3, <1>4, <1>5, <1>6, <1>7, <1>8 DEF ChangeStep

LEMMA ChangeKnown ==
    ASSUME TypeOK, KnownInv, NEW c \in Change, PutSettings(c) \/ ChangeStep(c) \/ HangUp(c)
    PROVE  KnownInv'
  <1>1. Listed' = Listed /\ UNCHANGED <<account, edit>>
    BY ChangeWork DEF Listed
  <1>2. \A g \in Game : g \in Job
    BY DEF Job
  <1> QED BY <1>1, <1>2, ChangeWork DEF KnownInv

LEMMA ChangeHeld ==
    ASSUME TypeOK, HeldInv, NEW c \in Change, PutSettings(c) \/ ChangeStep(c) \/ HangUp(c)
    PROVE  HeldInv'
  BY ChangeWork DEF HeldInv, Working

LEMMA ChangeChanges ==
    ASSUME OneAuthor, TypeOK, ChangesInv, NEW c \in Change,
           PutSettings(c) \/ ChangeStep(c) \/ HangUp(c)
    PROVE  ChangesInv'
  <1>1. \A d \in Change : d = c
    BY DEF OneAuthor
  <1>2. /\ change'[c].result = "stored" => change'[c].pc \in {"configure", "done"}
        /\ change'[c].pc = "configure" => change'[c].result = "stored"
        /\ change'[c].pc \notin {"new", "configure", "done"} => SamePlan(change'[c].old, stored')
    BY ChangeGoesOn, SamePlanAlways DEF ChangesInv
  <1> QED BY <1>1, <1>2 DEF ChangesInv

LEMMA ChangeSettled ==
    ASSUME OneAuthor, TypeOK, ChangesInv, SettledInv, NEW c \in Change,
           PutSettings(c) \/ ChangeStep(c) \/ HangUp(c)
    PROVE  SettledInv'
  <1>1. /\ UNCHANGED <<games, edit>> /\ \A d \in Change : d = c
        /\ edit \in [Edit -> EditRequest]
        /\ \A g \in Game : tracked'[g] \subseteq tracked[g]
    BY ChangeWork DEF OneAuthor, TypeOK
  <1>2. \A e \in Edit : Edited(e)' = Edited(e)
    BY <1>1 DEF Edited
  <1>3. \/ \A g \in Game : Revisited(g)'
        \/ /\ SamePlan(stored', stored)
           /\ \A g \in Game : ~Revisited(g)
    <2>1. CASE /\ change[c].pc = "configure" /\ change'[c].pc = "done"
               /\ change'[c].result = change[c].result
               /\ change'[c].old = change[c].old /\ change'[c].new = change[c].new
               /\ UNCHANGED stored /\ trigger' = (trigger \/ NeedsSync(c))
      <3>1. CASE NeedsSync(c)
        <4>1. change'[c].result = "stored" /\ NeedsSync(c)' /\ trigger'
          BY <2>1, <3>1 DEF ChangesInv, NeedsSync
        <4>2. Replaced'
          BY <4>1 DEF Replaced
        <4> QED BY <4>1, <4>2 DEF Revisited
      <3>2. CASE ~NeedsSync(c)
        <4>1. ~Replaced
          BY <1>1, <3>2 DEF Replaced
        <4> QED BY <2>1, <4>1, SamePlanAlways DEF Revisited
      <3> QED BY <3>1, <3>2
    <2>2. CASE /\ change[c].pc = "drop" /\ change'[c].pc = "configure"
               /\ change'[c].result = "stored"
               /\ change'[c].old = change[c].old /\ change'[c].new = change[c].new
               /\ stored' = change[c].new
      <3>1. ~Replaced /\ SamePlan(change[c].old, stored)
        BY <1>1, <2>2 DEF Replaced, ChangesInv
      <3>2. NeedsSync(c) => \A g \in Game : Revisited(g)'
        BY <2>2 DEF NeedsSync, Revisited, Replaced
      <3>3. ~NeedsSync(c) => SamePlan(stored', stored)
        BY <2>2, <3>1, SamePlanAlways DEF NeedsSync
      <3> QED BY <3>1, <3>2, <3>3 DEF Revisited
    <2>3. CASE change[c].pc \notin {"configure", "done"} /\ UNCHANGED stored
      <3>1. ~Replaced
        BY <1>1, <2>3 DEF Replaced, ChangesInv
      <3> QED BY <2>3, <3>1, SamePlanAlways DEF Revisited
    <2> QED BY <2>1, <2>2, <2>3, ChangeGoesOn
  <1>4. CASE \A g \in Game : Revisited(g)'
    BY <1>1, <1>4 DEF SettledInv, EditRequest
  <1>5. CASE /\ SamePlan(stored', stored)
             /\ \A g \in Game : ~Revisited(g)
    <2>1. \A gm : Wants(stored', gm) = Wants(stored, gm)
      BY <1>5, PlanWants
    <2>2. ASSUME NEW g \in Game PROVE Settled(g)'
      BY <1>1, <1>5, <2>1 DEF SettledInv, Settled
    <2>3. ASSUME NEW e \in Edit, edit'[e].pc = "drop", NEW g \in edit'[e].ids
          PROVE  \A k \in tracked'[g] \ Wants(stored', Edited(e)'[g]) :
                    \E u \in edit'[e].list : u.game = g /\ u.kind = k
      <3>1. g \in Game
        BY <1>1, <2>3 DEF EditRequest
      <3> QED BY <1>1, <1>2, <1>5, <2>1, <2>3, <3>1 DEF SettledInv
    <2> QED BY <2>2, <2>3 DEF SettledInv
  <1> QED BY <1>3, <1>4, <1>5

-----------------------------------------------------------------------------
(* A request on games keeps them.                                          *)

LEMMA EditWork ==
    ASSUME TypeOK, SyncsLast, NEW e \in Edit,
           RequestEdit(e) \/ EditStep(e) \/ HangUpEdit(e) \/ Expire(e)
    PROVE  /\ UNCHANGED <<account, stored, trigger, full, change, pauser>>
           /\ \A f \in Edit \ {e} : edit'[f] = edit[f]
           /\ \A j \in Job \ {e} : job'[j] = job[j]
           /\ \A g \in Game : \A x \in Job \ {e} : lock[g] = x => lock'[g] = x
           /\ \A g \in Game : tracked'[g] \subseteq tracked[g]
           /\ UNCHANGED games \/ StoreEdit(e)
           /\ job[e].pc # "idle" => UNCHANGED <<lock, games>>
  <1>1. /\ edit \in [Edit -> EditRequest] /\ job \in [Job -> GameSync]
        /\ lock \in [Game -> Job \cup {Nobody}]
        /\ e \in Job /\ \A x \in Job : x # Nobody
    BY ProcessAssumption DEF TypeOK, Job
  <1>2. UNCHANGED <<account, stored, trigger, full, change, pauser>>
    BY DEF RequestEdit, EditStep, LockGame, ListFiles, DropForEdit, StoreEdit, Reply,
       SyncNext, SyncedAll, HangUpEdit, Expire, library, requests
  <1>3. /\ \A f \in Edit \ {e} : edit'[f] = edit[f]
        /\ \A j \in Job \ {e} : job'[j] = job[j]
    BY <1>1 DEF RequestEdit, EditStep, LockGame, ListFiles, EndEdit, DropForEdit,
       StoreEdit, Reply, SyncNext, SyncedAll, HangUpEdit, Expire, requests
  <1>4. \A g \in Game : \A x \in Job \ {e} : lock[g] = x => lock'[g] = x
    BY <1>1 DEF RequestEdit, EditStep, LockGame, ListFiles, EndEdit, DropForEdit,
       StoreEdit, Reply, SyncNext, SyncedAll, HangUpEdit, Expire, Unlocked
  <1>5. \A g \in Game : tracked'[g] \subseteq tracked[g]
    <2>1. CASE DropForEdit(e)
      <3>1. PICK u \in edit[e].list : DropFile(u, edit[e].answer)
        BY <2>1 DEF DropForEdit
      <3> QED BY <1>1, <3>1, DropShrinks DEF EditRequest
    <2>2. CASE UNCHANGED tracked
      BY <2>2
    <2> QED BY <2>1, <2>2 DEF RequestEdit, EditStep, LockGame, ListFiles, StoreEdit, Reply,
       SyncNext, SyncedAll, HangUpEdit, Expire, library
  <1>6. UNCHANGED games \/ StoreEdit(e)
    BY DEF RequestEdit, EditStep, LockGame, ListFiles, DropForEdit, Reply,
       SyncNext, SyncedAll, HangUpEdit, Expire, library
  <1>7. job[e].pc # "idle" => UNCHANGED <<lock, games>>
    BY DEF RequestEdit, EditStep, LockGame, ListFiles, DropForEdit, StoreEdit, Reply,
       SyncNext, SyncedAll, HangUpEdit, Expire, library, SyncsLast
  <1> QED BY <1>2, <1>3, <1>4, <1>5, <1>6, <1>7

\* The games a request is about, the sync it begins, and the locks it has.
LEMMA EditGoesOn ==
    ASSUME TypeOK, KnownInv, HeldInv, NEW e \in Edit,
           RequestEdit(e) \/ EditStep(e) \/ HangUpEdit(e) \/ Expire(e)
    PROVE  /\ edit'[e].ids \subseteq Listed /\ edit'[e].left \subseteq edit'[e].ids
           /\ \/ /\ job'[e].pc = job[e].pc /\ job'[e].game = job[e].game
                 /\ job'[e].snap = job[e].snap
                 /\ job'[e].todo = job[e].todo /\ job'[e].keep = job[e].keep
              \/ /\ job'[e].pc = "plan" /\ job'[e].game \in edit[e].left
                 /\ job'[e].todo = {} /\ job'[e].keep = {}
           /\ edit'[e].pc \in {"read", "drop"} => \A g \in edit'[e].ids : lock'[g] = e
  <1>1. /\ edit \in [Edit -> EditRequest] /\ job \in [Job -> GameSync]
        /\ lock \in [Game -> Job \cup {Nobody}] /\ e \in Job /\ Listed \subseteq Game
        /\ edit[e].ids \subseteq Listed /\ edit[e].left \subseteq edit[e].ids
    BY DEF TypeOK, Job, KnownInv, Listed
  <1>. DEFINE Ids == edit'[e].ids \subseteq Listed /\ edit'[e].left \subseteq edit'[e].ids
              SameJob == /\ job'[e].pc = job[e].pc /\ job'[e].game = job[e].game
                         /\ job'[e].snap = job[e].snap
                         /\ job'[e].todo = job[e].todo /\ job'[e].keep = job[e].keep
              Locks == edit'[e].pc \in {"read", "drop"}
                         => \A g \in edit'[e].ids : lock'[g] = e
  <1>2. ASSUME UNCHANGED job PROVE SameJob
    BY <1>2
  <1>3. CASE RequestEdit(e)
    <2>1. PICK kind \in EditKinds, ids \in IdSets, a \in Answers :
            /\ ids # {} /\ \A g \in ids : games[g].listed
            /\ edit' = [edit EXCEPT ![e] =
                 [NewEdit EXCEPT !.pc = IF kind = "sync" THEN "sync" ELSE "locks",
                                 !.kind = kind, !.ids = ids, !.answer = a,
                                 !.before = games[Only(ids)],
                                 !.left = IF kind = "sync" THEN ids ELSE {}]]
      BY <1>3 DEF RequestEdit
    <2>2. /\ edit'[e].ids = ids /\ edit'[e].left \in {ids, {}}
          /\ edit'[e].pc \notin {"read", "drop"}
      BY <1>1, <2>1 DEF NewEdit
    <2>3. ids \subseteq Listed
      BY <2>1, RequestAssumption DEF Listed
    <2> QED BY <1>2, <1>3, <2>2, <2>3 DEF RequestEdit
  <1>4. CASE LockGame(e)
    <2>1. edit'[e].ids = edit[e].ids /\ edit'[e].left = edit[e].left /\ UNCHANGED job
      BY <1>1, <1>4 DEF LockGame, EditRequest
    <2>2. Locks
      <3>1. PICK g \in {x \in edit[e].ids : lock[x] # e} :
              /\ lock' = [lock EXCEPT ![g] = e]
              /\ edit' = IF {x \in edit[e].ids : lock[x] # e} = {g}
                         THEN [edit EXCEPT ![e].pc = "read"] ELSE edit
        BY <1>4 DEF LockGame
      <3>2. CASE {x \in edit[e].ids : lock[x] # e} = {g}
        BY <1>1, <2>1, <3>1, <3>2
      <3>3. CASE {x \in edit[e].ids : lock[x] # e} # {g}
        BY <1>4, <3>1, <3>3 DEF LockGame
      <3> QED BY <3>2, <3>3
    <2> QED BY <1>1, <1>2, <2>1, <2>2
  <1>5. CASE EndEdit(e) /\ UNCHANGED job
    BY <1>1, <1>2, <1>5 DEF EndEdit, NewEdit
  <1>6. CASE ListFiles(e) /\ ~EndEdit(e)
    <2>1. /\ edit' = [edit EXCEPT ![e].pc = "drop", ![e].list = ToDrop(e)]
          /\ UNCHANGED <<lock, job>> /\ edit[e].pc = "read"
      BY <1>6 DEF ListFiles
    <2>2. edit'[e].ids = edit[e].ids /\ edit'[e].left = edit[e].left
      BY <1>1, <2>1 DEF EditRequest
    <2>3. Locks
      BY <2>1, <2>2 DEF HeldInv
    <2> QED BY <1>1, <1>2, <2>1, <2>2, <2>3
  <1>7. CASE DropForEdit(e)
    <2>1. /\ edit[e].pc = "drop" /\ UNCHANGED <<lock, job>>
          /\ \E u : edit' = [edit EXCEPT ![e].list = @ \ {u}]
      BY <1>7 DEF DropForEdit
    <2>2. edit'[e].ids = edit[e].ids /\ edit'[e].left = edit[e].left
      BY <1>1, <2>1 DEF EditRequest
    <2> QED BY <1>1, <1>2, <2>1, <2>2 DEF HeldInv
  <1>8. CASE StoreEdit(e) \/ Reply(e)
    <2>1. UNCHANGED job /\ edit'[e].pc \notin {"read", "drop"}
      BY <1>1, <1>8 DEF StoreEdit, Reply, EditRequest
    <2>2. edit'[e].ids = edit[e].ids /\ edit'[e].left \in {edit[e].left, edit[e].ids, {}}
      BY <1>1, <1>8 DEF StoreEdit, Reply, EditRequest
    <2> QED BY <1>1, <1>2, <2>1, <2>2
  <1>9. CASE SyncNext(e)
    <2>1. PICK g \in edit[e].left :
            /\ edit' = [edit EXCEPT ![e].left = @ \ {g}]
            /\ job' = [job EXCEPT ![e] = [NoJob EXCEPT !.pc = "plan", !.game = g]]
      BY <1>9 DEF SyncNext
    <2>2. edit'[e].ids = edit[e].ids /\ edit'[e].left \subseteq edit[e].left
          /\ edit'[e].pc = "sync"
      BY <1>1, <1>9, <2>1 DEF SyncNext, EditRequest
    <2>3. job'[e] = [NoJob EXCEPT !.pc = "plan", !.game = g]
      BY <1>1, <2>1
    <2>4. job'[e].pc = "plan" /\ job'[e].game = g /\ job'[e].todo = {} /\ job'[e].keep = {}
      BY <2>3 DEF NoJob
    <2> QED BY <1>1, <2>2, <2>4
  <1>10. CASE Expire(e)
    <2>1. UNCHANGED <<edit, lock>> /\ job' = [job EXCEPT ![e].cancelled = TRUE]
      BY <1>10 DEF Expire, requests
    <2>2. SameJob
      BY <1>1, <2>1 DEF GameSync
    <2> QED BY <1>1, <2>1, <2>2 DEF HeldInv
  <1> QED BY <1>3, <1>4, <1>5, <1>6, <1>7, <1>8, <1>9, <1>10
       DEF EditStep, ListFiles, SyncedAll, HangUpEdit

\* What a request stores lists no game and takes none from the list.
LEMMA StoredRows ==
    ASSUME TypeOK, NEW e \in Edit, UNCHANGED games \/ StoreEdit(e), NEW g \in Game
    PROVE  /\ games'[g].listed = games[g].listed
           /\ g \notin edit[e].ids => games'[g] = games[g]
  BY DEF StoreEdit, Edited, TypeOK, GameRow

LEMMA EditKnown ==
    ASSUME TypeOK, SyncsLast, KnownInv, HeldInv, NEW e \in Edit,
           RequestEdit(e) \/ EditStep(e) \/ HangUpEdit(e) \/ Expire(e)
    PROVE  KnownInv'
  <1>1. Listed' = Listed
    BY EditWork, StoredRows DEF Listed
  <1>2. UNCHANGED <<account, full>>
    BY EditWork
  <1>3. \A g \in Game : /\ tracked'[g] # {} => g \in Listed
                        /\ job'[g].pc # "idle" => job'[g].game = g
    BY EditWork, ProcessAssumption DEF KnownInv, Job
  <1>4. \A j \in Job : job'[j].pc # "idle" => job'[j].game \in Listed
    <2>1. job'[e].pc # "idle" => job'[e].game \in Listed
      BY EditGoesOn DEF KnownInv, Job
    <2> QED BY <2>1, EditWork DEF KnownInv
  <1>5. \A f \in Edit : edit'[f].ids \subseteq Listed /\ edit'[f].left \subseteq edit'[f].ids
    BY EditWork, EditGoesOn DEF KnownInv
  <1> QED BY <1>1, <1>2, <1>3, <1>4, <1>5 DEF KnownInv

LEMMA EditHeld ==
    ASSUME TypeOK, SyncsLast, KnownInv, HeldInv, NEW e \in Edit,
           RequestEdit(e) \/ EditStep(e) \/ HangUpEdit(e) \/ Expire(e)
    PROVE  HeldInv'
  <1>1. e \in Job /\ \A f \in Edit : f \in Job
    BY DEF Job
  <1>2. ASSUME NEW f \in Edit, edit'[f].pc \in {"read", "drop"}, NEW g \in edit'[f].ids
        PROVE  lock'[g] = f
    <2>1. CASE f = e
      BY <1>2, <2>1, EditGoesOn
    <2>2. CASE f # e
      <3>1. edit'[f] = edit[f]
        BY <2>2, EditWork
      <3>2. g \in Game /\ lock[g] = f
        BY <1>2, <3>1 DEF HeldInv, KnownInv, Listed
      <3> QED BY <1>1, <2>2, <3>2, EditWork
    <2> QED BY <2>1, <2>2
  <1>3. ASSUME NEW j \in Job, j # e
        PROVE  IF Working(job'[j])
               THEN /\ lock'[job'[j].game] = j
                    /\ job'[j].todo \cup job'[j].keep
                         \subseteq Wants(job'[j].snap, games'[job'[j].game])
               ELSE job'[j].todo = {} /\ job'[j].keep = {}
    <2>1. job'[j] = job[j]
      BY <1>3, EditWork
    <2>2. CASE Working(job[j])
      <3>1. job[j].game \in Game /\ lock[job[j].game] = j
        BY <2>2 DEF Working, KnownInv, Listed, HeldInv
      <3>2. lock'[job[j].game] = j
        BY <1>3, <3>1, EditWork
      <3>3. games'[job[j].game] = games[job[j].game]
        <4>1. StoreEdit(e) => job[j].game \notin edit[e].ids
          BY <1>3, <3>1 DEF StoreEdit, HeldInv
        <4> QED BY <3>1, <4>1, EditWork, StoredRows
      <3> QED BY <2>1, <2>2, <3>2, <3>3 DEF HeldInv
    <2>3. CASE ~Working(job[j])
      BY <2>1, <2>3 DEF HeldInv
    <2> QED BY <2>2, <2>3
  <1>4. IF Working(job'[e])
        THEN /\ lock'[job'[e].game] = e
             /\ job'[e].todo \cup job'[e].keep
                  \subseteq Wants(job'[e].snap, games'[job'[e].game])
        ELSE job'[e].todo = {} /\ job'[e].keep = {}
    <2>1. CASE /\ job'[e].pc = job[e].pc /\ job'[e].game = job[e].game
               /\ job'[e].snap = job[e].snap
               /\ job'[e].todo = job[e].todo /\ job'[e].keep = job[e].keep
      <3>1. Working(job[e]) => UNCHANGED <<lock, games>>
        BY EditWork DEF Working
      <3> QED BY <1>1, <2>1, <3>1 DEF HeldInv, Working
    <2>2. CASE job'[e].pc = "plan" /\ job'[e].todo = {} /\ job'[e].keep = {}
      BY <2>2 DEF Working
    <2> QED BY <2>1, <2>2, EditGoesOn
  <1> QED BY <1>2, <1>3, <1>4 DEF HeldInv, Working

\* What a request would leave wanted of a game that it or another one is about.
LEMMA EditedWants ==
    ASSUME TypeOK, NEW e \in Edit, NEW g \in edit[e].ids, NEW s,
           edit[e].kind # "deselect" \/ ~SelectedOnly(s)
    PROVE  edit[e].kind = "select" \/ edit[e].kind = "deselect"
             => Wants(s, games[g]) \subseteq Wants(s, Edited(e)[g])
  <1>1. g \in Game /\ games[g] \in GameRow
    BY DEF TypeOK, EditRequest
  <1>. DEFINE R == Edited(e)[g]
  <1>2. CASE edit[e].kind = "select"
    <2>1. R = [games[g] EXCEPT !.selected = TRUE]
      BY <1>1, <1>2 DEF Edited
    <2> QED BY <1>1, <1>2, <2>1, WantsGrow
  <1>3. CASE edit[e].kind = "deselect"
    <2>1. R = [games[g] EXCEPT !.selected = FALSE]
      BY <1>1, <1>3 DEF Edited
    <2>2. R.extras = games[g].extras
      BY <1>1, <2>1 DEF GameRow
    <2>. HIDE DEF R
    <2>3. Wants(s, games[g]) \subseteq Wants(s, R)
      BY <1>3, <2>2 DEF Wants, WantsGame
    <2> QED BY <2>3 DEF R
  <1> QED BY <1>2, <1>3

\* The list a request goes by has every tracked file that it unwants.
LEMMA ListedFiles ==
    ASSUME TypeOK, NEW e \in Edit, NEW g \in edit[e].ids, Settled(g),
           NEW k \in tracked[g] \ Wants(stored, Edited(e)[g])
    PROVE  \E u \in ToDrop(e) : u.game = g /\ u.kind = k
  <1>1. g \in Game /\ k \in Kind
    BY DEF TypeOK, EditRequest
  <1>. DEFINE u == [game |-> g, kind |-> k, had |-> k \in copies[g]]
  <1>2. u \in ActiveFiles(edit[e].ids) /\ u.game = g /\ u.kind = k
    BY <1>1 DEF ActiveFiles, Dropped
  <1>3. k \notin Wants(stored, Edited(e)[u.game])
    BY <1>2
  <1>4. edit[e].kind # "select"
    BY EditedWants DEF Settled
  <1>5. edit[e].kind = "deselect" => SelectedOnly(stored)
    BY EditedWants DEF Settled
  <1>. HIDE DEF u
  <1>6. u \in Unwanted(edit[e].ids, stored, Edited(e))
    BY <1>2, <1>3 DEF Unwanted
  <1>7. u \in ToDrop(e)
    BY <1>2, <1>4, <1>5, <1>6 DEF ToDrop
  <1> QED BY <1>2, <1>7

LEMMA EditSettled ==
    ASSUME TypeOK, SyncsLast, KnownInv, HeldInv, SettledInv, NEW e \in Edit,
           RequestEdit(e) \/ EditStep(e) \/ HangUpEdit(e) \/ Expire(e)
    PROVE  SettledInv'
  <1>1. /\ UNCHANGED <<stored, trigger, full, change>>
        /\ edit \in [Edit -> EditRequest] /\ tracked \in [Game -> SUBSET Kind]
        /\ \A g \in Game : tracked'[g] \subseteq tracked[g]
        /\ \A g \in Game : job'[g] = job[g]
    BY EditWork, ProcessAssumption DEF TypeOK, Job
  <1>2. ASSUME NEW g \in Game, Revisited(g) PROVE Revisited(g)'
    BY <1>1, <1>2 DEF Revisited, Replaced, UnderWay, NeedsSync
  <1>3. ASSUME NEW g \in Game, ~Revisited(g) PROVE Settled(g)'
    <2>1. CASE games'[g] = games[g]
      BY <1>1, <1>3, <2>1 DEF SettledInv, Settled
    <2>2. CASE StoreEdit(e) /\ g \in edit[e].ids
      <3>1. tracked[g] \subseteq Wants(stored, Edited(e)[g])
        BY <1>3, <2>2 DEF SettledInv, StoreEdit
      <3>2. games'[g] = Edited(e)[g]
        BY <2>2 DEF StoreEdit
      <3> QED BY <1>1, <3>1, <3>2 DEF Settled
    <2> QED BY <2>1, <2>2, EditWork, StoredRows
  <1>4. ASSUME NEW f \in Edit \ {e}, edit'[f].pc = "drop", NEW g \in edit'[f].ids,
               ~Revisited(g)
        PROVE  \A k \in tracked'[g] \ Wants(stored', Edited(f)'[g]) :
                  \E u \in edit'[f].list : u.game = g /\ u.kind = k
    <2>1. edit'[f] = edit[f] /\ g \in Game /\ lock[g] = f
      BY <1>1, <1>4, EditWork DEF EditRequest, HeldInv
    <2>2. StoreEdit(e) => g \notin edit[e].ids
      BY <1>4, <2>1 DEF StoreEdit, HeldInv
    <2>3. games'[g] = games[g]
      BY <2>1, <2>2, EditWork, StoredRows
    <2>4. Edited(f)'[g] = Edited(f)[g]
      BY <2>1, <2>3 DEF Edited
    <2> QED BY <1>1, <1>4, <2>1, <2>4 DEF SettledInv
  <1>5. ASSUME edit'[e].pc = "drop", NEW g \in edit'[e].ids, ~Revisited(g)
        PROVE  \A k \in tracked'[g] \ Wants(stored', Edited(e)'[g]) :
                  \E u \in edit'[e].list : u.game = g /\ u.kind = k
    <2>1. CASE Expire(e)
      <3>1. UNCHANGED <<edit, games, tracked>>
        BY <2>1 DEF Expire, library, requests
      <3>2. Edited(e)' = Edited(e)
        BY <3>1 DEF Edited
      <3> QED BY <1>1, <1>5, <3>1, <3>2 DEF SettledInv
    <2>2. CASE ListFiles(e)
      <3>1. /\ edit' = [edit EXCEPT ![e].pc = "drop", ![e].list = ToDrop(e)]
            /\ UNCHANGED <<games, tracked>>
        BY <1>1, <1>5, <2>2 DEF ListFiles, EndEdit, NewEdit, library
      <3>2. /\ edit'[e].ids = edit[e].ids /\ edit'[e].kind = edit[e].kind
            /\ edit'[e].list = ToDrop(e)
        BY <1>1, <3>1 DEF EditRequest
      <3>3. Edited(e)' = Edited(e)
        BY <3>1, <3>2 DEF Edited
      <3>4. g \in edit[e].ids /\ g \in Game
        BY <1>1, <1>5, <3>2 DEF EditRequest
      <3>5. Settled(g)
        BY <1>5, <3>4 DEF SettledInv
      <3> QED BY <1>1, <3>1, <3>2, <3>3, <3>4, <3>5, ListedFiles
    <2>3. CASE DropForEdit(e)
      <3>1. PICK u \in edit[e].list :
              /\ DropFile(u, edit[e].answer)
              /\ edit' = [edit EXCEPT ![e].list = @ \ {u}]
        BY <2>3 DEF DropForEdit
      <3>2. /\ edit'[e].ids = edit[e].ids /\ edit'[e].kind = edit[e].kind
            /\ edit'[e].list = edit[e].list \ {u} /\ u \in Dropped
            /\ edit[e].pc = "drop" /\ UNCHANGED games
        BY <1>1, <2>3, <3>1 DEF EditRequest, DropForEdit
      <3>3. Edited(e)' = Edited(e)
        BY <3>2 DEF Edited
      <3>4. g \in Game /\ g \in edit[e].ids
        BY <1>1, <1>5, <3>2 DEF EditRequest
      <3>5. u.kind \notin tracked'[u.game]
        BY <3>1, <3>2, DropShrinks
      <3>6. ASSUME NEW k \in tracked'[g] \ Wants(stored', Edited(e)'[g])
            PROVE  \E v \in edit'[e].list : v.game = g /\ v.kind = k
        <4>1. k \in tracked[g] \ Wants(stored, Edited(e)[g])
          BY <1>1, <3>3, <3>4, <3>6
        <4>2. PICK v \in edit[e].list : v.game = g /\ v.kind = k
          BY <1>5, <3>2, <3>4, <4>1 DEF SettledInv
        <4>3. v # u
          BY <3>5, <3>6, <4>2
        <4> QED BY <3>2, <4>2, <4>3
      <3> QED BY <3>6
    <2>4. CASE RequestEdit(e)
      <3>1. PICK kind \in EditKinds, ids \in IdSets, a \in Answers :
            edit' = [edit EXCEPT ![e] =
                 [NewEdit EXCEPT !.pc = IF kind = "sync" THEN "sync" ELSE "locks",
                                 !.kind = kind, !.ids = ids, !.answer = a,
                                 !.before = games[Only(ids)],
                                 !.left = IF kind = "sync" THEN ids ELSE {}]]
        BY <2>4 DEF RequestEdit
      <3>2. edit'[e].pc # "drop"
        BY <1>1, <3>1 DEF NewEdit
      <3> QED BY <1>5, <3>2
    <2>5. CASE LockGame(e)
      <3>1. edit'[e].pc # "drop"
        BY <1>1, <2>5 DEF LockGame, EditRequest
      <3> QED BY <1>5, <3>1
    <2>6. CASE StoreEdit(e) \/ Reply(e) \/ SyncNext(e)
      <3>1. edit'[e].pc # "drop"
        BY <1>1, <2>6 DEF StoreEdit, Reply, SyncNext, EditRequest
      <3> QED BY <1>5, <3>1
    <2>7. CASE SyncedAll(e) \/ HangUpEdit(e)
      <3>1. edit'[e].pc # "drop"
        BY <1>1, <2>7 DEF SyncedAll, HangUpEdit, EndEdit, NewEdit
      <3> QED BY <1>5, <3>1
    <2> QED BY <2>1, <2>2, <2>3, <2>4, <2>5, <2>6, <2>7 DEF EditStep
  <1>6. \A g \in Game : Settled(g)' \/ Revisited(g)'
    BY <1>2, <1>3
  <1>7. ASSUME NEW f \in Edit, edit'[f].pc = "drop", NEW g \in edit'[f].ids
        PROVE  \/ Revisited(g)'
               \/ \A k \in tracked'[g] \ Wants(stored', Edited(f)'[g]) :
                     \E u \in edit'[f].list : u.game = g /\ u.kind = k
    <2>1. g \in Game
      BY <1>7, EditTypes DEF TypeOK, EditRequest
    <2> QED BY <1>2, <1>4, <1>5, <1>7, <2>1
  <1> QED BY <1>6, <1>7 DEF SettledInv

-----------------------------------------------------------------------------
(* And so does the rest.                                                   *)

LEMMA RestWanted ==
    ASSUME PlanInv, TypeOK, KnownInv, HeldInv, ChangesInv, SettledInv,
           \/ \E p \in Pauser : ReadPaused(p) \/ WritePaused(p) \/ ConfigurePaused(p)
           \/ \E g \in Game : Buy(g)
           \/ \E g \in Game, k \in Kind : Download(g, k)
           \/ UNCHANGED vars
    PROVE  KnownInv' /\ HeldInv' /\ ChangesInv' /\ SettledInv'
  <1>1. /\ UNCHANGED <<games, tracked, trigger, lock, full, job, change, edit>>
        /\ account \subseteq account'
    BY DEF ReadPaused, WritePaused, ConfigurePaused, Buy, Download, vars, library, requests
  <1>2. SamePlan(stored', stored)
    BY SamePlanAlways DEF ReadPaused, WritePaused, ConfigurePaused, Buy, Download, vars,
       library, PlanInv
  <1>3. Listed' = Listed
    BY <1>1 DEF Listed
  <1>4. KnownInv'
    BY <1>1, <1>3 DEF KnownInv
  <1>5. HeldInv'
    BY <1>1 DEF HeldInv
  <1>6. ChangesInv'
    BY <1>1, <1>2, SamePlanAlways DEF ChangesInv
  <1>7. SettledInv'
    <2>1. \A gm : Wants(stored', gm) = Wants(stored, gm)
      BY <1>2, PlanWants
    <2>2. \A g \in Game : Revisited(g)' <=> Revisited(g)
      BY <1>1 DEF Revisited, Replaced, UnderWay, NeedsSync
    <2>3. \A e \in Edit : Edited(e)' = Edited(e)
      BY <1>1 DEF Edited
    <2>4. \A g \in Game : Settled(g)' \/ Revisited(g)'
      BY <1>1, <2>1, <2>2 DEF SettledInv, Settled
    <2>5. ASSUME NEW e \in Edit, edit'[e].pc = "drop", NEW g \in edit'[e].ids
          PROVE  \/ Revisited(g)'
                 \/ \A k \in tracked'[g] \ Wants(stored', Edited(e)'[g]) :
                       \E u \in edit'[e].list : u.game = g /\ u.kind = k
      <3>1. g \in Game
        BY <1>1, <2>5 DEF TypeOK, EditRequest
      <3> QED BY <1>1, <2>1, <2>2, <2>3, <2>5, <3>1 DEF SettledInv
    <2> QED BY <2>4, <2>5 DEF SettledInv
  <1> QED BY <1>4, <1>5, <1>6, <1>7

WantedInv == KnownInv /\ HeldInv /\ ChangesInv /\ SettledInv

LEMMA InitWanted == Init => WantedInv
  <1>. SUFFICES ASSUME Init PROVE WantedInv
    OBVIOUS
  <1>1. KnownInv
    BY DEF Init, KnownInv, Listed, NoGameRow, NoFull, NoJob, NewEdit, Job
  <1>2. HeldInv
    BY DEF Init, HeldInv, Working, NoJob, NewEdit, Job
  <1>3. ChangesInv
    BY DEF Init, ChangesInv, NewChange
  <1>4. SettledInv
    BY DEF Init, SettledInv, Settled, NewEdit
  <1> QED BY <1>1, <1>2, <1>3, <1>4 DEF WantedInv

LEMMA WantedKept ==
    ASSUME OneAuthor, Unfailing
    PROVE  ExclusionInv /\ LockInv /\ PlanInv /\ WantedInv /\ [Next]_vars => WantedInv'
  <1>. SUFFICES ASSUME ExclusionInv, LockInv, PlanInv, WantedInv, [Next]_vars
                PROVE  WantedInv'
    OBVIOUS
  <1>1. /\ TypeOK /\ SyncsLast /\ PlansAreCurrent /\ KnownInv /\ HeldInv /\ ChangesInv
        /\ SettledInv
    BY DEF LockInv, PlanInv, WantedInv
  <1>2. CASE TriggeredSync \/ DueSync \/ FullStep \/ Relogin
    <2>1. ChangesInv'
      BY <1>1, <1>2, FullWork, SameChanges
    <2> QED BY <1>1, <1>2, <2>1, FullKnown, FullHeld, FullSettled DEF WantedInv
  <1>3. ASSUME NEW j \in Job, JobStep(j) PROVE WantedInv'
    <2>1. ChangesInv'
      BY <1>1, <1>3, JobWork, SameChanges
    <2> QED BY <1>1, <1>3, <2>1, JobKnown, JobHeld, JobSettled DEF WantedInv
  <1>4. ASSUME NEW c \in Change, PutSettings(c) \/ ChangeStep(c) \/ HangUp(c)
        PROVE  WantedInv'
    BY <1>1, <1>4, ChangeKnown, ChangeHeld, ChangeChanges, ChangeSettled DEF WantedInv
  <1>5. ASSUME NEW e \in Edit, RequestEdit(e) \/ EditStep(e) \/ HangUpEdit(e) \/ Expire(e)
        PROVE  WantedInv'
    <2>1. ChangesInv'
      BY <1>1, <1>5, EditWork DEF ChangesInv, NeedsSync
    <2> QED BY <1>1, <1>5, <2>1, EditKnown, EditHeld, EditSettled DEF WantedInv
  <1>6. CASE \/ \E p \in Pauser : ReadPaused(p) \/ WritePaused(p) \/ ConfigurePaused(p)
             \/ \E g \in Game : Buy(g)
             \/ \E g \in Game, k \in Kind : Download(g, k)
             \/ UNCHANGED vars
    BY <1>1, <1>6, RestWanted DEF WantedInv
  <1> QED BY <1>2, <1>3, <1>4, <1>5, <1>6 DEF Next

\* When everything is through, no sync is under way and none is asked for.
LEMMA AtRestWanted == WantedInv => TrackedIsWanted
  <1>. SUFFICES ASSUME WantedInv, AtRest, NEW g \in Game
                PROVE  tracked[g] \subseteq Wants(stored, games[g])
    BY DEF TrackedIsWanted
  <1>1. ~Revisited(g)
    BY DEF AtRest, Revisited, UnderWay
  <1> QED BY <1>1 DEF WantedInv, SettledInv, Settled

\* Whatever changes of settings, requests on games, logins and purchases come and in
\* whatever order they read, cancel and write: once all of it is through, nothing is
\* tracked that is not wanted.  What a request unwants it drops before it lets the
\* games' locks go; what a change unwants is dropped by the change, or by the full
\* sync it asks for.
THEOREM UnwantedIsDropped ==
    ASSUME OneAuthor, Unfailing
    PROVE  Spec => []TrackedIsWanted
  <1>1. Spec => []PlanInv
    BY InitPlan, PlanKept, ExclusionHolds, PTL DEF Spec
  <1>2. Spec => []WantedInv
    BY InitWanted, WantedKept, ExclusionHolds, LocksHold, <1>1, PTL DEF Spec
  <1> QED BY <1>2, AtRestWanted, PTL

-----------------------------------------------------------------------------
(* Everything that is wanted gets tracked.                                 *)

\* Requests and their syncs come to their own ends.
Patient == Ops \cap {"fail", "hangup", "expire"} = {}

\* A change says what is to become of downloaded files.
Answered == Change = {} \/ "none" \notin Answers

\* An opt-in goes by the game as it was when the request came in: nobody else
\* selects games, or takes opt-ins back.
ReadOnce ==
    "optin" \in EditKinds =>
        /\ \A s \in NewSettings \cup {FirstSettings} : ~SelectsNewGames(s)
        /\ (\A e, f \in Edit : e = f) \/ EditKinds \cap {"select", "optout"} = {}

\* A change is on its way that will ask for a full sync.
Promised == \E c \in Change : change[c].pc \notin {"new", "done"} /\ NeedsSync(c)

\* A full sync will load game g.
Later(g) ==
    \/ trigger \/ Promised
    \/ /\ ~full.cancelled
       /\ \/ full.pc \in {"plan", "list", "rows", "select"}
          \/ full.pc = "details" /\ (g \in full.todo \/ job[g].pc = "lock")

\* Some sync will plan it, or is just doing so.
Coming(g) ==
    \/ Later(g)
    \/ \E j \in Job : job[j].pc # "idle" /\ job[j].game = g /\ ~Cancelled(j)
    \/ \E e \in Edit : /\ g \in edit[e].ids
                       /\ \/ edit[e].pc = "sync" /\ g \in edit[e].left
                          \/ edit[e].pc = "after" /\ SyncsAfter(e)

\* A change that stops syncs will ask for one, and only such a change drops files.
StoppersInv ==
    \A c \in Change :
        /\ change[c].pc \in {"sem", "full", "games", "again"} => NeedsSync(c)
        /\ ~NeedsSync(c) \/ change[c].pc = "new" => change[c].list = {}
        /\ change[c].pc # "new" => change[c].answer \in Answers

\* A full sync that was cancelled will be followed by another.
FollowedInv == full.cancelled => trigger \/ Promised

\* Who works on a game has planned everything that is wanted of it, and leaves
\* tracked what it has tracked.
PlannedInv ==
    \A j \in Job, g \in Game : Working(job[j]) /\ job[j].game = g =>
        /\ job[j].pc = "others" => job[j].todo = {}
        /\ \/ Later(g)
           \/ /\ Wants(stored, games[g]) \subseteq job[j].todo \cup job[j].keep
              /\ job[j].keep \subseteq tracked[g]

\* While there are opt-ins, no game is selected but by its request.
ModeInv ==
    "optin" \in EditKinds =>
        /\ ~SelectsNewGames(stored) /\ ~SelectsNewGames(full.snap)
        /\ ~full.selectNew /\ full.pc # "select"
        /\ \A c \in Change : ~SelectsNewGames(change[c].new)
        /\ \A p \in Pauser : ~SelectsNewGames(pauser[p].new)

\* The game is still as wanted, and as opted in, as the request has read it.
BeforeInv ==
    \A e \in Edit : edit[e].kind = "optin" /\ edit[e].pc \in {"locks", "read", "drop"} =>
        \A g \in edit[e].ids :
            /\ edit[e].before.extras => games[g].extras
            /\ games[g].selected => edit[e].before.selected

\* A request drops nothing that is wanted before and after it stores the game.
DropInv ==
    \A e \in Edit : edit[e].pc = "drop" =>
        /\ \A u \in edit[e].list : u.game \in edit[e].ids
        /\ \A g \in edit[e].ids :
            \/ Coming(g)
            \/ /\ Wants(stored, games[g]) \cap Wants(stored, Edited(e)[g]) \subseteq tracked[g]
               /\ \A u \in edit[e].list : u.game = g => u.kind \notin Wants(stored, Edited(e)[g])

\* What is wanted of a listed game is tracked, unless a sync is to come, or the
\* game is in the hands of a request that drops files.
MissingInv ==
    \A g \in Listed :
        \/ Wants(stored, games[g]) \subseteq tracked[g]
        \/ Coming(g)
        \/ \E e \in Edit : edit[e].pc = "drop" /\ g \in edit[e].ids

ComeInv == /\ StoppersInv /\ FollowedInv /\ PlannedInv /\ ModeInv /\ BeforeInv
           /\ DropInv /\ MissingInv

-----------------------------------------------------------------------------
(* The full sync keeps it.                                                 *)

LEMMA PromisedStill ==
    ASSUME \A c \in Change : SameChange(c) PROVE Promised' <=> Promised
  BY DEF Promised, SameChange, NeedsSync

LEMMA FullLater ==
    ASSUME Patient, TypeOK, KnownInv, FollowedInv,
           TriggeredSync \/ DueSync \/ FullStep \/ Relogin, NEW g \in Listed, Later(g)
    PROVE  Later(g)'
  <1>1. full \in FullSync /\ job \in [Job -> GameSync] /\ g \in Game /\ g \in Job
        /\ g \in account
    BY DEF TypeOK, Listed, Job, KnownInv
  <1>2. Promised' <=> Promised
    BY FullWork, PromisedStill
  <1>3. CASE TriggeredSync
    BY <1>3 DEF TriggeredSync, StartFull, NoFull, Later
  <1>4. CASE DueSync
    BY <1>4 DEF DueSync, StartFull, NoFull, Later
  <1>5. CASE PlanFull \/ ListGames \/ SelectGame
    BY <1>1, <1>5 DEF PlanFull, ListGames, SelectGame, FullSync, Later
  <1>6. CASE RowsDone
    BY <1>1, <1>6 DEF RowsDone, FullSync, Later
  <1>7. CASE FinishFull
    BY <1>1, <1>2, <1>7 DEF FinishFull, Later, JobsDone, FollowedInv
  <1>8. CASE AbandonFull
    BY <1>2, <1>8 DEF AbandonFull, Later, Patient, FollowedInv
  <1>9. CASE Relogin
    BY <1>9 DEF Relogin, Later
  <1>10. ASSUME NEW h \in Game, UpsertGame(h) PROVE Later(g)'
    BY <1>1, <1>10 DEF UpsertGame, FullSync, Later
  <1>11. ASSUME NEW h \in Game, StartJob(h) PROVE Later(g)'
    <2>1. /\ full.pc = "details" /\ ~full.cancelled /\ UNCHANGED trigger
          /\ full' = [full EXCEPT !.todo = @ \ {h}]
          /\ job' = [job EXCEPT ![h] = [NoJob EXCEPT !.pc = "lock", !.snap = full.snap,
                                                     !.game = h]]
      BY <1>11 DEF StartJob
    <2>2. full'.pc = "details" /\ ~full'.cancelled /\ full'.todo = full.todo \ {h}
      BY <1>1, <2>1 DEF FullSync
    <2>3. CASE g = h
      <3>1. job'[g] = [NoJob EXCEPT !.pc = "lock", !.snap = full.snap, !.game = h]
        BY <1>1, <2>1, <2>3
      <3>2. job'[g].pc = "lock"
        BY <3>1 DEF NoJob
      <3> QED BY <2>2, <3>2 DEF Later
    <2>4. CASE g # h
      <3>1. job'[g] = job[g]
        BY <1>1, <2>1, <2>4
      <3> QED BY <1>2, <2>1, <2>2, <2>4, <3>1 DEF Later
    <2> QED BY <2>3, <2>4
  <1> QED BY <1>3, <1>4, <1>5, <1>6, <1>7, <1>8, <1>9, <1>10, <1>11 DEF FullStep

\* A full sync is cancelled by a logout, after which there is another login, and
\* does not end before its jobs.
LEMMA FullCancelled ==
    ASSUME Patient, TypeOK, FollowedInv, TriggeredSync \/ DueSync \/ FullStep \/ Relogin
    PROVE  /\ full'.cancelled => trigger' \/ Promised'
           /\ \A g \in Game : job[g].pc # "idle" /\ ~full.cancelled /\ full.pc = "details"
                => job'[g].pc # "idle" /\ (~full'.cancelled \/ trigger')
  <1>1. full \in FullSync /\ job \in [Job -> GameSync] /\ \A g \in Game : g \in Job
    BY DEF TypeOK, Job
  <1>2. Promised' <=> Promised
    BY FullWork, PromisedStill
  <1>3. CASE TriggeredSync \/ DueSync
    BY <1>3 DEF TriggeredSync, DueSync, StartFull, NoFull
  <1>4. CASE PlanFull \/ ListGames \/ SelectGame \/ RowsDone
    BY <1>1, <1>4 DEF PlanFull, ListGames, SelectGame, RowsDone, FullSync
  <1>5. CASE FinishFull \/ AbandonFull
    BY <1>5 DEF FinishFull, AbandonFull, EndFull, NoFull, JobsDone, Patient
  <1>6. CASE Relogin
    BY <1>6 DEF Relogin
  <1>7. ASSUME NEW h \in Game, UpsertGame(h)
        PROVE  ~full'.cancelled /\ full.pc # "details"
    BY <1>1, <1>7 DEF UpsertGame, FullSync
  <1>8. ASSUME NEW h \in Game, StartJob(h)
        PROVE  /\ ~full'.cancelled
               /\ \A g \in Game : job[g].pc # "idle" => job'[g].pc # "idle"
    <2>1. ~full.cancelled /\ full' = [full EXCEPT !.todo = @ \ {h}]
          /\ job' = [job EXCEPT ![h] = [NoJob EXCEPT !.pc = "lock", !.snap = full.snap,
                                                     !.game = h]]
      BY <1>8 DEF StartJob
    <2>2. [NoJob EXCEPT !.pc = "lock", !.snap = full.snap, !.game = h].pc = "lock"
      BY DEF NoJob
    <2> QED BY <1>1, <2>1, <2>2 DEF FullSync
  <1> QED BY <1>3, <1>4, <1>5, <1>6, <1>7, <1>8 DEF FullStep

LEMMA FullComing ==
    ASSUME Patient, TypeOK, KnownInv, WorkersBelongToFull, FollowedInv,
           TriggeredSync \/ DueSync \/ FullStep \/ Relogin, NEW g \in Listed, Coming(g)
    PROVE  Coming(g)'
  <1>1. /\ UNCHANGED <<stored, edit>>
        /\ \A j \in Job : \/ job'[j] = job[j]
                          \/ j \in full.todo /\ job'[j].pc = "lock" /\ job'[j].game = j
        /\ full.todo \subseteq Game
    BY FullWork DEF TypeOK, FullSync
  <1>2. CASE Later(g)
    BY <1>2, FullLater DEF Coming
  <1>3. ASSUME NEW j \in Job, job[j].pc # "idle", job[j].game = g, ~Cancelled(j)
        PROVE  Coming(g)'
    <2>1. CASE j \in Edit
      <3>1. job'[j] = job[j]
        BY <1>1, <2>1, ProcessAssumption
      <3> QED BY <1>3, <2>1, <3>1 DEF Coming, Cancelled
    <2>2. CASE j \notin Edit
      <3>1. j \in Game /\ ~full.cancelled /\ full.pc = "details"
        BY <1>3, <2>2 DEF Job, Cancelled, WorkersBelongToFull
      <3>2. job'[j].pc # "idle" /\ (~full'.cancelled \/ trigger')
        BY <1>3, <3>1, FullCancelled
      <3>3. job'[j].game = g
        BY <1>1, <1>3, <3>1 DEF KnownInv
      <3> QED BY <2>2, <3>2, <3>3 DEF Coming, Cancelled, Later
    <2> QED BY <2>1, <2>2
  <1>4. CASE \E e \in Edit : /\ g \in edit[e].ids
                             /\ \/ edit[e].pc = "sync" /\ g \in edit[e].left
                                \/ edit[e].pc = "after" /\ SyncsAfter(e)
    BY <1>1, <1>4 DEF Coming, SyncsAfter
  <1> QED BY <1>2, <1>3, <1>4 DEF Coming

\* What it writes of a game it does while it is on its way to it.
LEMMA FullLists ==
    ASSUME TypeOK, TriggeredSync \/ DueSync \/ FullStep \/ Relogin, NEW g \in Game
    PROVE  games'[g] = games[g] \/ Later(g)'
  <1>1. games \in [Game -> GameRow] /\ full \in FullSync
    BY DEF TypeOK
  <1>2. ASSUME NEW h, UpsertGame(h) PROVE Later(g)'
    BY <1>1, <1>2 DEF UpsertGame, FullSync, Later
  <1>3. CASE SelectGame
    BY <1>1, <1>3 DEF SelectGame, FullSync, Later
  <1>4. CASE UNCHANGED games
    BY <1>4
  <1> QED BY <1>2, <1>3, <1>4 DEF TriggeredSync, DueSync, StartFull, FullStep, PlanFull,
       ListGames, RowsDone, FinishFull, AbandonFull, StartJob, Relogin, library

LEMMA FullMode ==
    ASSUME TypeOK, ModeInv, TriggeredSync \/ DueSync \/ FullStep \/ Relogin,
           "optin" \in EditKinds, ~SelectsNewGames(FirstSettings)
    PROVE  /\ ~SelectsNewGames(full'.snap) /\ ~full'.selectNew /\ full'.pc # "select"
           /\ UNCHANGED games \/ \E g \in Game : games' = [games EXCEPT ![g].listed = TRUE]
  <1>1. /\ full \in FullSync /\ ~SelectsNewGames(stored) /\ ~SelectsNewGames(full.snap)
        /\ ~full.selectNew /\ full.pc # "select"
    BY DEF ModeInv, TypeOK
  <1>2. CASE TriggeredSync \/ DueSync \/ FinishFull \/ AbandonFull
    BY <1>2 DEF TriggeredSync, DueSync, StartFull, FinishFull, AbandonFull, EndFull, NoFull,
       library
  <1>3. CASE PlanFull \/ ListGames \/ RowsDone \/ Relogin
    BY <1>1, <1>3 DEF PlanFull, ListGames, RowsDone, Relogin, SelectNew, FullSync, library
  <1>4. ASSUME NEW g \in Game, UpsertGame(g) \/ StartJob(g)
        PROVE  /\ ~SelectsNewGames(full'.snap) /\ ~full'.selectNew /\ full'.pc # "select"
               /\ UNCHANGED games \/ games' = [games EXCEPT ![g].listed = TRUE]
    BY <1>1, <1>4 DEF UpsertGame, StartJob, FullSync, library
  <1> QED BY <1>1, <1>2, <1>3, <1>4 DEF FullStep, SelectGame

LEMMA FullCome ==
    ASSUME Patient, ReadOnce, TypeOK, AskedInv, KnownInv, WorkersBelongToFull, ComeInv,
           TriggeredSync \/ DueSync \/ FullStep \/ Relogin
    PROVE  ComeInv'
  <1>1. /\ UNCHANGED <<stored, tracked, edit, pauser>>
        /\ \A c \in Change : SameChange(c)
        /\ edit \in [Edit -> EditRequest] /\ games \in [Game -> GameRow]
    BY FullWork DEF TypeOK
  <1>2. FollowedInv /\ \A e \in Edit : edit[e].ids \subseteq Listed
    BY DEF ComeInv, KnownInv
  <1>3. StoppersInv'
    BY <1>1 DEF ComeInv, StoppersInv, SameChange, NeedsSync
  <1>4. FollowedInv'
    BY <1>2, FullCancelled DEF FollowedInv
  <1>5. PlannedInv'
    <2>. SUFFICES ASSUME NEW j \in Job, NEW g \in Game, Working(job'[j]), job'[j].game = g
                  PROVE  /\ job'[j].pc = "others" => job'[j].todo = {}
                         /\ \/ Later(g)'
                            \/ /\ Wants(stored', games'[g]) \subseteq job'[j].todo \cup job'[j].keep
                               /\ job'[j].keep \subseteq tracked'[g]
      BY DEF PlannedInv, Working
    <2>1. job'[j] = job[j]
      BY FullWork DEF Working
    <2>2. job[j].game = g /\ g \in Listed
      BY <2>1 DEF Working, KnownInv
    <2>3. Later(g) => Later(g)'
      BY <1>2, <2>2, FullLater
    <2>4. games'[g] = games[g] \/ Later(g)'
      BY <2>2, FullLists
    <2>5. /\ job[j].pc = "others" => job[j].todo = {}
          /\ \/ Later(g)
             \/ /\ Wants(stored, games[g]) \subseteq job[j].todo \cup job[j].keep
                /\ job[j].keep \subseteq tracked[g]
      BY <2>1, <2>2 DEF ComeInv, PlannedInv, Working
    <2> QED BY <1>1, <2>1, <2>3, <2>4, <2>5
  <1>6. ModeInv'
    <2>1. CASE "optin" \notin EditKinds
      BY <2>1 DEF ModeInv
    <2>2. CASE "optin" \in EditKinds
      <3>1. ~SelectsNewGames(FirstSettings)
        BY <2>2 DEF ReadOnce
      <3> QED BY <1>1, <2>2, <3>1, FullMode DEF ComeInv, ModeInv, SameChange
    <2> QED BY <2>1, <2>2
  <1>7. BeforeInv'
    <2>. SUFFICES ASSUME NEW e \in Edit, edit[e].kind = "optin",
                         edit[e].pc \in {"locks", "read", "drop"}, NEW g \in edit[e].ids
                  PROVE  /\ edit[e].before.extras => games'[g].extras
                         /\ games'[g].selected => edit[e].before.selected
      BY <1>1 DEF BeforeInv
    <2>1. "optin" \in EditKinds /\ g \in Game
      BY <1>1 DEF AskedInv, EditRequest
    <2>2. games'[g].extras = games[g].extras /\ games'[g].selected = games[g].selected
      <3>1. ~SelectsNewGames(FirstSettings) /\ ModeInv
        BY <2>1 DEF ReadOnce, ComeInv
      <3> QED BY <1>1, <2>1, <3>1, FullMode DEF GameRow
    <2> QED BY <2>2 DEF ComeInv, BeforeInv
  <1>8. DropInv'
    <2>. SUFFICES ASSUME NEW e \in Edit, edit[e].pc = "drop"
                  PROVE  /\ \A u \in edit[e].list : u.game \in edit[e].ids
                         /\ \A g \in edit[e].ids :
                              \/ Coming(g)'
                              \/ /\ Wants(stored, games'[g]) \cap Wants(stored, Edited(e)'[g])
                                      \subseteq tracked[g]
                                 /\ \A u \in edit[e].list :
                                      u.game = g => u.kind \notin Wants(stored, Edited(e)'[g])
      BY <1>1 DEF DropInv
    <2>1. \A u \in edit[e].list : u.game \in edit[e].ids
      BY DEF ComeInv, DropInv
    <2>2. ASSUME NEW g \in edit[e].ids, ~Coming(g)'
          PROVE  /\ Wants(stored, games'[g]) \cap Wants(stored, Edited(e)'[g]) \subseteq tracked[g]
                 /\ \A u \in edit[e].list :
                      u.game = g => u.kind \notin Wants(stored, Edited(e)'[g])
      <3>1. g \in Listed /\ g \in Game
        BY <1>2 DEF Listed
      <3>2. ~Coming(g)
        BY <1>2, <2>2, <3>1, FullComing
      <3>3. games'[g] = games[g]
        BY <2>2, <3>1, FullLists DEF Coming
      <3>4. Edited(e)'[g] = Edited(e)[g]
        BY <1>1, <3>1, <3>3 DEF Edited
      <3> QED BY <3>2, <3>3, <3>4 DEF ComeInv, DropInv
    <2> QED BY <2>1, <2>2
  <1>9. MissingInv'
    <2>. SUFFICES ASSUME NEW g \in Listed', ~Coming(g)'
                  PROVE  \/ Wants(stored, games'[g]) \subseteq tracked[g]
                         \/ \E e \in Edit : edit[e].pc = "drop" /\ g \in edit[e].ids
      BY <1>1 DEF MissingInv
    <2>1. g \in Game
      BY DEF Listed
    <2>2. games'[g] = games[g]
      BY <2>1, FullLists DEF Coming
    <2>3. g \in Listed
      BY <2>1, <2>2 DEF Listed
    <2>4. ~Coming(g)
      BY <1>2, <2>3, FullComing
    <2> QED BY <2>2, <2>3, <2>4 DEF ComeInv, MissingInv
  <1> QED BY <1>3, <1>4, <1>5, <1>6, <1>7, <1>8, <1>9 DEF ComeInv

-----------------------------------------------------------------------------
(* So do the syncs of single games.                                        *)

\* A sync goes on with its game until it drops the others, or is cancelled.
LEMMA JobGoesOn ==
    ASSUME TypeOK, NEW j \in Job, JobStep(j)
    PROVE  /\ \/ DropOthers(j) /\ job[j].pc = "others"
              \/ AbandonJob(j) /\ (Cancelled(j) \/ "fail" \in Ops) /\ job[j].pc # "lock"
              \/ /\ job'[j].pc # "idle" /\ job'[j].game = job[j].game
                 /\ job'[j].cancelled = job[j].cancelled
                 /\ job[j].pc = "lock" => LoadGame(j)
           /\ (job[j].pc = "others" => job[j].todo = {})
                => (job'[j].pc = "others" => job'[j].todo = {})
  <1>1. job \in [Job -> GameSync] /\ job[j] \in GameSync
    BY DEF TypeOK
  <1>2. CASE PlanJob(j) \/ OwnedIDs(j) \/ FetchDetails(j)
    <2>1. PICK pc \in {"owned", "lock", "upsert"} : job'[j].pc = pc
      BY <1>1, <1>2 DEF PlanJob, OwnedIDs, FetchDetails, GameSync
    <2>2. job'[j].game = job[j].game /\ job'[j].cancelled = job[j].cancelled
      BY <1>1, <1>2 DEF PlanJob, OwnedIDs, FetchDetails, GameSync
    <2>3. job[j].pc # "lock"
      BY <1>2 DEF PlanJob, OwnedIDs, FetchDetails
    <2> QED BY <2>1, <2>2, <2>3
  <1>3. CASE LoadGame(j)
    <2>. DEFINE kinds == Wants(job[j].snap, games[job[j].game])
    <2>1. job'[j] = [job[j] EXCEPT !.todo = kinds,
                                   !.pc = IF kinds = {} THEN "others" ELSE "fetch"]
      BY <1>1, <1>3 DEF LoadGame
    <2>. HIDE DEF kinds
    <2>2. /\ job'[j].pc = IF kinds = {} THEN "others" ELSE "fetch"
          /\ job'[j].todo = kinds /\ job'[j].game = job[j].game
          /\ job'[j].cancelled = job[j].cancelled
      BY <1>1, <2>1 DEF GameSync
    <2> QED BY <1>3, <2>2
  <1>4. CASE UpsertFile(j)
    <2>1. job[j].pc = "upsert"
          /\ \E k \in job[j].todo :
               job' = [job EXCEPT ![j].todo = @ \ {k}, ![j].keep = @ \cup {k},
                                  ![j].pc = IF job[j].todo = {k} THEN "others" ELSE @]
      BY <1>4 DEF UpsertFile
    <2>2. PICK k \in job[j].todo :
            job'[j] = [job[j] EXCEPT !.todo = @ \ {k}, !.keep = @ \cup {k},
                                     !.pc = IF job[j].todo = {k} THEN "others" ELSE @]
      BY <1>1, <2>1
    <2>3. /\ job'[j].pc = IF job[j].todo = {k} THEN "others" ELSE "upsert"
          /\ job'[j].todo = job[j].todo \ {k} /\ job'[j].game = job[j].game
          /\ job'[j].cancelled = job[j].cancelled
      BY <1>1, <2>1, <2>2 DEF GameSync
    <2> QED BY <2>1, <2>3
  <1>5. CASE DropOthers(j) \/ AbandonJob(j)
    <2>1. job'[j] = NoJob
      BY <1>1, <1>5 DEF DropOthers, AbandonJob, EndJob
    <2>2. job'[j].pc = "idle"
      BY <2>1 DEF NoJob
    <2> QED BY <1>5, <2>2 DEF DropOthers, AbandonJob, EndsWithContext
  <1> QED BY <1>2, <1>3, <1>4, <1>5 DEF JobStep

LEMMA JobLater ==
    ASSUME TypeOK, NEW j \in Job, JobStep(j), NEW g \in Game, Later(g)
    PROVE  Later(g)' \/ (g = j /\ LoadGame(j))
  <1>1. /\ UNCHANGED <<trigger, full>> /\ (Promised' <=> Promised)
        /\ \A i \in Job \ {j} : job'[i] = job[i]
        /\ g \in Job
    BY JobWork, PromisedStill DEF Job
  <1>2. CASE g = j /\ job[g].pc = "lock"
    BY <1>2, JobGoesOn
  <1>3. CASE g # j
    BY <1>1, <1>3 DEF Later
  <1>4. CASE job[g].pc # "lock"
    BY <1>1, <1>4 DEF Later
  <1> QED BY <1>2, <1>3, <1>4

LEMMA JobComing ==
    ASSUME Patient, TypeOK, KnownInv, NEW j \in Job, JobStep(j), NEW g \in Game, Coming(g)
    PROVE  Coming(g)' \/ (DropOthers(j) /\ job[j].game = g)
  <1>1. /\ UNCHANGED <<stored, full, edit>>
        /\ \A i \in Job \ {j} : job'[i] = job[i]
        /\ job[j].pc # "idle" /\ g \in Job
    BY JobWork DEF Job
  <1>2. \A i \in Job \ {j} : Cancelled(i)' = Cancelled(i)
    BY <1>1 DEF Cancelled
  <1>3. ASSUME job[j].game = g, ~Cancelled(j), ~DropOthers(j) PROVE Coming(g)'
    <2>1. /\ job'[j].pc # "idle" /\ job'[j].game = g
          /\ job'[j].cancelled = job[j].cancelled
      BY <1>3, JobGoesOn DEF Patient
    <2>2. ~Cancelled(j)'
      BY <1>1, <1>3, <2>1 DEF Cancelled
    <2> QED BY <2>1, <2>2 DEF Coming
  <1>4. CASE Later(g)
    <2>1. CASE Later(g)'
      BY <2>1 DEF Coming
    <2>2. CASE g = j /\ LoadGame(j)
      <3>1. job[j].game = g /\ ~DropOthers(j) /\ job[g].pc = "lock"
        BY <1>1, <2>2 DEF KnownInv, LoadGame, DropOthers
      <3>2. CASE Cancelled(j)
        <4>1. trigger \/ Promised
          BY <1>4, <2>2, <3>2, ProcessAssumption DEF Cancelled, Later
        <4>2. trigger' \/ Promised'
          BY <4>1, JobWork, PromisedStill
        <4> QED BY <4>2 DEF Coming, Later
      <3> QED BY <1>3, <3>1, <3>2
    <2> QED BY <1>4, <2>1, <2>2, JobLater
  <1>5. ASSUME NEW i \in Job, i # j, job[i].pc # "idle", job[i].game = g, ~Cancelled(i)
        PROVE  Coming(g)'
    BY <1>1, <1>2, <1>5 DEF Coming
  <1>6. CASE \E e \in Edit : /\ g \in edit[e].ids
                             /\ \/ edit[e].pc = "sync" /\ g \in edit[e].left
                                \/ edit[e].pc = "after" /\ SyncsAfter(e)
    BY <1>1, <1>6 DEF Coming, SyncsAfter
  <1> QED BY <1>3, <1>4, <1>5, <1>6 DEF Coming

\* What a sync leaves tracked.
LEMMA JobLeaves ==
    ASSUME Patient, TypeOK, KnownInv, PlannedInv, NEW j \in Job, JobStep(j), NEW g \in Game
    PROVE  /\ Wants(stored, games[g]) \cap tracked[g] \subseteq tracked'[g] \/ Later(g)'
           /\ DropOthers(j) /\ job[j].game = g
                => Wants(stored, games[g]) \subseteq tracked'[g] \/ Later(g)'
  <1>1. /\ tracked \in [Game -> SUBSET Kind] /\ job[j].game \in Game
    BY JobWork DEF TypeOK, KnownInv, Listed
  <1>2. CASE DropOthers(j)
    <2>1. /\ job[j].pc = "others"
          /\ tracked' = [tracked EXCEPT ![job[j].game] = @ \cap job[j].keep]
      BY <1>2 DEF DropOthers
    <2>2. CASE g = job[j].game
      <3>1. \/ Later(g)
            \/ Wants(stored, games[g]) \subseteq job[j].keep /\ job[j].keep \subseteq tracked[g]
        BY <2>1, <2>2 DEF PlannedInv, Working
      <3>2. ~LoadGame(j)
        BY <2>1 DEF LoadGame
      <3> QED BY <1>1, <2>1, <2>2, <3>1, <3>2, JobLater
    <2>3. CASE g # job[j].game
      BY <1>1, <2>1, <2>3
    <2> QED BY <2>2, <2>3
  <1>3. CASE ~DropOthers(j)
    <2>1. tracked[g] \subseteq tracked'[g]
      <3>1. CASE UNCHANGED tracked
        BY <3>1
      <3>2. ASSUME NEW k, tracked' = [tracked EXCEPT ![job[j].game] = @ \cup {k}]
            PROVE  tracked[g] \subseteq tracked'[g]
        BY <1>1, <3>2
      <3> QED BY <1>3, <3>1, <3>2
           DEF JobStep, PlanJob, OwnedIDs, LoadGame, FetchDetails, UpsertFile, AbandonJob,
               library
    <2> QED BY <1>3, <2>1
  <1> QED BY <1>2, <1>3

LEMMA JobPlanned ==
    ASSUME TypeOK, KnownInv, HeldInv, PlansAreCurrent, PlannedInv, NEW j \in Job, JobStep(j)
    PROVE  PlannedInv'
  <1>1. /\ UNCHANGED <<stored, games>>
        /\ \A i \in Job \ {j} : job'[i] = job[i]
        /\ tracked \in [Game -> SUBSET Kind] /\ job[j].game \in Game /\ j # Nobody
    BY JobWork, ProcessAssumption DEF TypeOK, KnownInv, Listed, Job
  <1>. DEFINE Good(i, g) ==
         /\ job'[i].pc = "others" => job'[i].todo = {}
         /\ \/ Later(g)'
            \/ /\ Wants(stored, games[g]) \subseteq job'[i].todo \cup job'[i].keep
               /\ job'[i].keep \subseteq tracked'[g]
  <1>2. ASSUME NEW i \in Job \ {j}, NEW g \in Game, Working(job'[i]), job'[i].game = g
        PROVE  Good(i, g)
    <2>1. job'[i] = job[i] /\ Working(job[i]) /\ job[i].game = g
      BY <1>1, <1>2 DEF Working
    <2>2. lock[g] = i
      BY <2>1 DEF HeldInv
    <2>3. tracked'[g] = tracked[g]
      <3>1. CASE UNCHANGED tracked
        BY <3>1
      <3>2. CASE Working(job[j])
        <4>1. job[j].game # g
          BY <2>2, <3>2 DEF HeldInv
        <4> QED BY <1>1, <2>1, <4>1
             DEF JobStep, PlanJob, OwnedIDs, LoadGame, FetchDetails, UpsertFile, DropOthers,
                 AbandonJob, library
      <3> QED BY <3>1, <3>2, JobWork DEF Working
    <2>4. Later(g) => Later(g)'
      <3>1. g = j => ~LoadGame(j)
        BY <1>1, <1>2, <2>1, <2>2, ProcessAssumption DEF LoadGame, KnownInv, Job
      <3> QED BY <2>1, <3>1, JobLater
    <2> QED BY <2>1, <2>3, <2>4 DEF PlannedInv
  <1>3. ASSUME NEW g \in Game, Working(job'[j]), job'[j].game = g PROVE Good(j, g)
    <2>1. job[j].game = g
      BY <1>3, JobWork DEF Working, NoJob
    <2>2. (job[j].pc = "others" => job[j].todo = {})
      BY <1>1 DEF PlannedInv, Working
    <2>3. job'[j].pc = "others" => job'[j].todo = {}
      BY <2>2, JobGoesOn
    <2>4. CASE LoadGame(j)
      <3>1. job[j].pc = "lock" /\ UNCHANGED tracked
        BY <2>4 DEF LoadGame, library
      <3>2. job[j].keep = {}
        BY <3>1 DEF HeldInv, Working
      <3>4. job'[j].todo = Wants(job[j].snap, games[g]) /\ job'[j].keep = job[j].keep
        BY <1>3, <2>1, <3>1, JobWork DEF Working, NoJob
      <3>3. Wants(job[j].snap, games[g]) = Wants(stored, games[g])
        BY <3>1, PlanWants DEF PlansAreCurrent, Planning
      <3> QED BY <2>1, <2>3, <3>1, <3>2, <3>3, <3>4
    <2>5. CASE ~LoadGame(j)
      <3>1. PICK k \in job[j].todo \cup {"none"} :
              /\ Working(job[j])
              /\ tracked' = IF k \in job[j].todo
                            THEN [tracked EXCEPT ![job[j].game] = @ \cup {k}] ELSE tracked
              /\ job'[j].todo = job[j].todo \ {k}
              /\ job'[j].keep = job[j].keep \cup ({k} \cap job[j].todo)
        BY <1>3, <2>5, JobWork DEF Working, NoJob
      <3>2. Later(g) => Later(g)'
        BY <1>1, <2>5, JobLater
      <3>4. \/ Later(g)
            \/ /\ Wants(stored, games[g]) \subseteq job[j].todo \cup job[j].keep
               /\ job[j].keep \subseteq tracked[g]
        BY <2>1, <3>1 DEF PlannedInv
      <3>5. job[j].todo \cup job[j].keep = job'[j].todo \cup job'[j].keep
        BY <3>1
      <3>6. job[j].keep \subseteq tracked[g] => job'[j].keep \subseteq tracked'[g]
        BY <1>1, <2>1, <3>1
      <3> QED BY <2>1, <2>3, <3>2, <3>4, <3>5, <3>6
    <2> QED BY <2>4, <2>5
  <1> QED BY <1>1, <1>2, <1>3 DEF PlannedInv, Working

LEMMA JobCome ==
    ASSUME Patient, TypeOK, KnownInv, SyncsLast, HeldInv, PlansAreCurrent, ComeInv,
           NEW j \in Job, JobStep(j)
    PROVE  ComeInv'
  <1>1. /\ UNCHANGED <<stored, games, trigger, full, edit, pauser>>
        /\ \A c \in Change : SameChange(c)
        /\ edit \in [Edit -> EditRequest]
    BY JobWork DEF TypeOK
  <1>2. PlannedInv'
    BY JobPlanned DEF ComeInv
  <1>3. StoppersInv' /\ FollowedInv'
    BY <1>1, PromisedStill DEF ComeInv, StoppersInv, FollowedInv, SameChange, NeedsSync
  <1>4. ModeInv' /\ BeforeInv'
    BY <1>1 DEF ComeInv, ModeInv, BeforeInv, SameChange
  <1>5. \A e \in Edit : Edited(e)' = Edited(e)
    BY <1>1 DEF Edited
  <1>6. ASSUME NEW e \in Edit, edit[e].pc = "drop", NEW g \in edit[e].ids
        PROVE  tracked'[g] = tracked[g] /\ (Coming(g) => Coming(g)')
    <2>1. g \in Game /\ lock[g] = e /\ e # j
      BY <1>1, <1>6, JobWork DEF EditRequest, HeldInv, SyncsLast
    <2>2. job[j].game = g => ~Working(job[j])
      BY <2>1 DEF HeldInv
    <2>3. tracked'[g] = tracked[g]
      BY <2>1, <2>2 DEF JobStep, PlanJob, OwnedIDs, LoadGame, FetchDetails, UpsertFile,
         DropOthers, AbandonJob, library, TypeOK, Working
    <2>4. Coming(g) => Coming(g)'
      BY <2>1, <2>2, JobComing DEF DropOthers, Working
    <2> QED BY <2>3, <2>4
  <1>7. DropInv'
    BY <1>1, <1>5, <1>6 DEF ComeInv, DropInv
  <1>8. ASSUME NEW g \in Listed
        PROVE  \/ Wants(stored, games[g]) \subseteq tracked'[g]
               \/ Coming(g)'
               \/ \E e \in Edit : edit[e].pc = "drop" /\ g \in edit[e].ids
    <2>1. g \in Game
      BY DEF Listed
    <2>2. Later(g)' => Coming(g)'
      BY DEF Coming
    <2>3. CASE Wants(stored, games[g]) \subseteq tracked[g]
      BY <2>1, <2>2, <2>3, JobLeaves DEF ComeInv
    <2>4. CASE Coming(g)
      BY <2>1, <2>2, <2>4, JobComing, JobLeaves DEF ComeInv
    <2> QED BY <2>3, <2>4 DEF ComeInv, MissingInv
  <1>9. MissingInv'
    <2>1. Listed' = Listed
      BY <1>1 DEF Listed
    <2> QED BY <1>1, <1>8, <2>1 DEF MissingInv
  <1> QED BY <1>2, <1>3, <1>4, <1>7, <1>9 DEF ComeInv

-----------------------------------------------------------------------------
(* And changes of the settings.                                            *)

\* Steps that leave the plan, the games and the syncs alone.
LEMMA QuietLater ==
    ASSUME UNCHANGED <<trigger, full>>, Promised' <=> Promised, \A j \in Job : job'[j] = job[j],
           NEW g \in Game
    PROVE  Later(g)' <=> Later(g)
  BY DEF Later, Job

LEMMA QuietComing ==
    ASSUME SamePlan(stored', stored), UNCHANGED <<trigger, full, edit>>,
           Promised' <=> Promised, \A j \in Job : job'[j] = job[j], NEW g \in Game
    PROVE  Coming(g)' <=> Coming(g)
  <1>1. Later(g)' <=> Later(g)
    BY QuietLater
  <1>2. \A j \in Job : Cancelled(j)' <=> Cancelled(j)
    BY DEF Cancelled
  <1>3. \A e \in Edit : SyncsAfter(e)' <=> SyncsAfter(e)
    BY DEF SyncsAfter, SelectedOnly, WantsGame, SamePlan
  <1> QED BY <1>1, <1>2, <1>3 DEF Coming

LEMMA QuietCome ==
    ASSUME TypeOK, KnownInv, ComeInv, SamePlan(stored', stored),
           UNCHANGED <<games, tracked, trigger, full, edit>>,
           Promised' <=> Promised, \A j \in Job : job'[j] = job[j]
    PROVE  FollowedInv' /\ PlannedInv' /\ BeforeInv' /\ DropInv' /\ MissingInv'
  <1>1. \A gm : Wants(stored', gm) = Wants(stored, gm)
    BY PlanWants
  <1>2. \A g \in Game : (Coming(g)' <=> Coming(g)) /\ (Later(g)' <=> Later(g))
    BY QuietComing, QuietLater
  <1>3. \A e \in Edit : Edited(e)' = Edited(e)
    BY DEF Edited
  <1>4. Listed' = Listed /\ Listed \subseteq Game
    BY DEF Listed
  <1>5. FollowedInv' /\ BeforeInv'
    BY DEF ComeInv, FollowedInv, BeforeInv
  <1>6. PlannedInv'
    <2>. SUFFICES ASSUME NEW j \in Job, NEW g \in Game, Working(job'[j]), job'[j].game = g
                  PROVE  /\ job'[j].pc = "others" => job'[j].todo = {}
                         /\ \/ Later(g)'
                            \/ /\ Wants(stored', games'[g]) \subseteq job'[j].todo \cup job'[j].keep
                               /\ job'[j].keep \subseteq tracked'[g]
      BY DEF PlannedInv, Working
    <2>1. job'[j] = job[j] /\ Working(job[j])
      BY DEF Working
    <2> QED BY <1>1, <1>2, <2>1 DEF ComeInv, PlannedInv
  <1>7. DropInv'
    <2>1. \A e \in Edit : edit[e].ids \subseteq Game
      BY <1>4 DEF KnownInv
    <2> QED BY <1>1, <1>2, <1>3, <2>1 DEF ComeInv, DropInv
  <1>8. MissingInv'
    BY <1>1, <1>2, <1>4 DEF ComeInv, MissingInv
  <1> QED BY <1>5, <1>6, <1>7, <1>8

\* A full sync is to come for every game.
LEMMA LoudCome ==
    ASSUME KnownInv, ComeInv, trigger' \/ Promised', UNCHANGED <<games, edit>>,
           \A j \in Job : job'[j].pc = job[j].pc /\ job'[j].todo = job[j].todo
    PROVE  FollowedInv' /\ PlannedInv' /\ BeforeInv' /\ DropInv' /\ MissingInv'
  <1>1. \A g : Later(g)' /\ Coming(g)'
    BY DEF Later, Coming
  <1>3. PlannedInv'
    BY <1>1 DEF ComeInv, PlannedInv, Working, KnownInv, Listed
  <1>4. FollowedInv' /\ BeforeInv'
    BY DEF ComeInv, FollowedInv, BeforeInv
  <1>5. DropInv' /\ MissingInv'
    BY <1>1 DEF ComeInv, DropInv, MissingInv
  <1> QED BY <1>3, <1>4, <1>5

\* A change that is answered and not hung up on.
LEMMA ChangeMoves ==
    ASSUME Patient, Answered, TypeOK, SettledInv, ChangesInv, OneAuthor, StoppersInv,
           NEW c \in Change, PutSettings(c) \/ ChangeStep(c) \/ HangUp(c)
    PROVE  /\ change'[c].answer \in Answers
           /\ change'[c].pc \in {"sem", "full", "games", "again"} => NeedsSync(c)'
           /\ ~NeedsSync(c)' => change'[c].list = {}
           /\ change'[c].pc # "new"
           /\ change'[c].new \in {change[c].new} \cup NewSettings
           /\ \/ /\ change[c].pc = "new" /\ UNCHANGED <<stored, tracked, trigger, full, job>>
              \/ /\ change[c].pc \notin {"new", "done"}
                 /\ change'[c].old = change[c].old /\ change'[c].new = change[c].new
                 /\ \/ change'[c].pc \notin {"new", "done"} /\ UNCHANGED trigger
                    \/ trigger' = (trigger \/ NeedsSync(c)) /\ change'[c].pc = "done"
                 /\ ~NeedsSync(c) => UNCHANGED <<tracked, full, job>>
                 /\ \/ stored' = stored
                    \/ change[c].pc = "drop" /\ stored' = change[c].new
  <1>1. /\ change[c] \in ChangeRequest /\ change \in [Change -> ChangeRequest]
        /\ \A d \in Change : d = c
    BY DEF TypeOK, OneAuthor
  <1>2. change[c].pc # "new" => change[c].answer \in Answers /\ change[c].answer # "none"
    BY DEF StoppersInv, Answered
  <1>3. CASE PutSettings(c)
    <2>1. PICK ns \in NewSettings, a \in Answers :
            change' = [change EXCEPT ![c].pc = "ask", ![c].new = ns, ![c].answer = a,
                                     ![c].old = stored]
      BY <1>3 DEF PutSettings
    <2>2. /\ change'[c].pc = "ask" /\ change'[c].new = ns /\ change'[c].answer = a
          /\ change'[c].list = change[c].list
      BY <1>1, <2>1 DEF ChangeRequest
    <2>3. change[c].list = {} /\ change[c].pc = "new"
      BY <1>3 DEF StoppersInv, PutSettings
    <2> QED BY <1>3, <2>2, <2>3 DEF PutSettings, library
  <1>. DEFINE Kept == /\ change'[c].old = change[c].old /\ change'[c].new = change[c].new
                      /\ change'[c].answer = change[c].answer
  <1>4. Kept => (NeedsSync(c)' <=> NeedsSync(c))
    BY DEF NeedsSync
  <1>5. ASSUME NEW from \in {"ask", "again"}, NEW to \in {"compare", "drop"},
               FindUnwanted(c, from, to)
        PROVE  /\ Kept /\ change[c].pc = from /\ change'[c].pc = to
               /\ change'[c].list = Unwanted(Game, change[c].new, games)
               /\ UNCHANGED <<stored, tracked, trigger, full, job>>
    <2>1. change[c].pc = from /\ UNCHANGED <<stored, tracked, trigger, full, job>>
      BY <1>5 DEF FindUnwanted, library
    <2>. DEFINE list == Unwanted(Game, change[c].new, games)
    <2>2. ~Unanswered(list, change[c].answer)
      BY <1>2, <2>1 DEF Unanswered
    <2>3. change' = [change EXCEPT ![c].pc = to, ![c].list = list]
      BY <1>5, <2>2 DEF FindUnwanted
    <2>. HIDE DEF list
    <2>4. Kept /\ change'[c].pc = to /\ change'[c].list = list
      BY <1>1, <2>3 DEF ChangeRequest
    <2> QED BY <2>1, <2>4 DEF list
  <1>6. CASE Ask(c)
    <2>1. /\ Kept /\ change[c].pc = "ask" /\ change'[c].pc = "compare"
          /\ change'[c].list = Unwanted(Game, change[c].new, games)
          /\ UNCHANGED <<stored, tracked, trigger, full, job>>
      BY <1>5, <1>6 DEF Ask
    <2>2. ASSUME ~NeedsSync(c) PROVE Unwanted(Game, change[c].new, games) = {}
      <3>1. ~Replaced /\ SamePlan(change[c].new, stored)
        BY <1>1, <2>1, <2>2, SamePlanAlways DEF Replaced, ChangesInv, NeedsSync
      <3>2. \A g \in Game : tracked[g] \subseteq Wants(stored, games[g])
        BY <3>1 DEF SettledInv, Revisited, Settled
      <3>3. \A gm : Wants(change[c].new, gm) = Wants(stored, gm)
        BY <3>1, PlanWants
      <3> QED BY <3>2, <3>3 DEF Unwanted, ActiveFiles
    <2> QED BY <1>2, <1>4, <2>1, <2>2
  <1>7. CASE AskAgain(c)
    <2>1. /\ Kept /\ change[c].pc = "again" /\ change'[c].pc = "drop"
          /\ UNCHANGED <<stored, tracked, trigger, full, job>>
      BY <1>5, <1>7 DEF AskAgain
    <2> QED BY <1>2, <1>4, <2>1 DEF StoppersInv
  <1>8. CASE Compare(c)
    <2>1. /\ change[c].pc = "compare" /\ UNCHANGED <<stored, tracked, trigger, full, job>>
          /\ ChangeGoto(c, IF SamePlan(stored, change[c].new) THEN "drop" ELSE "sem")
      BY <1>8 DEF Compare, library
    <2>2. /\ Kept /\ change'[c].list = change[c].list
          /\ change'[c].pc = IF SamePlan(stored, change[c].new) THEN "drop" ELSE "sem"
      BY <1>1, <2>1 DEF ChangeGoto, ChangeRequest
    <2>3. ~SamePlan(stored, change[c].new) => NeedsSync(c)
      BY <2>1, SamePlanAlways DEF ChangesInv, NeedsSync
    <2> QED BY <1>2, <1>4, <2>1, <2>2, <2>3 DEF StoppersInv
  <1>9. CASE LockPlan(c) \/ CancelFull(c) \/ StopGameSyncs(c)
    <2>1. /\ change[c].pc \in {"sem", "full", "games"} /\ UNCHANGED <<stored, tracked, trigger>>
      BY <1>9 DEF LockPlan, CancelFull, StopGameSyncs, library
    <2>2. Kept /\ change'[c].pc \in {"full", "games", "again"}
      <3>1. CASE LockPlan(c)
        BY <1>1, <3>1 DEF LockPlan, ChangeGoto, ChangeRequest
      <3>2. CASE CancelFull(c)
        BY <1>1, <3>2 DEF CancelFull, ChangeGoto, ChangeRequest
      <3>3. CASE StopGameSyncs(c)
        BY <1>1, <3>3 DEF StopGameSyncs, ChangeRequest
      <3> QED BY <1>9, <3>1, <3>2, <3>3
    <2>3. NeedsSync(c)
      BY <2>1 DEF StoppersInv
    <2> QED BY <1>2, <1>4, <2>1, <2>2, <2>3
  <1>10. CASE DropForChange(c)
    <2>1. /\ change[c].pc = "drop" /\ UNCHANGED <<stored, trigger, full, job>>
          /\ \E u \in change[c].list : change' = [change EXCEPT ![c].list = @ \ {u}]
      BY <1>10 DEF DropForChange
    <2>2. Kept /\ change'[c].pc = "drop"
      BY <1>1, <2>1 DEF ChangeRequest
    <2>3. NeedsSync(c)
      BY <2>1 DEF StoppersInv
    <2> QED BY <1>2, <1>4, <2>1, <2>2, <2>3
  <1>11. CASE SaveSettings(c)
    <2>1. /\ change[c].pc = "drop" /\ UNCHANGED <<tracked, trigger, full, job>>
          /\ stored' = change[c].new
          /\ Kept /\ change'[c].list = change[c].list /\ change'[c].pc = "configure"
      BY <1>1, <1>11 DEF SaveSettings, ChangeRequest
    <2> QED BY <1>2, <1>4, <2>1 DEF StoppersInv
  <1>12. CASE Configure(c)
    <2>1. /\ change[c].pc = "configure" /\ UNCHANGED <<stored, tracked, full, job>>
          /\ trigger' = (trigger \/ NeedsSync(c)) /\ ChangeGoto(c, "done")
      BY <1>12 DEF Configure, library
    <2>2. Kept /\ change'[c].list = change[c].list /\ change'[c].pc = "done"
      BY <1>1, <2>1 DEF ChangeGoto, ChangeRequest
    <2> QED BY <1>2, <1>4, <2>1, <2>2 DEF StoppersInv
  <1>13. CASE HangUp(c)
    BY <1>13 DEF HangUp, Patient
  <1> QED BY <1>3, <1>6, <1>7, <1>8, <1>9, <1>10, <1>11, <1>12, <1>13 DEF ChangeStep

LEMMA ChangeCome ==
    ASSUME Patient, Answered, ReadOnce, OneAuthor, TypeOK, KnownInv, ChangesInv, SettledInv,
           ComeInv, NEW c \in Change, PutSettings(c) \/ ChangeStep(c) \/ HangUp(c)
    PROVE  ComeInv'
  <1>1. /\ \A d \in Change : d = c
        /\ UNCHANGED <<games, edit, pauser>>
        /\ full'.pc = full.pc /\ full'.snap = full.snap /\ full'.selectNew = full.selectNew
        /\ \A j \in Job : job'[j].pc = job[j].pc /\ job'[j].todo = job[j].todo
        /\ StoppersInv
    BY ChangeWork DEF OneAuthor, ComeInv
  <1>. DEFINE Begins == change[c].pc = "new" /\ UNCHANGED <<stored, tracked, trigger, full, job>>
              GoesOn == /\ change[c].pc \notin {"new", "done"}
                        /\ change'[c].old = change[c].old /\ change'[c].new = change[c].new
                        /\ \/ change'[c].pc \notin {"new", "done"} /\ UNCHANGED trigger
                           \/ /\ trigger' = (trigger \/ NeedsSync(c))
                              /\ change'[c].pc = "done"
                        /\ ~NeedsSync(c) => UNCHANGED <<tracked, full, job>>
                        /\ \/ stored' = stored
                           \/ change[c].pc = "drop" /\ stored' = change[c].new
  <1>2. /\ change'[c].answer \in Answers
        /\ change'[c].pc \in {"sem", "full", "games", "again"} => NeedsSync(c)'
        /\ ~NeedsSync(c)' => change'[c].list = {}
        /\ change'[c].pc # "new"
        /\ change'[c].new \in {change[c].new} \cup NewSettings
        /\ Begins \/ GoesOn
    BY <1>1, ChangeMoves
  <1>. HIDE DEF Begins, GoesOn
  <1>3. StoppersInv'
    BY <1>1, <1>2 DEF StoppersInv
  <1>4. ModeInv'
    <2>1. "optin" \in EditKinds =>
            /\ \A s \in NewSettings : ~SelectsNewGames(s)
            /\ ~SelectsNewGames(stored')
      BY <1>2 DEF ReadOnce, ComeInv, ModeInv, Begins, GoesOn
    <2> QED BY <1>1, <1>2, <2>1 DEF ComeInv, ModeInv
  <1>5. FollowedInv' /\ PlannedInv' /\ BeforeInv' /\ DropInv' /\ MissingInv'
    <2>1. CASE trigger' \/ Promised'
      BY <1>1, <2>1, LoudCome
    <2>2. CASE ~trigger' /\ ~Promised'
      <3>1. ~Promised /\ UNCHANGED <<tracked, trigger, full, job>> /\ SamePlan(stored', stored)
        <4>1. CASE Begins
          BY <1>1, <4>1, SamePlanAlways DEF Begins, Promised
        <4>2. CASE GoesOn
          <5>1. ~NeedsSync(c)
            BY <2>2, <4>2 DEF GoesOn, Promised, NeedsSync
          <5>2. ~Promised
            BY <1>1, <5>1 DEF Promised
          <5>3. change[c].pc = "drop" => SamePlan(change[c].new, stored)
            BY <5>1, SamePlanAlways DEF ChangesInv, NeedsSync
          <5>4. UNCHANGED trigger
            BY <4>2, <5>1 DEF GoesOn, TypeOK
          <5>5. UNCHANGED <<tracked, full, job>>
            BY <4>2, <5>1 DEF GoesOn
          <5>6. SamePlan(stored', stored)
            BY <4>2, <5>3, SamePlanAlways DEF GoesOn
          <5> QED BY <5>2, <5>4, <5>5, <5>6
        <4> QED BY <1>2, <4>1, <4>2
      <3> QED BY <1>1, <2>2, <3>1, QuietCome
    <2> QED BY <2>1, <2>2
  <1> QED BY <1>3, <1>4, <1>5 DEF ComeInv

-----------------------------------------------------------------------------
(* And the requests on games.                                              *)

\* A patient request, step by step.
LEMMA EditMoves ==
    ASSUME Patient, TypeOK, SyncsLast, NEW e \in Edit,
           RequestEdit(e) \/ EditStep(e) \/ HangUpEdit(e) \/ Expire(e)
    PROVE  \/ RequestEdit(e) /\ UNCHANGED <<games, tracked, job>>
           \/ /\ LockGame(e) /\ UNCHANGED <<games, tracked, job>>
              /\ edit[e].pc = "locks" /\ edit'[e].pc \in {"locks", "read"}
              /\ edit'[e].kind = edit[e].kind /\ edit'[e].ids = edit[e].ids
              /\ edit'[e].before = edit[e].before
           \/ /\ UNCHANGED <<games, tracked, job>> /\ edit'[e].pc = "done"
              /\ edit[e].pc = "read" \/ (edit[e].pc = "sync" /\ edit[e].left = {})
           \/ /\ ListFiles(e) /\ UNCHANGED <<games, tracked, job>>
              /\ edit[e].pc = "read" /\ edit'[e].pc = "drop"
              /\ edit'[e].kind = edit[e].kind /\ edit'[e].ids = edit[e].ids
              /\ edit'[e].before = edit[e].before /\ edit'[e].list = ToDrop(e)
           \/ /\ DropForEdit(e) /\ UNCHANGED <<games, job>>
              /\ edit[e].pc = "drop" /\ edit'[e].pc = "drop"
              /\ edit'[e].kind = edit[e].kind /\ edit'[e].ids = edit[e].ids
              /\ edit'[e].before = edit[e].before
              /\ \E u \in edit[e].list : /\ edit'[e].list = edit[e].list \ {u}
                                         /\ DropFile(u, edit[e].answer)
           \/ /\ StoreEdit(e) /\ UNCHANGED <<tracked, job>> /\ games' = Edited(e)
              /\ edit[e].pc = "drop" /\ edit'[e].pc = "after"
              /\ edit'[e].kind = edit[e].kind /\ edit'[e].ids = edit[e].ids
              /\ edit'[e].before = edit[e].before
           \/ /\ Reply(e) /\ UNCHANGED <<games, tracked, job>>
              /\ edit[e].pc = "after" /\ edit'[e].pc = "sync"
              /\ edit'[e].ids = edit[e].ids
              /\ SyncsAfter(e) => edit'[e].left = edit[e].ids
           \/ /\ SyncNext(e) /\ UNCHANGED <<games, tracked>>
              /\ edit[e].pc = "sync" /\ edit'[e].pc = "sync" /\ edit'[e].ids = edit[e].ids
              /\ job[e].pc = "idle" /\ job'[e].pc = "plan" /\ ~job'[e].cancelled
              /\ edit'[e].left = edit[e].left \ {job'[e].game}
  <1>1. /\ edit \in [Edit -> EditRequest] /\ job \in [Job -> GameSync] /\ e \in Job
    BY DEF TypeOK, Job
  <1>2. CASE RequestEdit(e)
    BY <1>2 DEF RequestEdit, library
  <1>3. CASE LockGame(e)
    <2>1. /\ edit[e].pc = "locks" /\ UNCHANGED <<games, tracked, job>>
          /\ edit' = edit \/ edit' = [edit EXCEPT ![e].pc = "read"]
      BY <1>3 DEF LockGame, library
    <2>2. /\ edit'[e].pc \in {"locks", "read"}
          /\ edit'[e].kind = edit[e].kind /\ edit'[e].ids = edit[e].ids
          /\ edit'[e].before = edit[e].before
      BY <1>1, <2>1 DEF EditRequest
    <2> QED BY <1>3, <2>1, <2>2
  <1>4. CASE EndEdit(e) /\ (ListFiles(e) \/ SyncedAll(e))
    <2>1. edit'[e].pc = "done"
      BY <1>1, <1>4 DEF EndEdit, NewEdit
    <2> QED BY <1>4, <2>1 DEF ListFiles, SyncedAll, library
  <1>5. CASE ListFiles(e) /\ ~EndEdit(e)
    <2>1. /\ edit' = [edit EXCEPT ![e].pc = "drop", ![e].list = ToDrop(e)]
          /\ edit[e].pc = "read" /\ UNCHANGED <<games, tracked, job>>
      BY <1>5 DEF ListFiles, library
    <2>2. /\ edit'[e].pc = "drop" /\ edit'[e].list = ToDrop(e)
          /\ edit'[e].kind = edit[e].kind /\ edit'[e].ids = edit[e].ids
          /\ edit'[e].before = edit[e].before
      BY <1>1, <2>1 DEF EditRequest
    <2> QED BY <1>5, <2>1, <2>2
  <1>6. CASE DropForEdit(e)
    <2>1. PICK u \in edit[e].list : /\ DropFile(u, edit[e].answer)
                                    /\ edit' = [edit EXCEPT ![e].list = @ \ {u}]
      BY <1>6 DEF DropForEdit
    <2>2. /\ edit[e].pc = "drop" /\ UNCHANGED <<games, job>>
      BY <1>6 DEF DropForEdit
    <2>3. /\ edit'[e].pc = "drop" /\ edit'[e].list = edit[e].list \ {u}
          /\ edit'[e].kind = edit[e].kind /\ edit'[e].ids = edit[e].ids
          /\ edit'[e].before = edit[e].before
      BY <1>1, <2>1, <2>2 DEF EditRequest
    <2> QED BY <1>6, <2>1, <2>2, <2>3
  <1>7. CASE StoreEdit(e)
    <2>1. /\ edit' = [edit EXCEPT ![e].pc = "after"] /\ edit[e].pc = "drop"
          /\ UNCHANGED <<tracked, job>> /\ games' = Edited(e)
      BY <1>7 DEF StoreEdit
    <2>2. /\ edit'[e].pc = "after"
          /\ edit'[e].kind = edit[e].kind /\ edit'[e].ids = edit[e].ids
          /\ edit'[e].before = edit[e].before
      BY <1>1, <2>1 DEF EditRequest
    <2> QED BY <1>7, <2>1, <2>2
  <1>8. CASE Reply(e)
    <2>1. /\ edit' = [edit EXCEPT ![e].pc = "sync",
                                  ![e].left = IF SyncsAfter(e) THEN edit[e].ids ELSE {}]
          /\ edit[e].pc = "after" /\ UNCHANGED <<games, tracked, job>>
      BY <1>8 DEF Reply, library
    <2>2. /\ edit'[e].pc = "sync" /\ edit'[e].ids = edit[e].ids
          /\ edit'[e].left = IF SyncsAfter(e) THEN edit[e].ids ELSE {}
      BY <1>1, <2>1 DEF EditRequest
    <2> QED BY <1>8, <2>1, <2>2
  <1>9. CASE SyncNext(e)
    <2>1. PICK g \in edit[e].left :
            /\ edit' = [edit EXCEPT ![e].left = @ \ {g}]
            /\ job' = [job EXCEPT ![e] = [NoJob EXCEPT !.pc = "plan", !.game = g]]
      BY <1>9 DEF SyncNext
    <2>2. /\ edit[e].pc = "sync" /\ job[e].pc = "idle" /\ UNCHANGED <<games, tracked>>
      BY <1>9 DEF SyncNext, library
    <2>3. edit'[e].pc = "sync" /\ edit'[e].ids = edit[e].ids /\ edit'[e].left = edit[e].left \ {g}
      BY <1>1, <2>1, <2>2 DEF EditRequest
    <2>4. job'[e] = [NoJob EXCEPT !.pc = "plan", !.game = g]
      BY <1>1, <2>1
    <2>5. job'[e].pc = "plan" /\ job'[e].game = g /\ ~job'[e].cancelled
      BY <2>4 DEF NoJob
    <2> QED BY <1>9, <2>2, <2>3, <2>5
  <1>10. ~HangUpEdit(e) /\ ~Expire(e)
    BY DEF Patient, HangUpEdit, Expire
  <1>11. SyncedAll(e) => EndEdit(e)
    BY DEF SyncedAll
  <1> QED BY <1>2, <1>3, <1>4, <1>5, <1>6, <1>7, <1>8, <1>9, <1>10, <1>11 DEF EditStep

\* The syncs a request is to bring, it brings.
LEMMA EditComing ==
    ASSUME Patient, TypeOK, SyncsLast, KnownInv, NEW e \in Edit,
           RequestEdit(e) \/ EditStep(e) \/ HangUpEdit(e) \/ Expire(e), NEW g \in Game
    PROVE  (Later(g)' <=> Later(g)) /\ (Coming(g) => Coming(g)')
  <1>1. /\ UNCHANGED <<stored, trigger, full, change>>
        /\ \A f \in Edit \ {e} : edit'[f] = edit[f]
        /\ \A j \in Job \ {e} : job'[j] = job[j]
        /\ g \in Job /\ g # e /\ e \in Job
    BY EditWork, ProcessAssumption DEF Job
  <1>2. Promised' <=> Promised
    BY <1>1 DEF Promised, NeedsSync
  <1>3. Later(g)' <=> Later(g)
    BY <1>1, <1>2 DEF Later
  <1>4. ASSUME NEW j \in Job, job[j].pc # "idle", job[j].game = g, ~Cancelled(j)
        PROVE  Coming(g)'
    <2>1. job'[j] = job[j]
      <3>1. CASE j = e
        <4>1. edit[e].pc = "sync"
          BY <1>4, <3>1 DEF SyncsLast
        <4> QED BY <1>4, <3>1, <4>1, EditMoves DEF RequestEdit
      <3> QED BY <1>1, <3>1
    <2> QED BY <1>1, <1>4, <2>1 DEF Coming, Cancelled
  <1>5. ASSUME NEW f \in Edit, g \in edit[f].ids,
               \/ edit[f].pc = "sync" /\ g \in edit[f].left
               \/ edit[f].pc = "after" /\ SyncsAfter(f)
        PROVE  Coming(g)'
    <2>1. CASE edit'[f] = edit[f]
      <3>1. SyncsAfter(f)' <=> SyncsAfter(f)
        BY <1>1, <2>1 DEF SyncsAfter
      <3> QED BY <1>5, <2>1, <3>1 DEF Coming
    <2>2. CASE f = e
      <3>1. CASE edit[e].pc = "after"
        <4>1. edit'[e].pc = "sync" /\ edit'[e].ids = edit[e].ids /\ edit'[e].left = edit[e].ids
          BY <1>5, <2>2, <3>1, EditMoves DEF RequestEdit
        <4> QED BY <1>5, <2>2, <4>1 DEF Coming
      <3>2. CASE edit[e].pc = "sync"
        <4>1. /\ edit'[e].pc = "sync" /\ edit'[e].ids = edit[e].ids
              /\ job'[e].pc = "plan" /\ ~job'[e].cancelled
              /\ edit'[e].left = edit[e].left \ {job'[e].game}
          BY <1>5, <2>2, <3>2, EditMoves DEF RequestEdit
        <4>2. CASE job'[e].game = g
          BY <1>1, <4>1, <4>2 DEF Coming, Cancelled
        <4>3. CASE job'[e].game # g
          BY <1>5, <2>2, <3>2, <4>1, <4>3 DEF Coming
        <4> QED BY <4>2, <4>3
      <3> QED BY <1>5, <2>2, <3>1, <3>2
    <2> QED BY <1>1, <2>1, <2>2
  <1>6. Later(g) => Coming(g)'
    BY <1>3 DEF Coming
  <1> QED BY <1>3, <1>4, <1>5, <1>6 DEF Coming

\* It changes nothing of a game that somebody else has locked.
LEMMA EditKeepsOut ==
    ASSUME Patient, TypeOK, SyncsLast, HeldInv, DropInv, NEW e \in Edit,
           RequestEdit(e) \/ EditStep(e) \/ HangUpEdit(e) \/ Expire(e),
           NEW g \in Game, lock[g] # e
    PROVE  games'[g] = games[g] /\ tracked'[g] = tracked[g]
  <1>1. edit[e].pc = "drop" => g \notin edit[e].ids
    BY DEF HeldInv
  <1>2. games'[g] = games[g]
    BY <1>1, EditWork, StoredRows DEF StoreEdit
  <1>3. tracked'[g] = tracked[g]
    <2>1. CASE UNCHANGED tracked
      BY <2>1
    <2>2. ASSUME NEW u \in edit[e].list, DropFile(u, edit[e].answer), edit[e].pc = "drop"
          PROVE  tracked'[g] = tracked[g]
      <3>1. u.game # g
        BY <1>1, <2>2 DEF DropInv
      <3> QED BY <2>2, <3>1 DEF DropFile, TypeOK
    <2> QED BY <2>1, <2>2, EditMoves
  <1> QED BY <1>2, <1>3

\* What a request makes wanted that was not, it syncs.
LEMMA EditSyncs ==
    ASSUME TypeOK, NEW e \in Edit, NEW g \in edit[e].ids,
           edit[e].kind = "optin" =>
              /\ edit[e].before.extras => games[g].extras
              /\ games[g].selected => edit[e].before.selected
    PROVE  SyncsAfter(e) \/ Wants(stored, Edited(e)[g]) \subseteq Wants(stored, games[g])
  <1>1. g \in Game /\ games[g] \in GameRow /\ edit[e].before \in GameRow
    BY DEF TypeOK, EditRequest
  <1>. DEFINE R == Edited(e)[g]
  <1>2. CASE edit[e].kind = "select"
    <2>1. R = [games[g] EXCEPT !.selected = TRUE]
      BY <1>1, <1>2 DEF Edited
    <2>2. R.extras = games[g].extras
      BY <1>1, <2>1 DEF GameRow
    <2>. HIDE DEF R
    <2>3. SyncsAfter(e) \/ Wants(stored, R) \subseteq Wants(stored, games[g])
      BY <1>2, <2>2 DEF SyncsAfter, Wants, WantsGame
    <2> QED BY <2>3 DEF R
  <1>3. CASE edit[e].kind = "deselect"
    <2>1. R = [games[g] EXCEPT !.selected = FALSE]
      BY <1>1, <1>3 DEF Edited
    <2>2. R.extras = games[g].extras /\ ~R.selected
      BY <1>1, <2>1 DEF GameRow
    <2>. HIDE DEF R
    <2>3. Wants(stored, R) \subseteq Wants(stored, games[g])
      BY <2>2 DEF Wants, WantsGame
    <2> QED BY <2>3 DEF R
  <1>4. CASE edit[e].kind = "optin"
    <2>1. R = [games[g] EXCEPT !.extras = TRUE]
      BY <1>1, <1>4 DEF Edited
    <2>2. R.extras = TRUE /\ R.selected = games[g].selected
      BY <1>1, <2>1 DEF GameRow
    <2>. HIDE DEF R
    <2>3. CASE edit[e].before.extras
      <3>1. games[g].extras
        BY <1>4, <2>3
      <3>2. Wants(stored, R) \subseteq Wants(stored, games[g])
        BY <2>2, <3>1 DEF Wants, WantsGame
      <3> QED BY <3>2 DEF R
    <2>4. CASE ~WantsGame(stored, edit[e].before)
      <3>1. SelectedOnly(stored) /\ ~games[g].selected
        BY <1>4, <2>4 DEF WantsGame
      <3>2. Wants(stored, R) = {}
        BY <2>2, <3>1 DEF Wants, WantsGame
      <3> QED BY <3>2 DEF R
    <2> QED BY <1>4, <2>3, <2>4 DEF SyncsAfter
  <1>5. CASE edit[e].kind = "optout"
    <2>1. R = [games[g] EXCEPT !.extras = FALSE]
      BY <1>1, <1>5 DEF Edited
    <2>2. ~R.extras /\ R.selected = games[g].selected
      BY <1>1, <2>1 DEF GameRow
    <2>. HIDE DEF R
    <2>3. Wants(stored, R) \subseteq Wants(stored, games[g])
      BY <2>2 DEF Wants, WantsGame
    <2> QED BY <2>3 DEF R
  <1>6. CASE edit[e].kind \notin {"select", "deselect", "optin", "optout"}
    BY <1>1, <1>6 DEF Edited
  <1> QED BY <1>2, <1>3, <1>4, <1>5, <1>6

\* A request begins with what it asks for, and before it takes any locks.
LEMMA EditRequests ==
    ASSUME TypeOK, NEW e \in Edit, RequestEdit(e)
    PROVE  edit[e].pc = "new" /\ edit'[e].pc \in {"locks", "sync"}
  <1>1. PICK kind \in EditKinds, ids \in IdSets, a \in Answers :
          edit' = [edit EXCEPT ![e] =
             [NewEdit EXCEPT !.pc = IF kind = "sync" THEN "sync" ELSE "locks",
                             !.kind = kind, !.ids = ids, !.answer = a,
                             !.before = games[Only(ids)],
                             !.left = IF kind = "sync" THEN ids ELSE {}]]
    BY DEF RequestEdit
  <1> QED BY <1>1 DEF TypeOK, NewEdit, RequestEdit

LEMMA EditPlanned ==
    ASSUME Patient, TypeOK, SyncsLast, KnownInv, HeldInv, PlannedInv, DropInv, NEW e \in Edit,
           RequestEdit(e) \/ EditStep(e) \/ HangUpEdit(e) \/ Expire(e)
    PROVE  PlannedInv'
  <1>. SUFFICES ASSUME NEW j \in Job, NEW g \in Game, Working(job'[j]), job'[j].game = g
                PROVE  /\ job'[j].pc = "others" => job'[j].todo = {}
                       /\ \/ Later(g)'
                          \/ /\ Wants(stored', games'[g]) \subseteq job'[j].todo \cup job'[j].keep
                             /\ job'[j].keep \subseteq tracked'[g]
    BY DEF PlannedInv, Working
  <1>1. UNCHANGED stored
    BY EditWork
  <1>2. job'[j] = job[j]
    <2>1. CASE j = e
      BY <2>1, EditMoves DEF Working, RequestEdit
    <2> QED BY <2>1, EditWork
  <1>3. games'[g] = games[g] /\ tracked'[g] = tracked[g]
    <2>1. CASE j = e
      <3>1. edit[e].pc = "sync"
        BY <1>2, <2>1 DEF SyncsLast, Working
      <3> QED BY <3>1, EditMoves DEF RequestEdit
    <2>2. CASE j # e
      BY <1>2, <2>2, EditKeepsOut DEF HeldInv
    <2> QED BY <2>1, <2>2
  <1>4. Later(g)' <=> Later(g)
    BY EditComing
  <1> QED BY <1>1, <1>2, <1>3, <1>4 DEF PlannedInv

\* What a request read before it took the locks still holds of its game.
LEMMA EditBefore ==
    ASSUME Patient, ReadOnce, TypeOK, SyncsLast, AskedInv, BeforeInv, NEW e \in Edit,
           RequestEdit(e) \/ EditStep(e) \/ HangUpEdit(e) \/ Expire(e)
    PROVE  BeforeInv'
  <1>. SUFFICES ASSUME NEW f \in Edit, edit'[f].kind = "optin",
                       edit'[f].pc \in {"locks", "read", "drop"}, NEW g \in edit'[f].ids
                PROVE  /\ edit'[f].before.extras => games'[g].extras
                       /\ games'[g].selected => edit'[f].before.selected
    BY DEF BeforeInv
  <1>1. /\ edit \in [Edit -> EditRequest] /\ games \in [Game -> GameRow]
        /\ edit[f].ids \subseteq Game
    BY DEF TypeOK, EditRequest
  <1>2. CASE f # e
    <2>1. edit'[f] = edit[f] /\ g \in Game
      BY <1>1, <1>2, EditWork
    <2>2. /\ edit[f].before.extras => games[g].extras
          /\ games[g].selected => edit[f].before.selected
      BY <2>1 DEF BeforeInv
    <2>3. edit[e].kind \notin {"select", "optout"}
      <3>1. "optin" \in EditKinds
        BY <2>1 DEF AskedInv
      <3> QED BY <1>2, <3>1 DEF ReadOnce, AskedInv
    <2>4. /\ games[g].extras => games'[g].extras
          /\ games'[g].selected => games[g].selected
      <3>1. CASE UNCHANGED games
        BY <3>1
      <3>2. CASE StoreEdit(e)
        <4>1. games'[g] \in {games[g], [games[g] EXCEPT !.selected = FALSE],
                                       [games[g] EXCEPT !.extras = TRUE]}
          BY <2>1, <2>3, <3>2 DEF StoreEdit, Edited
        <4>2. games[g] \in GameRow
          BY <1>1, <2>1
        <4> QED BY <4>1, <4>2 DEF GameRow
      <3> QED BY <3>1, <3>2, EditWork
    <2> QED BY <2>1, <2>2, <2>4
  <1>3. CASE f = e
    <2>1. CASE RequestEdit(e)
      <3>1. PICK kind \in EditKinds, ids \in IdSets, a \in Answers :
              /\ ids # {}
              /\ kind \in {"optin", "optout", "sync"} => \A i, h \in ids : i = h
              /\ edit' = [edit EXCEPT ![e] =
                   [NewEdit EXCEPT !.pc = IF kind = "sync" THEN "sync" ELSE "locks",
                                   !.kind = kind, !.ids = ids, !.answer = a,
                                   !.before = games[Only(ids)],
                                   !.left = IF kind = "sync" THEN ids ELSE {}]]
        BY <2>1 DEF RequestEdit
      <3>2. /\ edit'[e].kind = kind /\ edit'[e].ids = ids
            /\ edit'[e].before = games[Only(ids)]
        BY <1>1, <3>1 DEF NewEdit
      <3>3. Only(ids) \in ids
        BY <3>1 DEF Only
      <3>4. g = Only(ids)
        BY <1>3, <3>1, <3>2, <3>3
      <3>5. games'[g] = games[g]
        BY <2>1 DEF RequestEdit, library
      <3> QED BY <1>3, <3>2, <3>4, <3>5
    <2>2. CASE ~RequestEdit(e)
      <3>1. /\ UNCHANGED games /\ edit[e].pc \in {"locks", "read", "drop"}
            /\ edit'[e].kind = edit[e].kind /\ edit'[e].ids = edit[e].ids
            /\ edit'[e].before = edit[e].before
        BY <1>3, <2>2, EditMoves
      <3> QED BY <1>3, <3>1 DEF BeforeInv
    <2> QED BY <2>1, <2>2
  <1> QED BY <1>2, <1>3

\* The list of a request is about its games, and has nothing it wants.
LEMMA ToDropUnwanted ==
    ASSUME NEW e \in Edit, NEW u \in ToDrop(e), TypeOK
    PROVE  u.game \in edit[e].ids /\ u.kind \notin Wants(stored, Edited(e)[u.game])
  <1>1. CASE edit[e].kind = "select"
    BY <1>1 DEF ToDrop
  <1>2. CASE edit[e].kind = "deselect"
    <2>1. SelectedOnly(stored) /\ u \in ActiveFiles(edit[e].ids)
      BY <1>2 DEF ToDrop
    <2>2. u.game \in edit[e].ids /\ u.game \in Game
      BY <2>1 DEF ActiveFiles, Dropped
    <2>. DEFINE R == Edited(e)[u.game]
    <2>3. R = [games[u.game] EXCEPT !.selected = FALSE] /\ games[u.game] \in GameRow
      BY <1>2, <2>2 DEF Edited, TypeOK
    <2>4. ~R.selected
      BY <2>3 DEF GameRow
    <2>. HIDE DEF R
    <2>5. Wants(stored, R) = {}
      BY <2>1, <2>4 DEF Wants, WantsGame
    <2> QED BY <2>2, <2>5 DEF R
  <1>3. CASE edit[e].kind \notin {"select", "deselect"}
    BY <1>3 DEF ToDrop, Unwanted, ActiveFiles
  <1> QED BY <1>1, <1>2, <1>3

LEMMA EditDrops ==
    ASSUME Patient, TypeOK, SyncsLast, KnownInv, HeldInv, DropInv, MissingInv, NEW e \in Edit,
           RequestEdit(e) \/ EditStep(e) \/ HangUpEdit(e) \/ Expire(e)
    PROVE  DropInv'
  <1>1. /\ UNCHANGED stored
        /\ \A f \in Edit : edit[f].ids \subseteq Listed /\ Listed \subseteq Game
    BY EditWork DEF KnownInv, Listed
  <1>. DEFINE Drops(f) ==
         /\ \A u \in edit'[f].list : u.game \in edit'[f].ids
         /\ \A g \in edit'[f].ids :
              \/ Coming(g)'
              \/ /\ Wants(stored, games'[g]) \cap Wants(stored, Edited(f)'[g]) \subseteq tracked'[g]
                 /\ \A u \in edit'[f].list :
                      u.game = g => u.kind \notin Wants(stored, Edited(f)'[g])
  <1>2. ASSUME NEW f \in Edit \ {e}, edit'[f].pc = "drop" PROVE Drops(f)
    <2>1. edit'[f] = edit[f]
      BY EditWork
    <2>2. ASSUME NEW g \in edit[f].ids
          PROVE  /\ games'[g] = games[g] /\ tracked'[g] = tracked[g]
                 /\ Edited(f)'[g] = Edited(f)[g]
                 /\ Coming(g) => Coming(g)'
      <3>1. g \in Game /\ lock[g] = f
        BY <1>1, <1>2, <2>1 DEF HeldInv
      <3>2. games'[g] = games[g] /\ tracked'[g] = tracked[g]
        BY <3>1, EditKeepsOut
      <3>3. Edited(f)'[g] = Edited(f)[g]
        BY <2>1, <3>1, <3>2 DEF Edited
      <3> QED BY <3>1, <3>2, <3>3, EditComing
    <2> QED BY <1>2, <2>1, <2>2 DEF DropInv
  <1>3. ASSUME edit'[e].pc = "drop" PROVE Drops(e)
    <2>1. /\ UNCHANGED games /\ edit'[e].kind = edit[e].kind /\ edit'[e].ids = edit[e].ids
      BY <1>3, EditMoves, EditRequests
    <2>2. Edited(e)' = Edited(e)
      BY <2>1 DEF Edited
    <2>3. CASE ListFiles(e)
      <3>0. edit[e].pc = "read"
        BY <2>3 DEF ListFiles
      <3>1. /\ UNCHANGED tracked /\ edit[e].pc = "read" /\ edit'[e].list = ToDrop(e)
        BY <1>3, <3>0, EditMoves, EditRequests
      <3>2. ASSUME NEW g \in edit[e].ids
            PROVE  Coming(g)' \/ Wants(stored, games[g]) \subseteq tracked[g]
        <4>1. g \in Listed /\ g \in Game /\ lock[g] = e
          BY <1>1, <3>1 DEF HeldInv
        <4>2. \A f \in Edit : edit[f].pc = "drop" => g \notin edit[f].ids
          BY <3>1, <4>1 DEF HeldInv
        <4> QED BY <4>1, <4>2, EditComing DEF MissingInv
      <3> QED BY <2>1, <2>2, <3>1, <3>2, ToDropUnwanted
    <2>4. CASE DropForEdit(e)
      <3>0. edit[e].pc = "drop"
        BY <2>4 DEF DropForEdit
      <3>1. PICK u \in edit[e].list : /\ edit'[e].list = edit[e].list \ {u}
                                      /\ DropFile(u, edit[e].answer) /\ edit[e].pc = "drop"
        BY <1>3, <3>0, EditMoves, EditRequests
      <3>2. ASSUME NEW g \in edit[e].ids, ~Coming(g)'
            PROVE  /\ Wants(stored, games[g]) \cap Wants(stored, Edited(e)[g]) \subseteq tracked'[g]
                   /\ \A v \in edit[e].list :
                        v.game = g => v.kind \notin Wants(stored, Edited(e)[g])
        <4>1. g \in Game /\ ~Coming(g)
          BY <1>1, <3>2, EditComing
        <4>2. /\ Wants(stored, games[g]) \cap Wants(stored, Edited(e)[g]) \subseteq tracked[g]
              /\ \A v \in edit[e].list :
                   v.game = g => v.kind \notin Wants(stored, Edited(e)[g])
          BY <3>1, <4>1 DEF DropInv
        <4>3. tracked'[g] = IF u.game = g THEN tracked[g] \ {u.kind} ELSE tracked[g]
          BY <3>1, <4>1 DEF DropFile, TypeOK
        <4> QED BY <4>2, <4>3
      <3> QED BY <2>1, <2>2, <3>1, <3>2 DEF DropInv
    <2> QED BY <1>3, <2>3, <2>4, EditMoves, EditRequests
  <1> QED BY <1>1, <1>2, <1>3 DEF DropInv

LEMMA EditMissing ==
    ASSUME Patient, TypeOK, SyncsLast, KnownInv, HeldInv, BeforeInv, DropInv, MissingInv,
           NEW e \in Edit, RequestEdit(e) \/ EditStep(e) \/ HangUpEdit(e) \/ Expire(e)
    PROVE  MissingInv'
  <1>1. /\ UNCHANGED stored /\ Listed \subseteq Game
        /\ \A f \in Edit \ {e} : edit'[f] = edit[f]
    BY EditWork DEF Listed
  <1>2. Listed' = Listed
    BY EditWork, StoredRows DEF Listed
  <1>. SUFFICES ASSUME NEW g \in Listed, ~Coming(g)'
                PROVE  \/ Wants(stored, games'[g]) \subseteq tracked'[g]
                       \/ \E f \in Edit : edit'[f].pc = "drop" /\ g \in edit'[f].ids
    BY <1>1, <1>2 DEF MissingInv
  <1>3. g \in Game /\ ~Coming(g)
    BY <1>1, EditComing
  <1>4. CASE \E f \in Edit \ {e} : edit[f].pc = "drop" /\ g \in edit[f].ids
    BY <1>1, <1>4
  <1>5. CASE edit[e].pc = "drop" /\ g \in edit[e].ids
    <2>1. CASE edit'[e].pc = "drop"
      <3>1. edit'[e].ids = edit[e].ids
        BY <1>5, <2>1, EditMoves, EditRequests
      <3> QED BY <1>5, <2>1, <3>1
    <2>2. CASE edit'[e].pc # "drop"
      <3>1. /\ UNCHANGED tracked /\ games'[g] = Edited(e)[g]
            /\ edit'[e].pc = "after" /\ edit'[e].kind = edit[e].kind
            /\ edit'[e].ids = edit[e].ids /\ edit'[e].before = edit[e].before
        BY <1>5, <2>2, EditMoves, EditRequests
      <3>2. ~SyncsAfter(e)
        <4>1. SyncsAfter(e) => SyncsAfter(e)'
          BY <1>1, <3>1 DEF SyncsAfter
        <4> QED BY <1>5, <3>1, <4>1 DEF Coming
      <3>3. Wants(stored, Edited(e)[g]) \subseteq Wants(stored, games[g])
        BY <1>5, <3>2, EditSyncs DEF BeforeInv
      <3>4. Wants(stored, games[g]) \cap Wants(stored, Edited(e)[g]) \subseteq tracked[g]
        BY <1>3, <1>5 DEF DropInv
      <3> QED BY <3>1, <3>3, <3>4
    <2> QED BY <2>1, <2>2
  <1>6. CASE /\ Wants(stored, games[g]) \subseteq tracked[g]
             /\ edit[e].pc = "drop" => g \notin edit[e].ids
    <2>1. games'[g] = games[g]
      BY <1>3, <1>6, EditWork, StoredRows DEF StoreEdit
    <2>2. tracked'[g] = tracked[g]
      <3>1. CASE UNCHANGED tracked
        BY <3>1
      <3>2. ASSUME NEW u \in edit[e].list, DropFile(u, edit[e].answer), edit[e].pc = "drop"
            PROVE  tracked'[g] = tracked[g]
        <4>1. u.game # g
          BY <1>6, <3>2 DEF DropInv
        <4> QED BY <1>3, <3>2, <4>1 DEF DropFile, TypeOK
      <3> QED BY <3>1, <3>2, EditMoves
    <2> QED BY <1>6, <2>1, <2>2
  <1> QED BY <1>3, <1>4, <1>5, <1>6 DEF MissingInv

LEMMA EditCome ==
    ASSUME Patient, ReadOnce, TypeOK, SyncsLast, AskedInv, KnownInv, HeldInv, ComeInv,
           NEW e \in Edit, RequestEdit(e) \/ EditStep(e) \/ HangUpEdit(e) \/ Expire(e)
    PROVE  ComeInv'
  <1>1. UNCHANGED <<stored, trigger, full, change, pauser>>
    BY EditWork
  <1>2. StoppersInv' /\ ModeInv'
    BY <1>1 DEF ComeInv, StoppersInv, ModeInv, NeedsSync
  <1>3. FollowedInv'
    <2>1. Promised' <=> Promised
      BY <1>1 DEF Promised, NeedsSync
    <2> QED BY <1>1, <2>1 DEF ComeInv, FollowedInv
  <1>4. PlannedInv' /\ BeforeInv' /\ DropInv' /\ MissingInv'
    BY EditPlanned, EditBefore, EditDrops, EditMissing DEF ComeInv
  <1> QED BY <1>2, <1>3, <1>4 DEF ComeInv

-----------------------------------------------------------------------------
(* And the rest.                                                           *)

LEMMA RestCome ==
    ASSUME TypeOK, PlanInv, KnownInv, ComeInv,
           \/ \E p \in Pauser : ReadPaused(p) \/ WritePaused(p) \/ ConfigurePaused(p)
           \/ \E g \in Game : Buy(g)
           \/ \E g \in Game, k \in Kind : Download(g, k)
           \/ UNCHANGED vars
    PROVE  ComeInv'
  <1>1. UNCHANGED <<games, tracked, trigger, full, job, change, edit>>
    BY DEF ReadPaused, WritePaused, ConfigurePaused, Buy, Download, vars, library, requests
  <1>2. SamePlan(stored', stored)
    BY SamePlanAlways DEF ReadPaused, WritePaused, ConfigurePaused, Buy, Download, vars,
       library, PlanInv
  <1>3. Promised' <=> Promised
    BY <1>1 DEF Promised, NeedsSync
  <1>4. StoppersInv'
    BY <1>1 DEF ComeInv, StoppersInv, NeedsSync
  <1>5. FollowedInv' /\ PlannedInv' /\ BeforeInv' /\ DropInv' /\ MissingInv'
    BY <1>1, <1>2, <1>3, QuietCome
  <1>6. ModeInv'
    <2>. SUFFICES ASSUME "optin" \in EditKinds
                  PROVE  /\ ~SelectsNewGames(stored')
                         /\ \A p \in Pauser : ~SelectsNewGames(pauser'[p].new)
      BY <1>1 DEF ComeInv, ModeInv
    <2>1. ~SelectsNewGames(stored) /\ \A p \in Pauser : ~SelectsNewGames(pauser[p].new)
      BY DEF ComeInv, ModeInv
    <2>2. ~SelectsNewGames(stored')
      BY <1>2, <2>1 DEF SelectsNewGames, SamePlan
    <2>3. ASSUME NEW p \in Pauser PROVE ~SelectsNewGames(pauser'[p].new)
      <3>1. /\ pauser \in [Pauser -> PauseRequest] /\ stored \in SettingsRecord
        BY DEF TypeOK
      <3>2. CASE UNCHANGED pauser
        BY <2>1, <3>2
      <3>3. ASSUME NEW q \in Pauser, ReadPaused(q) PROVE ~SelectsNewGames(pauser'[p].new)
        <4>1. PICK flag \in BOOLEAN :
                pauser' = [pauser EXCEPT ![q].pc = "write",
                                         ![q].new = [stored EXCEPT !.paused = flag]]
          BY <3>3 DEF ReadPaused
        <4>2. [stored EXCEPT !.paused = flag].mode = stored.mode
          BY <3>1 DEF SettingsRecord
        <4>3. pauser'[p].new \in {pauser[p].new, [stored EXCEPT !.paused = flag]}
          BY <3>1, <4>1 DEF PauseRequest
        <4> QED BY <2>1, <4>2, <4>3 DEF SelectsNewGames
      <3>4. ASSUME NEW q \in Pauser, WritePaused(q) \/ ConfigurePaused(q)
            PROVE  ~SelectsNewGames(pauser'[p].new)
        <4>1. pauser'[p].new = pauser[p].new
          BY <3>1, <3>4 DEF WritePaused, ConfigurePaused, PauseRequest
        <4> QED BY <2>1, <4>1
      <3> QED BY <3>2, <3>3, <3>4 DEF Buy, Download, vars, requests
    <2> QED BY <2>2, <2>3
  <1> QED BY <1>4, <1>5, <1>6 DEF ComeInv

LEMMA InitCome == ASSUME ReadOnce PROVE Init => ComeInv
  <1>. SUFFICES ASSUME Init PROVE ComeInv
    OBVIOUS
  <1>1. StoppersInv
    BY DEF Init, StoppersInv, NewChange
  <1>2. FollowedInv /\ PlannedInv
    BY DEF Init, FollowedInv, PlannedInv, Working, NoJob
  <1>3. ModeInv
    BY DEF Init, ModeInv, ReadOnce, NoFull, NewChange, NewPause
  <1>4. BeforeInv /\ DropInv
    BY DEF Init, BeforeInv, DropInv, NewEdit
  <1>5. MissingInv
    BY DEF Init, MissingInv, Listed, NoGameRow
  <1> QED BY <1>1, <1>2, <1>3, <1>4, <1>5 DEF ComeInv

LEMMA ComeKept ==
    ASSUME OneAuthor, Patient, Answered, ReadOnce
    PROVE  ExclusionInv /\ LockInv /\ PlanInv /\ WantedInv /\ AskedInv /\ ComeInv /\ [Next]_vars
             => ComeInv'
  <1>. SUFFICES ASSUME ExclusionInv, LockInv, PlanInv, WantedInv, AskedInv, ComeInv,
                       [Next]_vars
                PROVE  ComeInv'
    OBVIOUS
  <1>1. /\ TypeOK /\ SyncsLast /\ PlansAreCurrent /\ KnownInv /\ HeldInv /\ ChangesInv
        /\ SettledInv /\ WorkersBelongToFull
    BY DEF LockInv, PlanInv, WantedInv, ExclusionInv
  <1>2. CASE TriggeredSync \/ DueSync \/ FullStep \/ Relogin
    BY <1>1, <1>2, FullCome
  <1>3. ASSUME NEW j \in Job, JobStep(j) PROVE ComeInv'
    BY <1>1, <1>3, JobCome
  <1>4. ASSUME NEW c \in Change, PutSettings(c) \/ ChangeStep(c) \/ HangUp(c)
        PROVE  ComeInv'
    BY <1>1, <1>4, ChangeCome
  <1>5. ASSUME NEW e \in Edit, RequestEdit(e) \/ EditStep(e) \/ HangUpEdit(e) \/ Expire(e)
        PROVE  ComeInv'
    BY <1>1, <1>5, EditCome
  <1>6. CASE \/ \E p \in Pauser : ReadPaused(p) \/ WritePaused(p) \/ ConfigurePaused(p)
             \/ \E g \in Game : Buy(g)
             \/ \E g \in Game, k \in Kind : Download(g, k)
             \/ UNCHANGED vars
    BY <1>1, <1>6, RestCome
  <1> QED BY <1>2, <1>3, <1>4, <1>5, <1>6 DEF Next

\* When everything is through, no sync is to come and no request drops files.
LEMMA AtRestComplete == ComeInv => WantedIsTracked
  <1>. SUFFICES ASSUME ComeInv, AtRest, NEW g \in Listed
                PROVE  Wants(stored, games[g]) \subseteq tracked[g]
    BY DEF WantedIsTracked
  <1>1. ~Coming(g)
    BY DEF AtRest, Coming, Later, Promised
  <1>2. \A e \in Edit : edit[e].pc # "drop"
    BY DEF AtRest
  <1> QED BY <1>1, <1>2 DEF ComeInv, MissingInv

\* The other half: once everything is through, all that is wanted of a listed game is
\* tracked, with no need of a further sync.  Whatever makes more files wanted is
\* followed by a sync that reads it: a change asks for a full one when it has stored
\* the plan, a request on games syncs those that it made want more, and who loses a
\* sync to a change or to a logout gets another.
THEOREM WantedGetsTracked ==
    ASSUME OneAuthor, Patient, Answered, ReadOnce
    PROVE  Spec => []WantedIsTracked
  <1>1. Unfailing
    BY DEF Patient, Unfailing
  <1>2. Spec => []PlanInv
    BY InitPlan, PlanKept, ExclusionHolds, PTL DEF Spec
  <1>3. Spec => []WantedInv
    BY InitWanted, WantedKept, ExclusionHolds, LocksHold, <1>1, <1>2, PTL DEF Spec
  <1>4. Spec => []AskedInv
    BY InitListing, AskedKept, TypeCorrect, PTL DEF Spec
  <1>5. Spec => []ComeInv
    BY InitCome, ComeKept, ExclusionHolds, LocksHold, <1>2, <1>3, <1>4, PTL DEF Spec
  <1> QED BY <1>5, AtRestComplete, PTL
=============================================================================
