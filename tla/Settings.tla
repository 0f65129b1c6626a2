------------------------------ MODULE Settings ------------------------------
(***************************************************************************)
(* What the user asks for, and the syncs that plan by it                   *)
(* (internal/library/sync.go, settings.go; the handlers of                 *)
(* internal/server/server.go that call them).  The settings are stored as  *)
(* a whole, a game carries its own selection and opt-ins, and files are    *)
(* tracked by whichever sync planned them last; who may look at what, and  *)
(* when, is ruled by planSem, by one lock per game, and by cancelling      *)
(* syncs and waiting for them.                                             *)
(*                                                                         *)
(*   full       the scheduler's full sync: lists the library, then syncs   *)
(*              every game in a goroutine of its own                       *)
(*   job j      a sync of one game: of the full sync (j is the game) or of *)
(*              a request (j is the request)                               *)
(*   change c   a request that stores settings (ApplySettings)             *)
(*   edit e     a request on games: selection, options, "sync now"; it     *)
(*              goes on in the background with syncs of those games        *)
(*   pauser p   a request that pauses or resumes downloads                 *)
(*                                                                         *)
(* Setup is complete and there is a GOG session.  A game has an installer  *)
(* and extras, the settings say whether extras are wanted; that stands for *)
(* every choice of content.  A row is named by its game and kind.  What    *)
(* becomes of transfers and partial files is in Downloader.                *)
(***************************************************************************)
EXTENDS Integers

CONSTANTS
    Game,      \* game ids
    Bought,    \* the games in the account when the model begins
    Change,    \* requests that store settings, once each
    Edit,      \* requests on games, once each
    Pauser,    \* requests that pause or resume, once each
    Nobody,    \* no holder
    Full,      \* names the full sync where syncs are waited for
    NewSettings, \* what a change may store
    FirstSettings, \* what the setup wizard stored
    Answers,   \* what a request says about downloaded files
    EditKinds, \* "select", "deselect", "optin", "optout", "sync"
    IdSets,    \* the games one request names
    Ops        \* what the surroundings do in this instance

ASSUME GameAssumption == Game \subseteq Int /\ Bought \subseteq Game
ASSUME ProcessAssumption ==
    /\ Nobody \notin Game \cup Edit \cup Change
    /\ Edit \cap Game = {}
    /\ Full \notin Game \cup Edit

Kind == {"installer", "extra"}
Mode == {"all", "selected", "selected_new"}
SettingsRecord == [mode: Mode, extras: BOOLEAN, paused: BOOLEAN]

ASSUME SettingsAssumption ==
    /\ NewSettings \subseteq SettingsRecord
    /\ FirstSettings \in SettingsRecord
ASSUME RequestAssumption ==
    /\ Answers \subseteq {"none", "keep", "delete"}
    /\ EditKinds \subseteq {"select", "deselect", "optin", "optout", "sync"}
    /\ IdSets \subseteq SUBSET Game

\* A row of the table games: is there one, and the two choices it carries.
GameRow == [listed: BOOLEAN, selected: BOOLEAN, extras: BOOLEAN]

VARIABLES
    account,  \* the games GOG lists
    stored,   \* the settings in the database
    games,    \* the table games
    tracked,  \* the active rows of each game, by kind
    copies,   \* the rows of each game, active or not, with a downloaded copy
    live,     \* the pause flag the download queue was last given
    trigger,  \* Scheduler.trigger holds a request for a full sync
    sem,      \* the holder of planSem
    lock,     \* the holder of each game's lock
    full,     \* the full sync
    job,      \* the syncs of single games
    change, edit, pauser  \* the requests

vars == <<account, stored, games, tracked, copies, live, trigger, sem, lock,
          full, job, change, edit, pauser>>

Job == Game \cup Edit

FullSync == [pc: {"idle", "plan", "list", "rows", "select", "details"},
             cancelled: BOOLEAN, snap: SettingsRecord, selectNew: BOOLEAN,
             todo: SUBSET Game, at: Game \cup {Nobody}]
NoFull == [pc |-> "idle", cancelled |-> FALSE, snap |-> FirstSettings,
           selectNew |-> FALSE, todo |-> {}, at |-> Nobody]

\* todo are the planned kinds it has yet to upsert, keep those it will leave
\* active in the end.
GameSync == [pc: {"idle", "plan", "owned", "lock", "fetch", "upsert", "others"},
             cancelled: BOOLEAN, snap: SettingsRecord, game: Game \cup {Nobody},
             todo: SUBSET Kind, keep: SUBSET Kind]
NoJob == [pc |-> "idle", cancelled |-> FALSE, snap |-> FirstSettings,
          game |-> Nobody, todo |-> {}, keep |-> {}]

\* A tracked file that is no longer wanted, and whether it was downloaded.
Dropped == [game: Game, kind: Kind, had: BOOLEAN]

\* old is what the handler read before it called ApplySettings; stopped are
\* the syncs the change cancelled, awaits those it still waits for.
ChangeRequest ==
    [pc: {"new", "ask", "compare", "sem", "full", "games", "again", "drop",
          "configure", "done"},
     new: SettingsRecord, old: SettingsRecord, answer: {"none", "keep", "delete"},
     list: SUBSET Dropped, stopped: SUBSET (Edit \cup {Full}),
     awaits: SUBSET (Edit \cup {Full}), result: {"none", "refused", "gone", "stored"}]
NewChange == [pc |-> "new", new |-> FirstSettings, old |-> FirstSettings,
              answer |-> "none", list |-> {}, stopped |-> {}, awaits |-> {},
              result |-> "none"]

\* before is the game as the handler read it, left the games yet to sync.
EditRequest ==
    [pc: {"new", "locks", "read", "drop", "set", "after", "sync", "done"},
     kind: {"select", "deselect", "optin", "optout", "sync"}, ids: SUBSET Game,
     answer: {"none", "keep", "delete"}, list: SUBSET Dropped,
     before: GameRow, left: SUBSET Game]
NoGameRow == [listed |-> FALSE, selected |-> FALSE, extras |-> FALSE]
NewEdit == [pc |-> "new", kind |-> "sync", ids |-> {}, answer |-> "none",
            list |-> {}, before |-> NoGameRow, left |-> {}]

PauseRequest == [pc: {"new", "write", "configure", "done"}, new: SettingsRecord]
NewPause == [pc |-> "new", new |-> FirstSettings]

TypeOK ==
    /\ account \subseteq Game
    /\ stored \in SettingsRecord
    /\ games \in [Game -> GameRow]
    /\ tracked \in [Game -> SUBSET Kind]
    /\ copies \in [Game -> SUBSET Kind]
    /\ live \in BOOLEAN
    /\ trigger \in BOOLEAN
    /\ sem \in Change \cup {Nobody}
    /\ lock \in [Game -> Job \cup {Nobody}]
    /\ full \in FullSync
    /\ job \in [Job -> GameSync]
    /\ change \in [Change -> ChangeRequest]
    /\ edit \in [Edit -> EditRequest]
    /\ pauser \in [Pauser -> PauseRequest]

\* The wizard is through: nothing is listed yet and a first sync is asked for.
Init ==
    /\ account = Bought
    /\ stored = FirstSettings
    /\ games = [g \in Game |-> NoGameRow]
    /\ tracked = [g \in Game |-> {}]
    /\ copies = [g \in Game |-> {}]
    /\ live = FirstSettings.paused
    /\ trigger = TRUE
    /\ sem = Nobody
    /\ lock = [g \in Game |-> Nobody]
    /\ full = NoFull
    /\ job = [j \in Job |-> NoJob]
    /\ change = [c \in Change |-> NewChange]
    /\ edit = [e \in Edit |-> NewEdit]
    /\ pauser = [p \in Pauser |-> NewPause]

library  == <<stored, games, tracked, copies>>
requests == <<edit, pauser>>

-----------------------------------------------------------------------------
(* What the settings want.                                                 *)

SamePlan(s, o) == s.mode = o.mode /\ s.extras = o.extras

SelectedOnly(s) == s.mode \in {"selected", "selected_new"}
\* (mutant: the mode that only downloads selected games selects new ones)
SelectsNewGames_other_mode(s) == s.mode = "selected"
SelectsNewGames(s) == s.mode = "selected_new"

WantsGame(s, gm) == ~SelectedOnly(s) \/ gm.selected

\* Plan for a game, and unwantedReason turned round: ForGame adds its opt-ins.
Wants(s, gm) ==
    IF ~WantsGame(s, gm) THEN {}
    ELSE {"installer"} \cup (IF s.extras \/ gm.extras THEN {"extra"} ELSE {})

\* ListActiveFiles of the games G, each with whether there is a copy of it.
ActiveFiles(G) ==
    {f \in Dropped : /\ f.game \in G /\ f.kind \in tracked[f.game]
                     /\ f.had = (f.kind \in copies[f.game])}

\* The tracked files of G that s does not want, if the games were as rows says.
Unwanted(G, s, rows) ==
    {f \in ActiveFiles(G) : f.kind \notin Wants(s, rows[f.game])}

\* confirmRemoval: downloaded files are affected and nobody said what to do.
Unanswered(list, answer) == answer = "none" /\ \E u \in list : u.had

\* dropFiles, one file: its row goes with its copy, or stays as inactive.
DropFile(u, answer) ==
    /\ tracked' = [tracked EXCEPT ![u.game] = @ \ {u.kind}]
    /\ copies' = IF u.had /\ answer # "delete" THEN copies
                 ELSE [copies EXCEPT ![u.game] = @ \ {u.kind}]

-----------------------------------------------------------------------------
(* The full sync.                                                          *)

StartFull ==
    /\ full.pc = "idle"
    /\ full' = [NoFull EXCEPT !.pc = "plan"]
    /\ UNCHANGED <<account, library, live, sem, lock, job, change, requests>>

\* The scheduler starts a sync because a change, a login or the wizard asked for
\* one; or because it is time, or the user asked (handleSync).
TriggeredSync == trigger /\ trigger' = FALSE /\ StartFull
DueSync == "due" \in Ops /\ StartFull /\ UNCHANGED trigger

\* Whoever waits in CancelAndWait for this run goes on.
EndFull ==
    /\ full' = NoFull
    /\ change' = [c \in Change |-> [change[c] EXCEPT !.awaits = @ \ {Full}]]

\* lockPlan, GetSettings, unlockPlan: nothing else can be read in between.
PlanFull ==
    /\ full.pc = "plan" /\ ~full.cancelled
    /\ sem = Nobody
    /\ full' = [full EXCEPT !.pc = "list", !.snap = stored]
    /\ UNCHANGED <<account, library, live, trigger, sem, lock, job, change, requests>>

Listed == {g \in Game : games[g].listed}

\* (mutant: an empty library is no exception)
SelectNew_first_listing(s, known) == SelectsNewGames(s)
\* Games seen for the first time are selected, but not on the first listing.
SelectNew(s, known) == SelectsNewGames(s) /\ known # {}

\* OwnedIDs, ListGames, GameIDs.
ListGames ==
    /\ full.pc = "list" /\ ~full.cancelled
    /\ full' = [full EXCEPT !.pc = "rows", !.todo = account,
                            !.selectNew = SelectNew(full.snap, Listed)]
    /\ UNCHANGED <<account, library, live, trigger, sem, lock, job, change, requests>>

\* A game can only be new here if it was new when GameIDs was read: nothing
\* else inserts games.
UpsertGame(g) ==
    /\ full.pc = "rows" /\ ~full.cancelled /\ g \in full.todo
    /\ games' = [games EXCEPT ![g].listed = TRUE]
    /\ full' = [full EXCEPT !.todo = @ \ {g}, !.at = g,
                            !.pc = IF full.selectNew /\ ~games[g].listed
                                   THEN "select" ELSE "rows"]
    /\ UNCHANGED <<account, stored, tracked, copies, live, trigger, sem, lock, job,
                   change, requests>>

SelectGame ==
    /\ full.pc = "select" /\ ~full.cancelled
    /\ games' = [games EXCEPT ![full.at].selected = TRUE]
    /\ full' = [full EXCEPT !.pc = "rows"]
    /\ UNCHANGED <<account, stored, tracked, copies, live, trigger, sem, lock, job,
                   change, requests>>

\* MarkGamesNotOwned; the games listed at GOG are those to sync.
RowsDone ==
    /\ full.pc = "rows" /\ ~full.cancelled /\ full.todo = {}
    /\ full' = [full EXCEPT !.pc = "details", !.todo = Listed \cap account]
    /\ UNCHANGED <<account, library, live, trigger, sem, lock, job, change, requests>>

\* One of the goroutines of the loop over the games.
StartJob(g) ==
    /\ full.pc = "details" /\ ~full.cancelled /\ g \in full.todo
    /\ full' = [full EXCEPT !.todo = @ \ {g}]
    /\ job' = [job EXCEPT ![g] = [NoJob EXCEPT !.pc = "lock", !.snap = full.snap,
                                               !.game = g]]
    /\ UNCHANGED <<account, library, live, trigger, sem, lock, change, requests>>

JobsDone == \A g \in Game : job[g].pc = "idle"

\* wg.Wait, finish.
FinishFull ==
    /\ full.pc = "details" /\ JobsDone
    /\ full.todo = {} \/ full.cancelled
    /\ EndFull
    /\ UNCHANGED <<account, library, live, trigger, sem, lock, job, requests>>

\* (mutant: the wait for planSem does not look at the context)
EndsWithContext_but_planSem(pc) ==
    pc \in {"list", "rows", "select", "owned", "fetch", "upsert", "others"}
\* Waits, statements and requests return when the sync's context is cancelled;
\* only the wait for a game's lock does not.
EndsWithContext(pc) ==
    pc \in {"plan", "list", "rows", "select", "owned", "fetch", "upsert", "others"}

\* The sync was cancelled, or a statement or a request fails.
AbandonFull ==
    /\ EndsWithContext(full.pc)
    /\ full.cancelled \/ "fail" \in Ops
    /\ EndFull
    /\ UNCHANGED <<account, library, live, trigger, sem, lock, job, requests>>

FullStep == \/ PlanFull \/ ListGames \/ SelectGame \/ RowsDone \/ FinishFull
            \/ AbandonFull \/ \E g \in Game : UpsertGame(g) \/ StartJob(g)

-----------------------------------------------------------------------------
(* A sync of one game.                                                     *)

Cancelled(j) == IF j \in Edit THEN job[j].cancelled ELSE full.cancelled

\* The locks as they are once x let go of its own.
Unlocked(x) == [g \in Game |-> IF lock[g] = x THEN Nobody ELSE lock[g]]

\* The game's lock is released, and whoever waits in stopGameSyncs goes on.
EndJob(j) ==
    /\ job' = [job EXCEPT ![j] = NoJob]
    /\ lock' = Unlocked(j)
    /\ change' = [c \in Change |-> [change[c] EXCEPT !.awaits = @ \ {j}]]

\* SyncGame: the settings, not while a change is storing them.
PlanJob(j) ==
    /\ job[j].pc = "plan" /\ ~Cancelled(j)
    /\ sem = Nobody
    /\ job' = [job EXCEPT ![j].pc = "owned", ![j].snap = stored]
    /\ UNCHANGED <<account, library, live, trigger, sem, lock, full, change, requests>>

OwnedIDs(j) ==
    /\ job[j].pc = "owned" /\ ~Cancelled(j)
    /\ job' = [job EXCEPT ![j].pc = "lock"]
    /\ UNCHANGED <<account, library, live, trigger, sem, lock, full, change, requests>>

\* syncGame: a lock that cannot be cancelled, then GetGame.  What the settings
\* and the game's row want is settled by what was read here.
LoadGame(j) ==
    LET g == job[j].game
        kinds == Wants(job[j].snap, games[g])
    IN  /\ job[j].pc = "lock" /\ lock[g] = Nobody
        /\ lock' = [lock EXCEPT ![g] = j]
        /\ job' = [job EXCEPT ![j].todo = kinds,
                              ![j].pc = IF kinds = {} THEN "others" ELSE "fetch"]
        /\ UNCHANGED <<account, library, live, trigger, sem, full, change, requests>>

\* ProductDetails and Plan; GOG offers every kind.
FetchDetails(j) ==
    /\ job[j].pc = "fetch" /\ ~Cancelled(j)
    /\ job' = [job EXCEPT ![j].pc = "upsert"]
    /\ UNCHANGED <<account, library, live, trigger, sem, lock, full, change, requests>>

UpsertFile(j) ==
    /\ job[j].pc = "upsert" /\ ~Cancelled(j)
    /\ \E k \in job[j].todo :
        /\ tracked' = [tracked EXCEPT ![job[j].game] = @ \cup {k}]
        /\ job' = [job EXCEPT ![j].todo = @ \ {k}, ![j].keep = @ \cup {k},
                              ![j].pc = IF job[j].todo = {k} THEN "others" ELSE @]
    /\ UNCHANGED <<account, stored, games, copies, live, trigger, sem, lock, full,
                   change, requests>>

\* DeactivateOtherFiles, also for a game that is not selected.
DropOthers(j) ==
    /\ job[j].pc = "others" /\ ~Cancelled(j)
    /\ tracked' = [tracked EXCEPT ![job[j].game] = @ \cap job[j].keep]
    /\ EndJob(j)
    /\ UNCHANGED <<account, stored, games, copies, live, trigger, sem, full, requests>>

AbandonJob(j) ==
    /\ EndsWithContext(job[j].pc)
    /\ Cancelled(j) \/ "fail" \in Ops
    /\ EndJob(j)
    /\ UNCHANGED <<account, library, live, trigger, sem, full, requests>>

\* The two minutes a handler gives a sync are over, or its client went away.
Expire(e) ==
    /\ "expire" \in Ops
    /\ job[e].pc # "idle" /\ ~job[e].cancelled
    /\ job' = [job EXCEPT ![e].cancelled = TRUE]
    /\ UNCHANGED <<account, library, live, trigger, sem, lock, full, change, requests>>

JobStep(j) == \/ PlanJob(j) \/ OwnedIDs(j) \/ LoadGame(j) \/ FetchDetails(j)
              \/ UpsertFile(j) \/ DropOthers(j) \/ AbandonJob(j)

-----------------------------------------------------------------------------
(* A change of the settings.                                               *)

ChangeGoto(c, pc) == change' = [change EXCEPT ![c].pc = pc]
ReleaseSem(c) == sem' = IF sem = c THEN Nobody ELSE sem

\* handleSettingsPut, up to the call of ApplySettings.
PutSettings(c) ==
    /\ change[c].pc = "new"
    /\ \E ns \in NewSettings, a \in Answers :
        change' = [change EXCEPT ![c].pc = "ask", ![c].new = ns, ![c].answer = a,
                                 ![c].old = stored]
    /\ UNCHANGED <<account, library, live, trigger, sem, lock, full, job, requests>>

\* The request ends without a result, and with the error that says why.
EndChange(c, result) ==
    /\ change' = [change EXCEPT ![c].pc = "done", ![c].result = result,
                                ![c].list = {}, ![c].awaits = {}]
    /\ ReleaseSem(c)

\* findUnwanted and confirmRemoval.
FindUnwanted(c, from, to) ==
    LET list == Unwanted(Game, change[c].new, games)
    IN  /\ change[c].pc = from
        /\ IF Unanswered(list, change[c].answer)
           THEN EndChange(c, "refused")
           ELSE /\ change' = [change EXCEPT ![c].pc = to, ![c].list = list]
                /\ UNCHANGED sem
        /\ UNCHANGED <<account, library, live, trigger, lock, full, job, requests>>

Ask(c) == FindUnwanted(c, "ask", "compare")

\* Only a change of the plan stops the syncs.
Compare(c) ==
    /\ change[c].pc = "compare"
    /\ ChangeGoto(c, IF SamePlan(stored, change[c].new) THEN "drop" ELSE "sem")
    /\ UNCHANGED <<account, library, live, trigger, sem, lock, full, job, requests>>

LockPlan(c) ==
    /\ change[c].pc = "sem"
    /\ sem = Nobody
    /\ sem' = c
    /\ ChangeGoto(c, "full")
    /\ UNCHANGED <<account, library, live, trigger, lock, full, job, requests>>

\* CancelAndWait cancels the full sync and goes on to wait for it.
CancelFull(c) ==
    /\ change[c].pc = "full"
    /\ IF full.pc = "idle"
       THEN ChangeGoto(c, "games") /\ UNCHANGED full
       ELSE /\ full' = [full EXCEPT !.cancelled = TRUE]
            /\ change' = [change EXCEPT ![c].pc = "games", ![c].awaits = {Full},
                                        ![c].stopped = {Full}]
    /\ UNCHANGED <<account, library, live, trigger, sem, lock, job, requests>>

\* (mutant: the change does not wait for what it cancelled)
Stopped_not_awaited(c) == TRUE
\* The channels of the cancelled syncs are closed.
Stopped(c) == change[c].awaits = {}

\* (mutant: a sync is registered when it has the game's lock)
Registered_when_locked == {e \in Edit : job[e].pc \in {"fetch", "upsert", "others"}}
\* gameSyncs: a request's sync is registered from before its wait for planSem.
Registered == {e \in Edit : job[e].pc # "idle"}

\* stopGameSyncs
StopGameSyncs(c) ==
    /\ change[c].pc = "games" /\ Stopped(c)
    /\ job' = [j \in Job |-> IF j \in Registered
                             THEN [job[j] EXCEPT !.cancelled = TRUE] ELSE job[j]]
    /\ change' = [change EXCEPT ![c].pc = "again", ![c].awaits = Registered,
                                ![c].stopped = @ \cup Registered]
    /\ UNCHANGED <<account, library, live, trigger, sem, lock, full, requests>>

\* The syncs may have planned more files before they stopped.
AskAgain(c) == Stopped(c) /\ FindUnwanted(c, "again", "drop")

DropForChange(c) ==
    /\ change[c].pc = "drop"
    /\ \E u \in change[c].list :
        /\ DropFile(u, change[c].answer)
        /\ change' = [change EXCEPT ![c].list = @ \ {u}]
    /\ UNCHANGED <<account, stored, games, live, trigger, sem, lock, full, job, requests>>

\* SaveSettings, and the plan may be read again.
SaveSettings(c) ==
    /\ change[c].pc = "drop" /\ change[c].list = {}
    /\ stored' = change[c].new
    /\ change' = [change EXCEPT ![c].pc = "configure", ![c].result = "stored"]
    /\ ReleaseSem(c)
    /\ UNCHANGED <<account, games, tracked, copies, live, trigger, lock, full, job,
                   requests>>

\* (mutant: the settings are compared when they have been stored already)
NeedsSync_asks_late(c) == ~SamePlan(stored, change[c].new)
NeedsSync(c) == ~SamePlan(change[c].old, change[c].new)

\* The rest of handleSettingsPut: Configure, TriggerNow.
Configure(c) ==
    /\ change[c].pc = "configure"
    /\ live' = change[c].new.paused
    /\ trigger' = (trigger \/ NeedsSync(c))
    /\ ChangeGoto(c, "done")
    /\ UNCHANGED <<account, library, sem, lock, full, job, requests>>

\* The client goes away, which ends every wait and every statement of the
\* request up to the one that stores the settings.
HangUp(c) ==
    /\ "hangup" \in Ops
    /\ change[c].pc \in {"ask", "compare", "sem", "full", "games", "again", "drop"}
    /\ EndChange(c, "gone")
    /\ UNCHANGED <<account, library, live, trigger, lock, full, job, requests>>

ChangeStep(c) == \/ Ask(c) \/ Compare(c) \/ LockPlan(c) \/ CancelFull(c)
                 \/ StopGameSyncs(c) \/ AskAgain(c) \/ DropForChange(c)
                 \/ SaveSettings(c) \/ Configure(c)

-----------------------------------------------------------------------------
(* A request on games.                                                     *)

Only(ids) == CHOOSE g \in ids : TRUE

\* The handlers, up to the call of SetSelection, SetGameOptions or SyncGame.
\* Requests for games that are not in the library change nothing.
RequestEdit(e) ==
    /\ edit[e].pc = "new"
    /\ \E kind \in EditKinds, ids \in IdSets, a \in Answers :
        /\ ids # {} /\ \A g \in ids : games[g].listed
        /\ kind \in {"optin", "optout", "sync"} => \A g, h \in ids : g = h
        /\ edit' = [edit EXCEPT ![e] =
             [NewEdit EXCEPT !.pc = IF kind = "sync" THEN "sync" ELSE "locks",
                             !.kind = kind, !.ids = ids, !.answer = a,
                             !.before = games[Only(ids)],
                             !.left = IF kind = "sync" THEN ids ELSE {}]]
    /\ UNCHANGED <<account, library, live, trigger, sem, lock, full, job, change, pauser>>

\* (mutant: the locks are taken in the order the games were named)
InOrder_as_named(g, rest) == TRUE
InOrder(g, rest) == \A h \in rest : g <= h

LockGame(e) ==
    LET rest == {g \in edit[e].ids : lock[g] # e}
    IN  /\ edit[e].pc = "locks"
        /\ \E g \in rest :
            /\ InOrder(g, rest) /\ lock[g] = Nobody
            /\ lock' = [lock EXCEPT ![g] = e]
            /\ edit' = IF rest = {g} THEN [edit EXCEPT ![e].pc = "read"] ELSE edit
        /\ UNCHANGED <<account, library, live, trigger, sem, full, job, change, pauser>>

\* The rows as the request would leave them.
Edited(e) ==
    [g \in Game |-> IF g \notin edit[e].ids THEN games[g]
                    ELSE CASE edit[e].kind = "select"   -> [games[g] EXCEPT !.selected = TRUE]
                           [] edit[e].kind = "deselect" -> [games[g] EXCEPT !.selected = FALSE]
                           [] edit[e].kind = "optin"    -> [games[g] EXCEPT !.extras = TRUE]
                           [] edit[e].kind = "optout"   -> [games[g] EXCEPT !.extras = FALSE]
                           [] OTHER -> games[g]]

\* What the request drops.  Selecting drops nothing; deselecting drops all of
\* the games' files, but only while nothing else makes them wanted.
ToDrop(e) ==
    CASE edit[e].kind = "select" -> {}
      [] edit[e].kind = "deselect" ->
            IF SelectedOnly(stored) THEN ActiveFiles(edit[e].ids) ELSE {}
      [] OTHER -> Unwanted(edit[e].ids, stored, Edited(e))

EndEdit(e) == edit' = [edit EXCEPT ![e] = [NewEdit EXCEPT !.pc = "done"]]

\* The settings and the files are read, under the games' locks.
ListFiles(e) ==
    /\ edit[e].pc = "read"
    /\ IF Unanswered(ToDrop(e), edit[e].answer)
       THEN EndEdit(e) /\ lock' = Unlocked(e)
       ELSE /\ edit' = [edit EXCEPT ![e].pc = "drop", ![e].list = ToDrop(e)]
            /\ UNCHANGED lock
    /\ UNCHANGED <<account, library, live, trigger, sem, full, job, change, pauser>>

DropForEdit(e) ==
    /\ edit[e].pc = "drop"
    /\ \E u \in edit[e].list :
        /\ DropFile(u, edit[e].answer)
        /\ edit' = [edit EXCEPT ![e].list = @ \ {u}]
    /\ UNCHANGED <<account, stored, games, live, trigger, sem, lock, full, job, change,
                   pauser>>

\* SetGamesSelected or SetGameOptions, and the locks are let go.
StoreEdit(e) ==
    /\ edit[e].pc = "drop" /\ edit[e].list = {}
    /\ games' = Edited(e)
    /\ lock' = Unlocked(e)
    /\ edit' = [edit EXCEPT ![e].pc = "after"]
    /\ UNCHANGED <<account, stored, tracked, copies, live, trigger, sem, full, job,
                   change, pauser>>

\* (mutant: an opt-in takes effect with the next full sync)
SyncsAfter_selection_only(e) == edit[e].kind = "select" /\ SelectedOnly(stored)
\* Does the handler sync the games?  A selection asks the settings as they are
\* now; an opt-in also asks the game as it was when the request came in.
SyncsAfter(e) ==
    \/ edit[e].kind = "select" /\ SelectedOnly(stored)
    \/ /\ edit[e].kind = "optin" /\ ~edit[e].before.extras
       /\ WantsGame(stored, edit[e].before)

Reply(e) ==
    /\ edit[e].pc = "after"
    /\ edit' = [edit EXCEPT ![e].pc = "sync",
                            ![e].left = IF SyncsAfter(e) THEN edit[e].ids ELSE {}]
    /\ UNCHANGED <<account, library, live, trigger, sem, lock, full, job, change, pauser>>

\* The next game: beginGameSync.
SyncNext(e) ==
    /\ edit[e].pc = "sync" /\ job[e].pc = "idle"
    /\ \E g \in edit[e].left :
        /\ edit' = [edit EXCEPT ![e].left = @ \ {g}]
        /\ job' = [job EXCEPT ![e] = [NoJob EXCEPT !.pc = "plan", !.game = g]]
    /\ UNCHANGED <<account, library, live, trigger, sem, lock, full, change, pauser>>

SyncedAll(e) ==
    /\ edit[e].pc = "sync" /\ job[e].pc = "idle" /\ edit[e].left = {}
    /\ EndEdit(e)
    /\ UNCHANGED <<account, library, live, trigger, sem, lock, full, job, change, pauser>>

\* The client goes away: the next statement fails, the locks are let go.  Once the
\* game is stored it is the handler's look at the settings that fails, which the
\* handler takes for a library that needs no sync.
HangUpEdit(e) ==
    /\ "hangup" \in Ops
    /\ edit[e].pc \in {"read", "drop", "after"}
    /\ EndEdit(e)
    /\ lock' = Unlocked(e)
    /\ UNCHANGED <<account, library, live, trigger, sem, full, job, change, pauser>>

EditStep(e) == \/ LockGame(e) \/ ListFiles(e) \/ DropForEdit(e) \/ StoreEdit(e)
               \/ Reply(e) \/ SyncNext(e) \/ SyncedAll(e)

-----------------------------------------------------------------------------
(* The rest.                                                               *)

\* SetPaused reads the settings, writes them back with the flag, and gives
\* them to the queue.
ReadPaused(p) ==
    /\ pauser[p].pc = "new"
    /\ \E flag \in BOOLEAN :
        pauser' = [pauser EXCEPT ![p].pc = "write",
                                 ![p].new = [stored EXCEPT !.paused = flag]]
    /\ UNCHANGED <<account, library, live, trigger, sem, lock, full, job, change, edit>>

WritePaused(p) ==
    /\ pauser[p].pc = "write"
    /\ stored' = pauser[p].new
    /\ pauser' = [pauser EXCEPT ![p].pc = "configure"]
    /\ UNCHANGED <<account, games, tracked, copies, live, trigger, sem, lock, full, job,
                   change, edit>>

ConfigurePaused(p) ==
    /\ pauser[p].pc = "configure"
    /\ live' = pauser[p].new.paused
    /\ pauser' = [pauser EXCEPT ![p].pc = "done"]
    /\ UNCHANGED <<account, library, trigger, sem, lock, full, job, change, edit>>

\* A logout, which cancels the full sync, and a login to the same account, which
\* asks for another one.  The time in between, when nothing can be asked of GOG, is
\* left out.
Relogin ==
    /\ "relogin" \in Ops
    /\ full' = IF full.pc = "idle" THEN full ELSE [full EXCEPT !.cancelled = TRUE]
    /\ trigger' = TRUE
    /\ UNCHANGED <<account, library, live, sem, lock, job, change, requests>>

Download(g, k) ==
    /\ "download" \in Ops
    /\ k \in tracked[g] \ copies[g]
    /\ copies' = [copies EXCEPT ![g] = @ \cup {k}]
    /\ UNCHANGED <<account, stored, games, tracked, live, trigger, sem, lock, full, job,
                   change, requests>>

\* A game is bought, once the library has been listed for the first time.
Buy(g) ==
    /\ "buy" \in Ops
    /\ g \notin account /\ Bought \subseteq Listed
    /\ account' = account \cup {g}
    /\ UNCHANGED <<library, live, trigger, sem, lock, full, job, change, requests>>

Next ==
    \/ TriggeredSync \/ DueSync \/ FullStep \/ Relogin
    \/ \E g \in Game : Buy(g)
    \/ \E g \in Game, k \in Kind : Download(g, k)
    \/ \E j \in Job : JobStep(j)
    \/ \E c \in Change : PutSettings(c) \/ ChangeStep(c) \/ HangUp(c)
    \/ \E e \in Edit : RequestEdit(e) \/ EditStep(e) \/ HangUpEdit(e) \/ Expire(e)
    \/ \E p \in Pauser : ReadPaused(p) \/ WritePaused(p) \/ ConfigurePaused(p)

Spec == Init /\ [][Next]_vars

\* Every goroutine goes on while it can: a request to GOG ends by a timeout, and
\* a client answers or goes away.  A mutex and a channel serve those who wait in
\* turn, so a goroutine that waits for a game's lock gets it.  Nothing is assumed
\* about time, the user or GOG: no sync starts that was not asked for.
Fairness ==
    /\ WF_vars(TriggeredSync) /\ WF_vars(FullStep)
    /\ \A j \in Job : WF_vars(JobStep(j)) /\ SF_vars(LoadGame(j))
    /\ \A c \in Change : WF_vars(ChangeStep(c))
    /\ \A e \in Edit : WF_vars(EditStep(e)) /\ SF_vars(LockGame(e))
    /\ \A p \in Pauser : WF_vars(WritePaused(p) \/ ConfigurePaused(p))

FairSpec == Spec /\ Fairness

-----------------------------------------------------------------------------
(* Properties.                                                             *)

Planning(x) == x.pc \notin {"idle", "plan"}

\* While a change that alters the plan drops files and stores the settings, no
\* sync works with settings it has read: ApplySettings stopped them all, and
\* planSem keeps others from reading.
ChangeIsAlone ==
    \A c \in Change :
        sem = c /\ change[c].pc = "drop" =>
            ~Planning(full) /\ \A j \in Job : ~Planning(job[j])

\* Whatever a sync plans, it plans by the settings that are stored: none goes on
\* with a plan that has been replaced.
PlansAreCurrent ==
    /\ Planning(full) => SamePlan(full.snap, stored)
    /\ \A j \in Job : Planning(job[j]) => SamePlan(job[j].snap, stored)

AtRest ==
    /\ full.pc = "idle" /\ ~trigger
    /\ \A j \in Job : job[j].pc = "idle"
    /\ \A c \in Change : change[c].pc \in {"new", "done"}
    /\ \A e \in Edit : edit[e].pc \in {"new", "done"}
    /\ \A p \in Pauser : pauser[p].pc \in {"new", "done"}

\* When everything that was asked for is through, nothing is tracked (and so
\* downloaded) that the settings, selection and options do not want, in whatever
\* order changes, edits and syncs read and wrote them.
TrackedIsWanted ==
    AtRest => \A g \in Game : tracked[g] \subseteq Wants(stored, games[g])

\* And everything that they want of a listed game is tracked, without waiting
\* for the next scheduled sync.
WantedIsTracked ==
    AtRest => \A g \in Listed : Wants(stored, games[g]) \subseteq tracked[g]

\* The download queue runs with the pause flag that is stored.
LiveIsStored == AtRest => live = stored.paused

\* With one change of settings, what it stored stays stored (the pause flag has
\* its own requests).
SettingsStick ==
    \A c \in Change : change[c].result = "stored" => SamePlan(stored, change[c].new)

\* "A change that is refused for lack of an answer must not disturb a running
\* sync" (ApplySettings).
RefusedDisturbsNobody ==
    \A c \in Change : change[c].result = "refused" => change[c].stopped = {}

\* A downloaded file is only forgotten by a request that was told to delete it:
\* "onRemoved must be answered when downloaded files stop being wanted".
ForgottenOnlyIfTold ==
    [][\A g \in Game : copies'[g] # copies[g] /\ copies'[g] \subseteq copies[g] =>
          \/ \E c \in Change : change'[c] # change[c] /\ change[c].answer = "delete"
          \/ \E e \in Edit : edit'[e] # edit[e] /\ edit[e].answer = "delete"]_vars

\* "Games seen for the first time are selected when the settings say so, but not
\* on the first listing of a library": what was bought before stays as it was
\* (in an instance without edits).
OldGamesStayUnselected == \A g \in Bought : ~games[g].selected

\* The other half: a game bought later is selected once it is listed (in an
\* instance whose mode says so throughout).
NewGamesAreSelected == AtRest => \A g \in Listed \ Bought : games[g].selected

\* Every request comes to its end: nobody waits for ever for a lock, for planSem,
\* or for a sync that waits in turn.
RequestsEnd ==
    /\ \A c \in Change : change[c].pc = "ask" ~> change[c].pc = "done"
    /\ \A e \in Edit : edit[e].pc = "locks" ~> edit[e].pc = "done"

\* No two requests wait for each other's games.
NoCircularWait ==
    \A e, f \in {x \in Edit : edit[x].pc = "locks"} :
        ~(/\ \E g \in edit[e].ids : lock[g] = f /\ e # f
          /\ \E g \in edit[f].ids : lock[g] = e)

\* A sync that was asked for starts, and ends.
SyncsEnd == trigger ~> full.pc = "idle" /\ ~trigger

\* Once the last request is through, everything wanted gets tracked and nothing
\* else, by the syncs that were asked for alone.
Settles ==
    <>[](\A g \in Listed : tracked[g] = Wants(stored, games[g]))
=============================================================================
