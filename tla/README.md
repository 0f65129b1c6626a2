# gogl-watcher: a TLA+ verification project

gogl-watcher keeps a local copy of the offline installers, patches, extras and
cloud saves of a GOG account. One Go process polls GOG, plans which files are
wanted, downloads them into a library folder, and serves a small web UI. SQLite
holds everything that must survive a restart. This folder models the parts of
that process where goroutines, requests, statements and file operations
interleave, checks them with TLC, and proves what matters most with TLAPS.

## 1. Inventory

| part | state | operations | talks to |
|---|---|---|---|
| **file rows** `internal/db` | table `files`: status, version, link, path, previous path, attempts, back-off | upsert of a wanted file, resolve, complete, fail, defer, reset, drop, mark missing | every other part; one connection, so a statement is atomic, but no transaction spans two |
| **download queue** `internal/downloader` | `Manager`: active transfers, claimed destinations, limit, pause flag; the files and `.part` files on disk | `Run`/`fill`/`startTransfer`, `download`, `downloadSave`, `complete`, `fail`, `Cancel`, `Configure`, `SetPaused` | reads and writes rows, asks GOG, is cancelled by the sync and by settings changes |
| **library sync** `internal/library/sync.go` | running sync, its cancel function, one lock per game, `planSem`, syncs of single games, budget of re-checks | `SyncAll`, `SyncGame`, `syncGame`, `CheckMissing`, `checkBuilds`, `verifier`, `Cancel`, `CancelAndWait` | upserts and drops rows, aborts transfers through `OnDrop`, wakes the queue |
| **settings, options, selection** `internal/library/settings.go` | stored settings, a game's opt-ins and its selected flag | `ApplySettings`, `SetGameOptions`, `SetSelection`, `dropFiles` | stops syncs, drops rows, removes copies, aborts transfers |
| **plan** `plan.go`, `saves.go`, `unwantedReason` | none | which files of a game are wanted; which tracked file no longer is | pure, used by sync and settings |
| **GOG session** `internal/gog` | tokens in memory and in table `auth`, tokens of single games | login, refresh, logout, authorised requests | every request to GOG |
| **scheduler** `internal/scheduler` | two one-slot channels, the last finish | `Run`, `TriggerNow`, `Reschedule` | starts `SyncAll` |
| **log store** `internal/logstore` | a bounded channel, a writer | `Handle`, `loop`, `Close` | table `logs` |
| **server** `internal/server` | none of its own | handlers that call the parts above | all |
| **offer cache** `offer.go` | per-game cache with an age | `Offer` | GOG, options |
| **process** `cmd/gogl-watcher` | - | start, SIGTERM, close | all |

What is hard in it:

* the queue is read without the lock, rows are read before they are updated, and
  a transfer keeps the row it was started with for hours while syncs, settings
  changes and users change or drop that row;
* the disk and the database change in separate steps, and a pause, a new build,
  a drop or a crash can land between any two of them;
* two files can be planned onto one path, and a file that gets a new name leaves
  its old copy behind until the new one is in place;
* cancelling waits, with locks held, for a goroutine that is somewhere in a
  request, a statement or a read;
* a settings change must stop every sync that planned with the old settings
  without deadlocking with the locks those syncs hold;
* GOG exchanges a refresh token for a new one and refuses the old, so that an
  answer that is applied late, twice, or to the wrong session locks the user out;
* three signals that a file changed (version, Galaxy build, checksum) are published,
  read and recorded in any order, with failures in between.

What makes each part correct:

* *rows and disk*: a row that says "downloaded" names a complete file of the build
  it describes; an update never leaves a game without a copy; nothing downloaded
  is forgotten; no two rows own one file;
* *queue*: transfers are held apart by destination, hear every pause and fetch only what
  is missing; a queued file does not stay queued for ever, and a lost one is fetched again;
* *plan*: the rule that drops files by what is tracked and the plan that is made
  from GOG's listing agree on what is wanted;
* *verification*: other bytes at GOG are noticed in the end, and nothing else costs
  a download;
* *sync and settings*: once a change is through, nothing of a dropped file is in
  flight, and what is tracked is what the stored settings want;
* *session*: a refresh token is never spent twice, what is stored is what is in
  memory, a logout or another login is final for everything that began before;
* *scheduler*: a request for a sync is followed by one that saw what was stored
  before the request;
* *log store and shutdown*: the table stays small and keeps the newest records, and
  the process ends in an order that loses nothing that was on its way.

`PROJECT.json` lists every component and every hazard with its line.

## 2. Modules

| module | what it is |
|---|---|
| `FileRows` | one row of the table `files`, and what every statement does to it, as operators without state |
| `Downloader` | the queue, its transfers, the planner (a sync of a game, or a change that drops files), the handlers, the disk, GOG, stop, restart and crash; EXTENDS `FileRows` |
| `WantedFiles` | what sync and queue together promise for a file; `Downloader` implements it |
| `Settings` | what the user asks for and the syncs that plan by it: full sync, syncs of single games, changes of settings, requests on games, pauses |
| `GamePlan` | which files of a game are wanted: the plan of a sync against the rule that drops tracked files |
| `Verify` | how a sync decides that a downloaded file changed, and the volume it is on |
| `Session` | the tokens in memory and in the database, refresh, login, logout, the tokens of games |
| `Scheduler`, `LogStore` | when full syncs start; the log channel, its writer and its table |
| `Process` | EXTENDS both: the process at work, and how it is taken down |
| `MCDownloader`, `MCSettings`, `MCGamePlan`, `MCVerify`, `MCSession`, `MCProcess` | the small instances TLC checks |
| `DownloaderProofs`, `SettingsProofs`, `GamePlanProofs`, `VerifyProofs`, `SessionProofs`, `ProcessProofs` | the theorems, module by module |
| `FilesOnDiskProofs` | EXTENDS `DownloaderProofs`: what rows and transfers say about the disk is so |
| `WantedFilesProofs` | EXTENDS `FilesOnDiskProofs`: `Downloader` implements `WantedFiles` |

`Downloader`, `Settings`, `GamePlan` and `Verify` look at the table `files` from four
sides. In `Downloader` a file is wanted by whatever the planner decided, and its
transfers and bytes matter; in `Settings` a file is a row that is tracked or not, and
who decides about it, from what it read when, matters; `GamePlan` is the decision
itself; `Verify` is what becomes of a file that is wanted whenever a sync plans.

### FileRows

A row has the six fields the properties tell apart. A *build* stands for version,
link and bytes, which the model changes together; `active` and `status` are one
field because no statement makes one without the other; `next_attempt_at` is a
flag. `PlanUpsert` is `planUpsert`, rule by rule and in its order; `Upsert` is the
UPDATE around it, whose CASE looks at the row as it is *now* while everything
else comes from the row as it was *read*. `StillWants` is the WHERE clause of
`CompleteFile`.

### Downloader

| variable | in the code |
|---|---|
| `rows`, `unused` | table `files`; ids are AUTOINCREMENT, so one is never used again |
| `offered` | the build GOG offers for each file |
| `disk`, `part` | a destination and the `.part` file next to it: nothing, a build of a file, or `Mixed` bytes |
| `xfer` | `Manager.active`: per row id, where its goroutine is, the row it was given, its claim, whether its context is cancelled |
| `claimed` | `Manager.claimed` |
| `picked` | the slice `files` in `fill` |
| `paused`, `limit`, `stopping` | `Manager.paused`, `Manager.maxActive`, the context of `Run` |
| `plan` | the holder of the game's lock: what it read, what it has yet to drop and to abort, whom it waits for |
| `seen` | `onDisk` in the upsert: what it saw where the row it read has its copy |
| `sweep` | `MarkMissingDone`: the rows and paths it has listed and yet to look at, the row whose file it just missed |

A step of the model is what the code does between two points at which another
goroutine can change something it looks at:

* *runner*: `Fill` (count and read the queue), `StartTransfer` per row, which looks at the
  pause and the limit again. It does not look at the context: when that is cancelled no
  game can be read any more, so that the rest of the queue is left, but one transfer may be
  past this and starts with a context that is cancelled from the beginning;
* *transfer*: `Remote`, `ClaimPath`, `CheckOwner`, `Resolve`, `AlreadyPresent` or
  `OpenPart`, `WritePart` (up to the rename), `Complete`, `Discard` or
  `RemovePrevious`, `RecordFailure`, `Leave`; besides those `Interrupted`,
  `Broken` and `SizeMismatch`;
* *planner*: `PlanFile`, `LookForCopy` and `UpdateRow` are the SELECT of the upsert, its
  look at the disk, and its UPDATE;
  `ListDropped`, `DropRow`, `RowsDropped` are `DeactivateOtherFiles` and
  `dropFiles`; `CancelTransfer`, the wait, and `RemovePart` are `abortTransfer`;
* *sweep*: `ListDone`, `LookForFile` per row and `ResetMissing` are `MarkMissingDone`, called
  by `CheckMissing` without the game's lock. What it lists and sees may be another matter
  when it resets the row;
* *the rest*: `SetPaused`, `SetLimit`, `RetryFile`, `Vanish`, `Publish`, `BackoffOver`,
  `Stop`, `Restart`, `Crash`.

Merged or left out on purpose:

* `Fill` joins the lock section and the query: in between, transfers can only
  leave, and their ids are excluded from the query anyway. `RecordFailure` joins
  reading the attempts and writing them; `DropRow` joins removing a copy and dropping
  its row.
* Errors of SQLite and of removals do not occur, other than those of a cancelled
  context. Everything else that can fail in a transfer is `Broken` with an error that is
  retried, final (403, 404), or the session's.
* `Summed` is the set of files whose checksum is known to every transfer. `remote`
  goes on without one when it cannot be fetched; such a transfer behaves like one
  of a file outside `Summed`.
* The library folder is there and not empty (otherwise `CheckMissing` refuses).
* There is one planner. Syncs of one game and changes of its options exclude each
  other by the game's lock; a change that alters the plan excludes all syncs, which
  is what `Settings` is about.
* The verifier can overrule what the metadata says about a build; that is `Verify`.
  Here a row's build changes exactly when GOG's does.

### WantedFiles

Of each file the build that is *wanted*, the one *shown* (presented as downloaded)
and the one *kept* from before the file was dropped. `Ask`, `Deliver`, `Requeue`,
`Drop`, `Readopt` and `Lose` are all that may happen. `Downloader` maps a file to its
row (`Promised`): wanted is the build of an active row, shown the build that lies at
the path of a row that says "done", kept the build a dropped row would be taken
back with. The mapping reads the disk, so the refinement says that no step on the disk
alone, and no order of steps, shows a build that is not the wanted one. It holds as
long as nobody else removes files (`"vanish"` is not in the run) and nothing that is there
is queued again (`"retry any"` and `"check"` are not; see section 3).

### Settings

| variable | in the code |
|---|---|
| `stored` | the settings in table `kv`: download mode, extras, pause flag |
| `games` | table `games`: is there a row, is it selected, did it opt in to extras |
| `tracked`, `copies` | table `files`: active rows, and rows (active or not) with a copy on disk, each named by game and kind |
| `live` | `Manager.paused` |
| `trigger` | `Scheduler.trigger`, a channel of one slot |
| `sem`, `lock` | `Syncer.planSem` while a change has it, `Syncer.gameLocks` |
| `full` | `SyncAll`: where it is, is its context cancelled, its settings, the games to go |
| `job` | `syncGame`: one per game for the full sync, one per request; a request's is in `Syncer.gameSyncs` while it is not idle |
| `change` | `handleSettingsPut` and `ApplySettings`: new settings, the list to drop, the syncs it waits for |
| `edit` | `handleGamesSelection`, `handleGameOptions`, `handleGameSync` with the goroutine they leave behind |
| `pauser` | `SetPaused` |
| `account` | what GOG lists |

The steps are the statements, waits and requests between which another goroutine
can act:

* *full sync*: `TriggeredSync` or `DueSync`, `PlanFull` (planSem, the settings),
  `ListGames`, per game `UpsertGame` and `SelectGame`, `RowsDone`, `StartJob` per
  game, `FinishFull`; `AbandonFull` ends it early;
* *sync of a game*: `PlanJob`, `OwnedIDs` (for requests), `LoadGame` (the lock, the
  row), `FetchDetails`, `UpsertFile` per kind, `DropOthers`; `AbandonJob`, `Expire`;
* *change*: `PutSettings`, `Ask`, `Compare`, `LockPlan`, `CancelFull`,
  `StopGameSyncs`, `AskAgain`, `DropForChange` per file, `SaveSettings`,
  `Configure`; `HangUp`;
* *request on games*: `RequestEdit`, `LockGame` per game, `ListFiles`, `DropForEdit`
  per file, `StoreEdit`, `Reply`, then `SyncNext` per game and `SyncedAll`;
  `HangUpEdit`;
* *the rest*: `ReadPaused`, `WritePaused`, `ConfigurePaused`, `Relogin`, `Download`,
  `Buy`.

Merged or left out on purpose:

* A sync holds `planSem` for the one statement that reads the settings, so taking it,
  reading and releasing are one step; `sem` shows only a change's hold.
* A game has an installer, which is always wanted, and extras, which depend on the
  settings or on an opt-in. The other choices (DLC, patches, saves, platforms,
  languages) go through the same functions in the same places, and `GamePlan` has
  them all.
* `findUnwanted` reads files, games and products one after the other; here it is one
  step, as are the statements of `DeactivateOtherFiles`. `LoadGame` joins the lock
  and the row read under it: a row only changes under its lock, apart from the
  selection of a new game, which has no files.
* Every request comes once; `Change`, `Edit` and `Pauser` say how many there are.
* `CheckMissing` and builds (in `Verify`), cloud saves (in `GamePlan`) and covers are
  left out of the syncs. They read and write nothing of this module; that they take
  time, fail or are cancelled is in `AbandonFull` and `AbandonJob`.
* There is a session. `Relogin` is a logout and the login after it.

### GamePlan

| variable | in the code |
|---|---|
| `catalogue`, `owned`, `cloud` | what GOG lists for the game and its DLC, the DLC in the account, the saves in the cloud |
| `settings`, `options` | the stored settings, the game's opt-ins |
| `clients` | table `game_clients`: the client that Galaxy's build for a platform (Windows or Mac, no other is asked for) names, none, or never asked |
| `tracked` | the active rows of the game |
| `sync` | `syncGame`: the settings it read, what GOG answered, the planned files still to upsert, what it will leave active |
| `published`, `fresh` | a bound's counter; whether GOG still lists what the tracked files were planned from |

A file is its place in `Listing`, everything GOG may ever list, in the order it lists
it, because "the first of its kind" decides in `chooseLanguages`. `Plan` is
`Plan`/`planFiles` with `chooseLanguages` and `choosePatches`; `Unwanted` is
`unwantedReason` with `fallsBackTo`, which must come to the same result without
GOG's listing. `StartSync`, `FetchDetails`, `FindClient`, `ListCloudSaves`,
`SavesPlanned` or `SavesUnknown`, `Upsert` and `DropOthers` are the sync;
`ApplySettings` and `SetGameOptions` the requests; `Publish`, `Buy` and `Interrupted`
the rest.

Left out: names of folders; an installer of several parts is one file; that the game
is selected; and what a change and a sync may overlap, which `Settings` decides: a
change is one step that stops the sync when the plan becomes another.

### Verify

| variable | in the code |
|---|---|
| `content`, `meta`, `build` | GOG: the bytes of a file, its version and size in the metadata, the newest Galaxy build per platform |
| `row` | table `files`: status, metadata, `md5`, age of `verified_at` |
| `recorded` | table `game_builds`, and whether `checked_at` is recent |
| `mounted`, `volume`, `mountpoint` | what is at the library's root: the volume or, without it, the bare mount point |
| `full` | `SyncAll`: the games it has left |
| `rollingLeft`, `granted` | `Syncer.rollingLeft`; how many claims it granted |
| `worker` | `syncGame` per game: the platforms to ask, the suspected ones, the files to go, the one it is at |

`StartFull` and `FinishFull` contain `CheckMissing` with the look at the empty root.
A game goes through `CheckBuild` per platform, then per file `NextFile` (the upsert's
SELECT and the verifier's decision), `Claim` and `ReturnClaim` (`claimRolling`), `Ask`
(the checksum, `SetFileVerified`) and `Store` (the UPDATE). `SyncGame` does the same
for one game, without looking at the root first and without a budget. `Cancel` ends the
full sync alone, `Stop` also the syncs of single games, as a change of settings does, and
`Drop` is such a change that drops a file and keeps its copy. `Publish`, `Download`, `Mount`
and `Unmount` surround it. `Built` are the games and platforms Galaxy has builds of. What
`stored` knows of a row besides what the upsert read is a history (`told`): was GOG asked for a
checksum, and then, did it have one?

Time is counted in full syncs. Every file is listed throughout, and wanted whenever a sync
plans. A transfer is one step, and its checksum may be missing. Failed attempts, renames and
rows that are deleted are `Downloader`'s. A file is dropped when it is done,
so that the copy it keeps is its own build. A cancelled sync ends at once; a step it still
makes before it looks at its context is one it makes before the cancellation. `CheckMissing` is
one step in which no download falls; that it lists, looks and resets one after the other
is in `Downloader`.

### Session

| variable | in the code |
|---|---|
| `token`, `session`, `gameToken` | `Client.token` (with what its access token is good for and the error mark), `Client.session`, `Client.gameTokens` of one game |
| `stored` | the row of table `auth` |
| `persist`, `refreshing` | the holders of `persistMu` and `refreshMu` |
| `proc` | each goroutine: a request on the account, a request on a game's saves, a login, the logout |
| `grants`, `valid`, `gone` | GOG: the refresh tokens it issued, those it accepts, those it took back or exchanged in an answer nobody got |

A request is `Ask` (`currentToken`), `LockRefresh`, `ReadRefresh`, `Exchange` (GOG's
side: the answer may be a new token, a refusal, or lost on the way after GOG has
exchanged it), `ApplyAnswer`, `LockStore` and `WriteStore` (`saveSession`), `Use` with its
retries. A login is `ExchangeCode`, `InstallSession`, the store, the request for the
user's name, `Annotate`, the store again. A logout is `ForgetSession` and `ClearStore`.
A game's request is `AskGame`, `CheckSession`, `GrantGame`, `CacheGameToken`,
`ListSaves`. Besides those `Expire`, `Revoke` and `Restart`.

Left out: the user's name and id, except that writing them is a second save; the
lifetime of an access token is `Expire`; a refresh token that GOG accepts is the
account it belongs to and its place in the order of issue. That the exchange is cut off
by the caller's context is the lost answer.

### Scheduler, LogStore, Process

| variable | in the code |
|---|---|
| `setup`, `authed`, `wish`, `interval` | what `ready` and `nextRun` look at; how many new plans were stored |
| `asked`, `served` | for the properties: the plan stored at the last `TriggerNow`, the newest plan an uninterrupted sync read |
| `ran`, `age` | `LastFinishedAt` |
| `trigger`, `nudge` | the two channels of one slot |
| `shown`, `sched` | `NextRunAt`; `Run` with its timer and the sync it runs |
| `handler`, `stopping` | the handlers that trigger or nudge it, its context |
| `logged`, `accepted`, `channel`, `table`, `writer`, `closing`, `written` | records per source, those that got into `Store.ch`, the channel, table `logs`, `loop` with its count, `closeCh`, everything ever inserted |
| `main`, `queue`, `open` | `run()`, whether the queue's `Run` has returned, the database |

`Process` composes them over `open` and `Alive`: who logs until when, which statement
meets a closed database. `StopServing`, `QueueEnds`, `WaitForWorkers`,
`ReturnFromRun`, `DeferredLogs` and `DeferredDatabase` are the way down. `Tick` is one
unit of the interval. A sync of the scheduler is one step that reads the plan and one
that ends, cancelled or not (`Settings` has its many); of the queue only its end matters
(`Downloader` has the rest); attributes and levels of records are left out.

## 3. What the runs check

Deadlock is not checked where an instance comes to rest when nothing is left to do. Each
`Ops` (or `Troubles`) names what the surroundings do in an instance, so that no run pays
for combinations another one has. Type invariants are proved for every instance
(section 4) and not run again.

| run | properties | what it shows |
|---|---|---|
| `one_file_moves` | `DoneIsOnDisk` `PauseIsNotLost` `CopyIsKept` `PromiseIsKept` | a file with a checksum whose new build gets a new name, against syncs, drops with the copy kept, pauses, stops and crashes; and queue, sync and disk together implement `WantedFiles` |
| `two_files_one_path` | `ClaimsHoldApart` `PathsApart` `OnlyOwnerTouches` | two files on one path, two transfers at a time, a limit that changes |
| `queue_drains` | `FetchesWhatIsMissing` `PauseDrains` `PlannerReturns` `QueueMoves` `LossIsRepaired` | liveness of one file, with a check for missing files beside syncs, transfers, retries and pauses; and what such a check or a retry queues although it is there is found, not fetched twice |
| `change_meets_edits` | `PlansAreCurrent` `TrackedIsWanted` `ChangeIsAlone` | no sync goes on with a plan that was replaced; what was dropped by settings or selection is not put back by any sync; clients go away, syncs time out, the user logs out |
| `settles` | `WantedIsTracked` `RequestsEnd` `SyncsEnd` `Settles` | nobody waits for ever when a change waits for syncs that wait for planSem or for a game's lock; after the last request the tracked files become the wanted ones without a scheduled sync |
| `new_games` | `OldGamesStayUnselected` `NewGamesAreSelected` `NoCircularWait` | the mode "selected, and new games" over uninterrupted listings, and two requests that need the locks of the same games |
| `session` | `StoredIsLive` `RefreshIsValid` `ErrorIsEarned` `SessionsEnd` `RequestsEnd` | refreshes, a login, logouts and game tokens that meet, with expiry, revocation, lost answers and crashes |
| `process` | `TableIsBounded` `NewestAreKept` `LastWordsAreWritten` `TriggerIsHeard` `IntervalIsKept` `ShutdownEnds` | no trigger is lost, an interval that is changed holds, the log table stays bounded, the shutdown ends with the last records written |
| `plan` | `ChangeSparesWanted` `SyncedIsWanted` `AnInstallerStays` `SavesSurvive` | plan and drop rule agree over languages, platforms, patches, DLC, extras and saves, whatever GOG lists meanwhile |
| `verify` | `BudgetIsSpentFirst` `RefetchIsEarned` `ReplacementIsNoticed` | what is fetched again and why, with failing requests, cancels, changes that stop syncs or drop a file and keep its copy, syncs of one game and an unmounted volume |
| `copy_lost_by_pause` | `CopyIsKept`, violated | see below |
| `mount_forgotten` | `MountIsRespected`, violated | see below |

### Bounds

* *Downloader*. Two row ids for one file (`a1`, `a2`) let a row be dropped and its file
  planned again under another id while the transfer of the first is still running;
  `b1` is another file. `Dest` says where each build goes: in place (`InPlace`), to
  a new name (`Renamed`), to a path shared by both files (`Shared`), or away from a path
  that the other file wants (`Vacated`). Two builds are enough for an update to meet
  every state of the old one, and what is proved holds for any number; with a third one
  a race breaks `CopyIsKept` (below), and the theorem names what it takes.
  `MaxAttempts` is 2 instead of 4: the first failure retries, the second gives up.
* *Settings*. One game shows every race about its row and files, three games show
  locks and listings. One change and one or two requests meet each other, a full
  sync and what was asked for in every order; a second change breaks `PlansAreCurrent`
  (below). `Several` are settings that differ in the mode, in extras, or in neither.
* *GamePlan*. Nine files: a base game with installers and patches in two languages on one
  platform, and an English one on another platform, for which Galaxy is not asked, saves
  of the clients of two platforms, and a DLC with an installer and an extra. The settings
  have a language that is offered, two (named in either order, which is another plan to
  `SamePlan`), or one that is not; content with and without saves, DLC and patches; fallback
  on and off; the options are none or the rest. GOG changes one of them at any moment
  (`MaxPublished` 1), which is enough for a listing to be older than what is tracked.
* *Verify*. Two games side by side, one with an extra for no platform; a budget of one check
  per sync, so that two games compete for it, and an interval of two syncs, so that a
  budget is just enough (`LibraryFits`). One release of any combination of bytes,
  version and build, and one trouble at any moment.
* *Session*. `Meetings` are who meets whom: a request, a login and the logout; a request and
  a game's request. `MaxIssued` 3 tokens are the first, its successor, and the login's or
  a second successor. `MaxSession` 2 allows the login and a logout. `MaxTries` 2:
  one try, one retry.
* *Process*. `Meetings` are the pairs of requests that meet, and the sources whose records
  meet a channel of one slot. Two new plans and an age of two make a second trigger come
  while the first is served. Capacity, rows and records of one and a prune per two inserts
  reach the limit of each; the table begins full of what earlier processes left.

### Where code and comments disagree

Two runs show a disagreement between a comment and the code; TLC's trace is the
witness, and `PROJECT.json` quotes the comments.

| run | property | in short |
|---|---|---|
| `copy_lost_by_pause` | `CopyIsKept` | a pause between rename and `CompleteFile`: the statement fails under the cancelled context, `download` takes that for "not wanted any more" and removes the file that just replaced the old build |
| `mount_forgotten` | `MountIsRespected` | a sync of one game does not look whether the volume is there; what it queues is downloaded into the mount point, and the next full sync, which finds the root not empty, queues the rest of the library |

The models hold more of them. Each row below is a property TLC finds violated in the
instance named; the passing runs leave out, by `Ops` or by the number of requests,
what it takes. What a row does not name is as follows. *Downloader*: `copy_lost_by_pause`
with `Ops = {"sync", "publish"}`. *Settings*: one game, no requests, `FirstSettings` is
`All`, `NewSettings` is `Several`, `Answers = {"keep"}`, `Ops = {}`. *GamePlan* and
*Session*: `plan` and `session`, with the `Ops` named.

| module | property | instance | in short |
|---|---|---|---|
| Downloader | `FailureIsOfThisBuild` | a `"retry"` fault | `fail` addresses the row by id alone, so a late failure of the old build counts against the new one |
| Downloader | `NothingInFlightOnceDropped` | `Id = {a1, a2}`, `Renamed`, `Ops = {"sync", "keep"}` | `startTransfer` does not look whether its row is still there, and a transfer that is not yet registered cannot be cancelled |
| Downloader | `NoStrayFile` | `Renamed` | a download completes between the upsert's SELECT and its UPDATE, and the UPDATE writes the state from before: nobody knows of the file any more |
| Downloader | `DoneIsOnDisk` | `Summed = {}` | after that race, without a checksum and with equal sizes, the old build is recorded as the new one |
| Downloader | `DoneIsOnDisk`, `CopyIsKept` | `File = {a, b}`, `Id = {a1, b1}`, `Vacated`, `MaxLimit = 2`, `Ops = {"sync", "publish", "retry"}` | the superseded file is removed after its path was given up, so that another file may have been downloaded to it |
| Downloader | `DoneIsOnDisk` | one file, builds to `P`, `Q` and `P` again, `MaxBuild = 3`, `Id = {a1, a2}`, `MaxLimit = 2`, `Ops = {"sync", "delete", "publish"}` | dropping a file that is done does not wait for its transfer, which is still removing the old build from the name the file has come back to |
| Downloader | `CopyIsKept` | one file, three builds of three names, `Id = {a1}`, `Ops = {"sync", "publish"}` | a download completes between the upsert's SELECT and its UPDATE of a third build: the UPDATE writes back the superseded path, and the next transfer forgets the copy between them |
| Downloader | `PromiseIsKept` | one file, `InPlace`, `MaxBuild = 1`, `Id = {a1}`, `Ops = {"sync", "unplan", "retry", "retry any"}` | `RetryFile` of a done file between the list of dropped files and the drop: the drop keeps the copy of a row that is no longer done |
| Downloader | `PromiseIsKept` | one file, `Renamed`, `Id = {a1}`, `Ops = {"sync", "keep", "publish", "check"}` | the same with the check for missing files: it has listed the row at the path of the old build, whose file the new one's transfer removes, and resets the row that is done, between a change's list and its drop |
| Downloader | `OnlyOwnerTouches` | `Renamed`, `Id = {a1, a2}`, `MaxLimit = 2`, `Ops = {"sync", "delete", "publish"}` | a transfer that escaped its cancellation (above) writes the old build where the new row, after that race, has its superseded copy |
| Settings | `SettingsStick` | one change from `Extras`, one pauser | `SetPaused` writes back all the settings it read, over those a change stored in between |
| Settings | `LiveIsStored` | one change from `Pausing`, one pauser | store and `Configure` of a pause and of a change interleave: the queue runs while the stored flag says paused |
| Settings | `PlansAreCurrent` | two changes from `Extras`; or one and a pauser | `ApplySettings` compares before it has `planSem`: with a second change on its way, or a pause that puts old settings back, a new plan is stored while a sync goes on |
| Settings | `RefusedDisturbsNobody` | one change from `Modes`, `Answers = {"none"}`, `Ops = {"download", "due"}` | a download ends while the change waits for the syncs it stopped, and the second look refuses it |
| Settings | `ForgottenOnlyIfTold` | one change from `Extras`, first `AllExtras`, `Answers = {"none"}`, `Ops = {"download"}` | a download ends after the list was read, and its row is deleted as one never downloaded |
| Settings | `WantedIsTracked` | first `Selected`, one `"select"` and one `"optin"` | `handleGameOptions` looks at the game as it was before, and a selection in between leaves the opt-in to nobody |
| Settings | `WantedIsTracked` | first `SelectedNew`, `Game = {1, 2}`, `Bought = {1}`, one `"optin"` for game 2, `Ops = {"buy", "due"}` | the same, with the full sync that selects a new game between the two |
| Settings | `WantedIsTracked` | first `All`, three requests, each `"optin"` or `"optout"` | the same, with an opt-out in between: the second opt-in stores what was there when it read the game, so it syncs nothing |
| Settings | `WantedIsTracked` | one change from `Modes`, first `AllExtras`, `Answers = {"none"}`, `Ops = {"download"}` | the refusal by the second look again (`RefusedDisturbsNobody`): the syncs it stopped are not started anew |
| Settings | `WantedIsTracked` | first `Selected`, one `"select"`, `Ops = {"hangup"}` | `handleGamesSelection` takes a failed read of the settings for "all games are downloaded" |
| Settings | `TrackedIsWanted` | `change_meets_edits` with `"fail"` added to `Ops` | the same failed read after a deselection that listed nothing to drop because the mode was "all", a change to "selected" that still saw the game selected, and a full sync that failed |
| Settings | `OldGamesStayUnselected` | first `SelectedNew`, `Game = Bought = {1, 2}`, `Ops = {"relogin"}` | what an interrupted first listing missed counts as new in the second |
| Settings | `NewGamesAreSelected` | first `SelectedNew`, `Game = {1, 2}`, `Bought = {1}`, `Ops = {"relogin", "buy", "due"}` | inserting and selecting a new game are two statements |
| GamePlan | `AnInstallerStays` | `Ops = {"resave"}` | settings that leave the plan as it is do not stop a sync that has upserted half of a game, and the drop rule judges the other half by it |
| Session | `LogoutIsStored` | `Ops = {"logout", "hangup"}` | a logout whose client went away has ended the session in memory, and a restart finds it in the database (the logout is answered with an error) |
| Session | `LoggedOutIsClean` | `AllCasts`, `Ops = {"logout", "expire"}` | a logout between `currentToken` and the read of the refresh token makes a request refresh with an empty one; the refusal matches the empty token and marks "session expired" |
| Session | `GameTokenIsOwn` | `AllCasts`, `Ops = {"logout"}` | a game's token that was asked for before a logout is cached after it, and used until GOG refuses it |

What reading the code for the models brought up besides, without a run:

* *Session*. A caller whose context ends during the exchange loses the new refresh token
  though GOG has already retired the old one. Of two logins at once, one may write its
  user's name to the other's session. A refresh between `Annotate` and its save makes
  that save fail, and the login handler answers with an error and triggers no sync. A
  refresh that was copied before the user's name was added stores the session without it.
* *Downloader*. A crash after the completion of a renamed build and before the removal of
  the superseded one leaves that file for good.
* *Verify*. A file whose checksum cannot be fetched takes a claim of every full sync
  and is never verified. A copy that was downloaded while its checksum could not be fetched
  has none to compare, and is not checked again. In a library of more files than budget
  and interval allow (about 3000), claims go by the order of the plan, and files late in
  it have to wait (assumption `LibraryFits`; docs/how-it-works.md:35 and sync.go:33
  promise the interval). A crash after a build was recorded forgets the suspicion;
  the rolling check makes up for it later. A root that was really emptied makes every full
  sync refuse.
* *Process*. Handlers, and the syncs of games they leave behind, are not waited for on
  shutdown. A process that crashes again and again before 500 records never prunes by
  count. A trigger that is not yet taken is gone after a restart.

### Fairness

In `Downloader`, `Run` is woken by every change of the queue and by a ticker (`Fill`,
`StartTransfer`); a transfer ends every request by a timeout and every read by the
stall watchdog (`TransferStep`); a back-off ends (`BackoffOver`); a full sync looks
for missing files (`SweepStep`); whoever holds the game's lock goes on when it
can (`PlannerStep`); a process that was stopped is started again (`Restart`).
Weak fairness is enough for all of them. Nothing is assumed about the user, about
GOG publishing, or that a sync starts. `QueueMoves` lets a queued file be
downloaded, given up, dropped or paused, since a pause, which cancels the transfer
without counting an attempt, may be repeated for ever.

In `Settings`, the scheduler takes a trigger when it is idle, and syncs, changes and
requests go on when they can: their statements and requests end, by a timeout or
by a client that goes away. `LoadGame` and `LockGame` are strongly fair: a
`sync.Mutex` hands itself to the goroutine that has waited longest, so a lock that
others take in turn is got in the end. Nothing is assumed about due syncs: `Settles`
must hold by the syncs that requests ask for.

In `Session`, every goroutine that has begun goes on (requests have timeouts), and
`LockRefresh` is strongly fair for the same reason as a game's lock. Nobody has to
begin anything.

In `Process`, a `select` draws among its ready cases at random, so the timer, the
trigger, the nudge, the end of the context and the close of the log store are strongly
fair; the other steps of the scheduler, the writer, a handler that has begun and
`main` are weakly fair. Nobody has to send requests, to log, or to let time pass.

In `Verify`, the scheduler starts full syncs, goroutines go on, the queue fetches what is
pending, and somebody mounts the volume again, all weakly fair. `MaxTrouble` is what makes
requests succeed in the end: a request that always fails is the first caveat above.

## 4. What is proved

Each theorem holds for every value of the constants within the named assumptions of its
module. Some need a hypothesis besides, which has a name of its own. It either says what
somebody outside does or wants, or it excludes what TLC finds in a table row of section 3.
The instances of the runs meet the hypotheses, so that the runs check the same statements.

### DownloaderProofs

Every set of files, ids, paths and operations, every limit and number of builds;
the assumptions are that `FileOf` and `Dest` are functions, the null values lie outside
their sets and limits are positive.

* `TypeCorrect` (`TypeOK`). The invariant that is inductive is `TypeInv`: `TypeOK`,
  *every running transfer has a row* and *the planner has a row when it updates
  one*. Without the second a transfer could write to a path that is none.
* `TransfersApart` (`ClaimsHoldApart`). That two destinations differ is not
  inductive. `ClaimInv` says that a transfer's claim is registered under its own
  id, and that a transfer between claim and leave works at its claim; two of them
  at one path would be two ids in one entry of a map.
* `PauseReaches` (`PauseIsNotLost`), inductive together with `TypeInv`.

The last two do not look at the thirty actions again. `ManagerSteps` reduces a
step to seven cases (nothing, a cancellation, a restart, and a transfer that
starts, moves, claims or leaves), and each invariant is preserved case by case.

### FilesOnDiskProofs

What a row, a transfer and the planner's read of a row have to do with the bytes on disk,
for every set of files and ids that share paths in any way, and any number of builds. The
invariants are established in layers, each from the ones before it:

* `RowInv`: every row, every copy of one (in the queue that was read, in a transfer, in
  the planner's hands) has paths of its own file only (`PlacedInv`); no row is behind a
  transfer of its file, and none is ahead of what GOG offered (`BuildInv`); what the
  planner has read is the row's build until it writes, because nobody else removes
  a row or gives it a build (`ReadInv`); a file has one row (`OneRow`); who is about to
  be started is not running (`PickedInv`); an id that was not handed out is nobody's
  (`UnusedInv`).
* `PathInv`: from `CheckOwner` to `CompleteFile` a transfer's destination is the path of no
  other row. It is where the claim, which keeps out other transfers, and
  `FileOwningPath`, which keeps out their rows, meet.
* `ArrivedInv`: what is about to be recorded as downloaded is there.
* `CopyInv`: the row of a copy that is presented, or will be once the planner has gone on
  (`HasCopy`), is at the place of its build, the bytes are that build, and no transfer is
  about to write them. The cases of `HasCopy` are the two ends of the race between the
  upsert's SELECT and UPDATE: a row stays "as good as done" while a planner holds a snapshot
  that says so.

Hypotheses, about GOG and the user: `SharedNamesStay` (a file that shares its path is not
renamed), `NamesStay` (none is), `NamesMoveOn` (a name that was given up does not come back for
the same file), `AllSummed` (every file has a checksum), `NobodyElse` (nobody else removes
files).

* `NothingFetchedTwice` (`FetchesWhatIsMissing`), without hypotheses: a transfer that writes
  has looked at its destination and not found there what it fetches, and nobody else brings it
  there meanwhile. Bytes come to a place only by the rename of a transfer (`BytesFollow`), and no
  other transfer is between claim and leave there (`ClaimInv`).
* `CopiesApart` (`PathsApart`), from `PathInv`, given `SharedNamesStay`: a row owns its path
  and its superseded path, and only the first is guarded.
* `OthersKeepOff` (`OnlyOwnerTouches`), an action property, given `NamesStay` and
  `NobodyElse`: a copy is changed by its own transfer or by the user who asked for its
  removal.
* `DoneMeansThere` (`DoneIsOnDisk`), from `CopyInv`, given all but `NamesStay`.
* `KeptUnlessOvertaken` (`CopyIsKept`), given the same: the copy that waits to be replaced is
  there and complete, unless one of two things happens on the way that TLC shows to lose it.
  A transfer takes back from its place what it could not record (`NothingTakenBack`
  excludes it; `copy_lost_by_pause`), or a download of an update is recorded between the
  upsert's SELECT and its UPDATE of a further build (`ReadsAlone` excludes it; the race of
  three builds in section 3). Both hypotheses are about behaviours.
* `KeptUnderOwnNames`: where every build has a name of its own (`OwnNames`, as with the
  version in it), the first of the two cannot happen, and `ReadsAlone` is all it takes.

The invariant behind these two is `OldCopyInv`: a row that waits for a newer build has a
complete build at its superseded path that nobody is about to tidy or to put another row's
file over (`Safe`), and that its own transfer leaves alone before it is done (`Untouched`);
or its last build has arrived already (`Copied`), which is what the row looks like
when the upsert wrote back a path that is gone. The planner's snapshot outlives the
row it was read from, so `SnapInv` says that what it goes by still holds.

Of the hypotheses of these two, `SharedNamesStay` and `NobodyElse` are needed: TLC
violates `CopyIsKept` without either. `AllSummed` comes with `CopyInv`, on which the proof
rests; under `OwnNames` TLC found no violation without it in an incomplete search, so
that the theorem may ask for more than it has to.

The proofs go through what steps do rather than through the actions: `FileSteps`,
`HandsFollow`, `ReadsFollow`, `RowsFollow`, `WorkFollows` and `DiskFollows` say once each, for
all actions, how the copies of rows travel, what the planner learns, and which five things may
happen to a row or to a place on disk.

### WantedFilesProofs

* `PromiseHolds` (`PromiseIsKept`): every step of `Downloader` is a step of `WantedFiles` or
  none, and its initial states are initial states there. Given the hypotheses of
  `DoneMeansThere`, `FailedOnly` (only failed files are queued again by hand) and
  `NoStaleCheck`, a hypothesis about behaviours: no check for missing files is about to reset
  a row whose file it missed and that is there by then, downloaded again or recorded under the
  name of its new build. Without the last two `PromiseIsKept` fails (section 3).

`WantedFiles` speaks of the disk, which the steps of a transfer change long before the
row. `CopyInv` lets it be read off the row alone (`Said`, `PledgesStated`); `QuietInv` (the
row of a file that is there has one of two kinds, and nobody is about to start or to fail
for it) and `KindInv` (a row is dropped and taken up again by the planner alone) leave six
ways for a row to turn (`Turns`, `RowsTurn`), and each is one action of `WantedFiles`
(`TurnIsStep`).

### SettingsProofs

Every set of games and requests, every choice of settings a request may
store, and every operation of the surroundings; it uses `ProcessAssumption` (names
of games, requests and the full sync do not collide, so that a lock or a wait has
one owner), `SettingsAssumption`, `RequestAssumption` and, for the order of the
locks, `GameAssumption` (ids of games are integers).

* `TypeCorrect` (`TypeOK`), inductive as it stands.
* `ChangesExcludeSyncs` (`ChangeIsAlone`): a change that has planSem and drops files
  runs with no sync that has read settings. `ChangeIsAlone` is about one place of
  the change and is established over five; `ExclusionInv` says what holds in each:
  who has planSem is between taking and giving it back (`HolderIsBusy`); from
  cancelling on, a full sync that has read settings is one the change waits for
  (`FullIsAwaited`), and later so is every request's sync (`JobsAreAwaited`); when it
  drops files it waits for nobody (`NobodyLeft`); and the jobs of a full sync live
  no longer than it (`WorkersBelongToFull`), which is why waiting for the full sync
  is enough for them. A sync that starts in between is kept out by planSem
  (`SemIsFree`); `Undisturbed`, `LeavesSem` and `HoldsSem` are the three ways in which
  a step can leave the invariant alone, and every action is one of them.
* `LocksInOrder` (`NoCircularWait`): no two requests wait for each other's games. It
  follows from `LockInv`: a request that is still taking locks holds those of the
  smallest games it names (`TakenInOrder`). A request and the sync it starts
  afterwards lock under one name in the model, so the invariant also says that
  such a sync runs only when the request is through with its own locks
  (`SyncsLast`). `LocksAreAcyclic` is the step from the order to the property, and
  `LocksKept` covers every step that takes no lock for a request.
* `NobodyPlansByOldSettings` (`PlansAreCurrent`), given `OneAuthor`: there is one change, or
  there are only pauses, as many as you like. `PlanInv` adds what a change and a pause are
  about to store: if they have not stopped the syncs, it has the stored plan. That a
  change of the plan meets no sync when it stores is `ExclusionInv` again.
* `UnwantedIsDropped` (`TrackedIsWanted`), given `OneAuthor` and `Unfailing` (a sync ends early
  only when it is cancelled; with a request that fails the property is false, section 3). A
  statement about rest needs an account of who is still to come: `SettledInv` says of
  every game that what is tracked is wanted, or that a change has replaced the plan and its
  full sync is asked for, or under way to that game (`Revisited`); and of a request that
  drops files, that its list has all it will unwant when it stores. It rests on `HeldInv`
  (who works on a game has its lock, and plans no more than the row and the settings it read
  want), `KnownInv` (what is tracked is listed, and a full sync goes to whatever is listed),
  `ChangesInv` (a change compares with what is stored until it stores) and on `PlanInv`,
  which makes the settings a sync read those that are stored. `FullWork`, `JobWork`,
  `ChangeWork` and `EditWork` say once each what the steps of a process do to the games.
* `WantedGetsTracked` (`WantedIsTracked`), given `OneAuthor`, `Patient` (requests and their
  syncs come to their own ends), `Answered` (a change says what becomes of downloaded files,
  for one that is refused on its second look has stopped the syncs for nothing) and `ReadOnce` (an opt-in is
  not overtaken by a selection or an opt-out, nor by a full sync that selects new games);
  without any one of them the property is false (section 3, and there under
  `PlansAreCurrent` for the first). `MissingInv` is the
  account: what is wanted of a listed game is tracked, or a sync of the game is coming, or
  a request that drops files has it. `Coming` says who may come: the full sync, if it has yet
  to load the game or is asked for by a trigger or by a change on its way (`Later`); a
  sync that works on it now; a request that will sync it. So a step that ends one of these must
  leave another or the files. `FollowedInv`: a full sync that was cancelled has a successor,
  since only a login and a change of the plan cancel any (`StoppersInv`). `PlannedInv`: who
  works on a game has all that is wanted among what it has yet to track and what it has tracked,
  unless the full sync comes later anyway, so that dropping the others drops nothing wanted.
  `DropInv`: a request drops only what will not be wanted when it stores, and `BeforeInv`:
  the game it read before it had the lock is still the one it stores.
  `FullComing`, `JobComing`, `QuietComing` and `EditComing` say of each process that what
  is coming still comes.
* `OldGamesAreLeft` (`OldGamesStayUnselected`), given `OldOnesLeft` (nobody selects them).
  `ListingInv`: a sync that selects new games found all the old ones listed, and what it
  lists next is new.
* `NewGamesGetSelected` (`NewGamesAreSelected`), given `NewOnesLeft` and
  `SelectsThroughout`. `NewInv`: a new game that is listed is selected, or is the one the
  full sync selects next, although inserting and selecting are two statements.

The last two need `Uninterrupted`: no full sync is cut off, by a change, a failed request or
a logout. The code makes no promise then, because "new" is what no sync has listed.

### GamePlanProofs

Whatever GOG may list, in any order, any platforms, languages, clients, settings and
options.

* `TypeCorrect` (`TypeOK`).
* `ChangeSpares` (`ChangeSparesWanted`). The drop rule guesses the languages of the plan
  from what is tracked; the guess is right only because of where the tracked files
  came from. `Grounded` says what planning from a listing leaves: every file is
  listed, and a patch has an installer in its language beside it, unless its platform
  has none at all. `FreshInv` says that what is tracked is grounded in what GOG lists,
  as long as that is what it was planned from, and likewise what a sync has yet to
  upsert and will keep. `PlannedIsWanted` is the step from there to the drop rule.
* `SyncsSpare` (`SyncedIsWanted`): the other direction, at the end of a sync. `SyncInv` says
  what a sync knows of settings and options, and that it upserts what its plan has.
* `SavesStay` (`SavesSurvive`). `SavesInv` follows a sync through the clients it asks for
  and lists: every save that is tracked when it begins to upsert is one it will upsert or
  keep (a listing that failed keeps them all), or one it saw missing in the cloud.
* `InstallersStay` (`AnInstallerStays`), given `NoResave` (no settings with the same plan are
  stored while the game is synced). `FallbackChooses` is the rule: where a platform
  has installers and none in a selected language, one is chosen (the first of them, which
  exists because positions in a listing are well-ordered). `PlannedInv` keeps what was
  planned tracked until the sync ends, and `ChangeLeavesInstaller` is the same rule for
  changes.

### VerifyProofs

Any files, games, platforms, budget and troubles.

* `TypeCorrect` (`TypeOK`).
* `BudgetKept` (`BudgetIsSpentFirst`). The counter alone says little, since a refused
  claim takes one off before it puts it back. `CountInv` is the account: the counter is
  the budget less what was granted less the claims that are refused and not yet
  returned. From it, a claim is refused only when the whole budget was granted, and never
  more than it.
* `RefetchesAreEarned` (`RefetchIsEarned`), an action property: a copy that is there and has a
  checksum is queued only after GOG was asked, and had none to tell or another one.
  `EarnedInv` has two parts. No row's checksum is ahead of the bytes GOG offers. And each upsert
  knows something of its file (`Knows`): what it read cannot have been answered before it
  asks; if it is about to queue the file unasked, there was nothing to compare; and if GOG told
  another checksum than the row's, that one is older than what GOG offers, and stays so until
  the UPDATE, however many requests of other games, drops and stops come in between.

### SessionProofs

Any number of requests, game requests and logins, and any bounds. `IInv` has seven parts:
`TypeOK`; `LockInv`, whoever refreshes or writes holds the lock for it; `IssuedInv`,
tokens anywhere are ones GOG issued; `FreshInv`, a token that was granted and not yet
applied is in nobody else's hands, and belongs to the account of the one it replaces;
`StoreInv`, whoever is about to write the store writes the live session, or somebody
who will is behind it; `ValidInv`, the token in memory is one GOG accepts or its
exchange is under way, and what GOG refused it does not accept; `ErrorInv`, a token that
is marked, in memory, in the store or in a copy, is not accepted, and nobody refreshes a
marked one. `QuietInv` covers every step of one goroutine that leaves the session, the
store and GOG alone.

* `TypeCorrect` (`TypeOK`), `SpentOnce` (`RefreshIsValid`), `StoreFollows`
  (`StoredIsLive`), `MarkedWhenRejected` (`ErrorIsEarned`) follow from it.
* `LateAnswersRefused` (`SessionsEnd`), an action property, from `FreshInv`: an answer is
  compared with the token it was for, and keeps its account.

### ProcessProofs

Any channel, table, batch, interval and requests.

* `TypeCorrect` (`TypeOK`); the scheduler's half is `SchedInv`.
* `TableBounded` (`TableIsBounded`), `NewestKept` (`NewestAreKept`): `RowsInv` bounds the
  length of the table by the inserts since the last counted prune, and says that the
  table is the end of what was ever written.
* `LastWords` (`LastWordsAreWritten`): `RecordsInv` says that an accepted record is in the
  channel or written, and `ShutdownInv` where `main` is when the workers, the writer and
  the database end; a record of a handler may still come after the last look at the
  channel, which is why the property leaves those out.
* `WorkersFirst` (`WorkersOutlived`): no worker meets a closed database.

### Only model-checked

No safety property of a passing run; `MountIsRespected` is violated. Out of the prover's
reach are the liveness properties (`QueueMoves`, `PauseDrains`, `PlannerReturns`,
`LossIsRepaired`, `RequestsEnd`, `SyncsEnd`, `Settles`, `ReplacementIsNoticed`, `TriggerIsHeard`, `IntervalIsKept`, `ShutdownEnds`), which
rest on fairness.

## 5. Not modelled, and what is next

* *Offer cache*: a page of the UI that may show old options for ten minutes.
* *Configuration*, *web UI*: read once, or presentation.
* *GOG client*: decoding, the mock account; what they can answer is nondeterministic in the
  models that use them.
* *Database*: tags, products, search, listings and migrations are single statements that
  nothing above depends on.
* *Sync*: covers, folder names, phases and progress.
* *Failing disk*: a removal or a statement that fails in the middle of `dropFiles`.

Next would be the copies without a checksum: what `CopyInv` still says where a row may name
the wrong build, so that `KeptUnlessOvertaken` can do without `AllSummed`.
