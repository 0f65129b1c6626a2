------------------------------- MODULE Verify -------------------------------
(***************************************************************************)
(* How a sync decides that a downloaded file changed (internal/library/    *)
(* sync.go, the upsert of internal/db/db.go): GOG's metadata and the game's *)
(* Galaxy builds are hints, the published checksum settles it, and a       *)
(* budget of each full sync pays for checks of files nothing points at.    *)
(* The games of a full sync are planned side by side; one game's work is   *)
(* serialised by its lock.  The disk is what is visible at the library's   *)
(* root, which is the volume or, without it, the bare mount point.         *)
(*                                                                         *)
(* Every file here is listed throughout, and wanted whenever a sync plans: *)
(* which files are, is GamePlan's subject.  A transfer is one step here,   *)
(* and so is a check for missing files; Downloader shows their many.  Time *)
(* is counted in full syncs: a verification is taken on trust for          *)
(* VerifyInterval of them, a build check until the next.                   *)
(***************************************************************************)
EXTENDS Naturals, Integers, FiniteSets

CONSTANTS
    Files, Games,
    GameOf,          \* the game of a file
    OsOf, NoOs,      \* its platform; extras have none
    Built,           \* the games and platforms that have Galaxy builds
    Summed,          \* files GOG publishes checksums for
    VerifyBudget,    \* rolling checks per full sync (25 in the code)
    VerifyInterval,  \* full syncs a verified copy is trusted for (30 days)
    MaxRelease,      \* bound: how often GOG changes something
    Troubles,        \* what else happens: see Trouble
    MaxTrouble       \* bound: how often something does

None == 0            \* no copy, no checksum, no build recorded
Version == 0..(MaxRelease + 1)
Platforms == {OsOf[f] : f \in Files} \ {NoOs}
\* A request fails, syncs are stopped, the user syncs a game alone, a file is
\* dropped for a while and its copy kept, the volume goes away.
Trouble == {"request", "stop", "game", "drop", "unmount"}

ASSUME VerifyAssumption ==
    /\ IsFiniteSet(Games) /\ Files # {} /\ GameOf \in [Files -> Games]
    /\ Summed \subseteq Files /\ Troubles \subseteq Trouble
    /\ Built \subseteq Games \X Platforms
    /\ VerifyBudget \in Nat /\ VerifyInterval \in Nat \ {0}
    /\ MaxRelease \in Nat /\ MaxTrouble \in Nat
\* The library is as small as the comment at verifyBudget has it: a budget for
\* each of its files before the first is due again.
ASSUME LibraryFits == VerifyBudget * VerifyInterval >= Cardinality(Files)

VARIABLES
    content, meta,    \* GOG: a file's bytes; its version and manifest size
    build,            \* GOG: the newest Galaxy build of a game on a platform
    row,              \* table files: status, metadata, md5, age of verified_at
    recorded,         \* table game_builds, and whether checked_at is recent
    mounted, volume, mountpoint,   \* the disk: what is where under the root
    full,             \* the full sync: its games left, while it runs
    rollingLeft, granted,          \* its budget; the claims it granted
    worker,           \* the sync of each game, while it holds the game's lock
    released, troubles             \* the bounds' counters

remote == <<content, meta, build, released>>
disk == <<mounted, volume, mountpoint>>
vars == <<remote, row, recorded, disk, full, rollingLeft, granted, worker,
          troubles>>

Idle == [on |-> FALSE, left |-> {}]
Free == [pc |-> "free"]
NoFile == [status |-> "done", md5 |-> None, onDisk |-> TRUE, hint |-> FALSE,
           told |-> "unasked"]

Status == {"pending", "done", "inactive"}
FileRow == [status: Status, meta: Version \ {None}, md5: Version,
            age: 0..VerifyInterval]
BuildRow == [build: Version, recent: BOOLEAN]
\* What the upsert read of a row; told is a history: whether GOG was asked for a
\* checksum, and then gave none, or one.
Stored == [status: Status, md5: Version, onDisk: BOOLEAN, hint: BOOLEAN,
           told: {"unasked", "nothing", "sum"}]
Working == [pc: {"builds", "file", "claim", "return", "ask", "store"},
            rolling: BOOLEAN, asks: SUBSET Platforms, suspect: SUBSET Platforms,
            todo: SUBSET Files, file: Files, seen: [Files -> Version],
            changed: BOOLEAN, stored: Stored]

TypeOK ==
    /\ content \in [Files -> Version \ {None}] /\ meta \in [Files -> Version \ {None}]
    /\ build \in [Games -> [Platforms -> Version \ {None}]]
    /\ row \in [Files -> FileRow]
    /\ recorded \in [Games -> [Platforms -> BuildRow]]
    /\ mounted \in BOOLEAN
    /\ volume \in [Files -> Version] /\ mountpoint \in [Files -> Version]
    /\ full \in [on: BOOLEAN, left: SUBSET Games]
    /\ rollingLeft \in (-Cardinality(Games))..VerifyBudget
    /\ granted \in 0..VerifyBudget
    /\ worker \in [Games -> Working \cup {Free}]
    /\ released \in 0..MaxRelease /\ troubles \in 0..MaxTrouble

Init ==
    /\ content = [f \in Files |-> 1] /\ meta = [f \in Files |-> 1]
    /\ build = [g \in Games |-> [o \in Platforms |-> 1]]
    /\ row = [f \in Files |-> [status |-> "done", meta |-> 1, age |-> VerifyInterval,
                               md5 |-> IF f \in Summed THEN 1 ELSE None]]
    /\ recorded = [g \in Games |-> [o \in Platforms |-> [build |-> None, recent |-> FALSE]]]
    /\ mounted = TRUE /\ volume = [f \in Files |-> 1]
    /\ mountpoint = [f \in Files |-> None]
    /\ full = Idle /\ rollingLeft = 0 /\ granted = 0
    /\ worker = [g \in Games |-> Free]
    /\ released = 0 /\ troubles = 0

Goes(kind) == /\ kind \in Troubles /\ troubles < MaxTrouble
              /\ troubles' = troubles + 1

-----------------------------------------------------------------------------
(* GOG publishes other bytes, other metadata, another build, or several of *)
(* them at once: no one of the three signals implies another.              *)

Publish(f) ==
    /\ released < MaxRelease /\ released' = released + 1
    /\ \E bytes \in 0..1, version \in 0..1,
          rebuilt \in SUBSET {o \in Platforms : <<GameOf[f], o>> \in Built} :
         /\ bytes + version > 0 \/ rebuilt # {}
         /\ content' = [content EXCEPT ![f] = @ + bytes]
         /\ meta' = [meta EXCEPT ![f] = @ + version]
         /\ build' = [build EXCEPT ![GameOf[f]] =
                        [o \in Platforms |-> @[o] + IF o \in rebuilt THEN 1 ELSE 0]]
    /\ UNCHANGED <<row, recorded, disk, full, rollingLeft, granted, worker, troubles>>

-----------------------------------------------------------------------------
(* The disk.                                                               *)

Visible == IF mounted THEN volume ELSE mountpoint
Exists(f) == Visible[f] # None

\* The folders on the volume stay; the bare mount point has none until a
\* transfer creates them.
RootEmpty == ~mounted /\ \A f \in Files : mountpoint[f] = None

Unmount ==
    /\ mounted /\ Goes("unmount") /\ mounted' = FALSE
    /\ UNCHANGED <<remote, row, recorded, volume, mountpoint, full, rollingLeft,
                   granted, worker>>

Mount ==
    /\ ~mounted /\ mounted' = TRUE
    /\ UNCHANGED <<remote, row, recorded, volume, mountpoint, full, rollingLeft,
                   granted, worker, troubles>>

\* The downloader fetches a queued file.  A checksum it cannot fetch does not
\* stop the transfer, and the row then has none.
Download(f) ==
    /\ row[f].status = "pending"
    /\ \E sum \in {IF f \in Summed THEN content[f] ELSE None, None} :
         /\ IF sum = None /\ f \in Summed THEN Goes("request") ELSE UNCHANGED troubles
         /\ row' = [row EXCEPT ![f] = [@ EXCEPT !.status = "done", !.md5 = sum, !.age = 0]]
    /\ IF mounted THEN /\ volume' = [volume EXCEPT ![f] = content[f]]
                       /\ UNCHANGED mountpoint
                  ELSE /\ mountpoint' = [mountpoint EXCEPT ![f] = content[f]]
                       /\ UNCHANGED volume
    /\ UNCHANGED <<remote, recorded, mounted, full, rollingLeft, granted, worker>>

-----------------------------------------------------------------------------
(* The full sync around its games.                                         *)

\* CheckMissing: nothing when the volume seems to be missing, otherwise the
\* copies that vanished are queued again (MarkMissingDone).
AfterCheck(r) ==
    [f \in Files |-> IF r[f].status = "done" /\ ~RootEmpty /\ ~Exists(f)
                     THEN [r[f] EXCEPT !.status = "pending"] ELSE r[f]]

AnyDone == \E f \in Files : row[f].status = "done"

Aged(r) == [f \in Files |-> [r[f] EXCEPT !.age = IF @ < VerifyInterval THEN @ + 1 ELSE @]]

\* What a full sync may spend.
Budget == VerifyBudget

\* The sync begins, or refuses to plan against an empty root; its time has come
\* either way.
StartFull ==
    /\ ~full.on
    /\ recorded' = [g \in Games |-> [o \in Platforms |->
                      [build |-> recorded[g][o].build, recent |-> FALSE]]]
    /\ IF AnyDone /\ RootEmpty
       THEN row' = Aged(row) /\ UNCHANGED <<full, rollingLeft, granted>>
       ELSE /\ row' = Aged(AfterCheck(row))
            /\ full' = [on |-> TRUE, left |-> Games]
            /\ rollingLeft' = Budget /\ granted' = 0
    /\ UNCHANGED <<remote, disk, worker, troubles>>

\* Every game is done: the disk is checked once more.
FinishFull ==
    /\ full.on /\ full.left = {}
    /\ full' = Idle
    /\ row' = AfterCheck(row)
    /\ UNCHANGED <<remote, recorded, disk, rollingLeft, granted, worker, troubles>>

\* The syncs of the games in G end, and with the full sync what it held in memory.
Ended(G) == /\ full' = Idle
            /\ worker' = [g \in Games |-> IF g \in G THEN Free ELSE worker[g]]

\* Cancel reaches the full sync, and not the sync of a game alone.
Cancel ==
    /\ full.on /\ Goes("stop")
    /\ Ended({g \in Games : worker[g] # Free /\ worker[g].rolling})
    /\ UNCHANGED <<remote, row, recorded, disk, rollingLeft, granted>>

\* A change of settings stops every sync, and so does the end of the process.
Stop ==
    /\ Goes("stop") /\ Ended(Games)
    /\ UNCHANGED <<remote, row, recorded, disk, rollingLeft, granted>>

\* Such a change drops f and keeps its copy, before another wants it again.
Drop(f) ==
    /\ row[f].status = "done" /\ Goes("drop") /\ Ended(Games)
    /\ row' = [row EXCEPT ![f].status = "inactive"]
    /\ UNCHANGED <<remote, recorded, disk, rollingLeft, granted>>

-----------------------------------------------------------------------------
(* One game, under its lock.                                               *)

AnyFile == CHOOSE f \in Files : TRUE
FilesOf(g) == {f \in Files : GameOf[f] = g}

Begun(g, rolling) ==
    [pc |-> IF Platforms = {} THEN "file" ELSE "builds", rolling |-> rolling,
     asks |-> Platforms, suspect |-> {}, todo |-> FilesOf(g), file |-> AnyFile,
     seen |-> [f \in Files |-> IF GameOf[f] = g THEN meta[f] ELSE None],
     changed |-> FALSE, stored |-> NoFile]

\* syncGame reads the product details, or fails to.
StartGame(g) ==
    /\ g \in full.left /\ worker[g] = Free
    /\ \/ worker' = [worker EXCEPT ![g] = Begun(g, TRUE)] /\ UNCHANGED <<full, troubles>>
       \/ /\ Goes("request")
          /\ full' = [full EXCEPT !.left = @ \ {g}] /\ UNCHANGED worker
    /\ UNCHANGED <<remote, row, recorded, disk, rollingLeft, granted>>

\* SyncGame: nobody looks at the root first.
SyncGame(g) ==
    /\ worker[g] = Free
    /\ Goes("game")
    /\ worker' = [worker EXCEPT ![g] = Begun(g, FALSE)]
    /\ UNCHANGED <<remote, row, recorded, disk, full, rollingLeft, granted>>

\* checkBuilds on one platform.  No build, a build seen for the first time and
\* one that was asked for lately point at nothing.
CheckBuild(g, o) ==
    LET w == worker[g]
        prev == recorded[g][o]
        rest == w.asks \ {o}
        done == [w EXCEPT !.asks = rest, !.pc = IF rest = {} THEN "file" ELSE "builds"]
    IN  /\ w.pc = "builds" /\ o \in w.asks
        /\ \/ /\ <<g, o>> \in Built /\ ~(prev.build # None /\ prev.recent)
              /\ recorded' = [recorded EXCEPT ![g] =
                                [@ EXCEPT ![o] = [build |-> build[g][o], recent |-> TRUE]]]
              /\ worker' = [worker EXCEPT ![g] = [done EXCEPT !.suspect =
                   IF prev.build \notin {None, build[g][o]} THEN @ \cup {o} ELSE @]]
              /\ UNCHANGED troubles
           \/ /\ IF <<g, o>> \notin Built \/ (prev.build # None /\ prev.recent)
                 THEN UNCHANGED troubles ELSE Goes("request")
              /\ worker' = [worker EXCEPT ![g] = done] /\ UNCHANGED recorded
    /\ UNCHANGED <<remote, row, disk, full, rollingLeft, granted>>

\* The game was rebuilt; extras carry no platform and are checked with the rest.
Suspected(w, f) == OsOf[f] \in w.suspect \/ (OsOf[f] = NoOs /\ w.suspect # {})

IsDue(f) == row[f].age = VerifyInterval

\* The upsert reads the row and the disk, and the verifier whether the file is
\* worth a request.
NextFile(g) ==
    LET w == worker[g] IN
    /\ w.pc = "file"
    /\ \E f \in w.todo :
         LET hint == w.seen[f] # row[f].meta
             mayAsk == /\ row[f].md5 # None /\ row[f].status # "pending"
                       /\ row[f].status = "inactive" => Exists(f)
         IN  worker' = [worker EXCEPT ![g] = [w EXCEPT
               !.file = f, !.todo = @ \ {f}, !.changed = hint,
               !.stored = [status |-> row[f].status, md5 |-> row[f].md5,
                           onDisk |-> Exists(f), hint |-> hint, told |-> "unasked"],
               !.pc = IF mayAsk /\ (hint \/ Suspected(w, f)) THEN "ask"
                      ELSE IF mayAsk /\ w.rolling /\ IsDue(f) THEN "claim" ELSE "store"]]
    /\ UNCHANGED <<remote, row, recorded, disk, full, rollingLeft, granted, troubles>>

\* (mutant: a claim that is granted is not taken from the budget)
Claimed_if_none_left == IF rollingLeft > 0 THEN rollingLeft ELSE rollingLeft - 1
\* claimRolling takes one from the budget and returns it when there was none.
Claimed == rollingLeft - 1

Claim(g) ==
    /\ worker[g].pc = "claim"
    /\ rollingLeft' = Claimed
    /\ IF rollingLeft' < 0
       THEN worker' = [worker EXCEPT ![g] = [@ EXCEPT !.pc = "return"]] /\ UNCHANGED granted
       ELSE worker' = [worker EXCEPT ![g] = [@ EXCEPT !.pc = "ask"]] /\ granted' = granted + 1
    /\ UNCHANGED <<remote, row, recorded, disk, full, troubles>>

ReturnClaim(g) ==
    /\ worker[g].pc = "return"
    /\ rollingLeft' = rollingLeft + 1
    /\ worker' = [worker EXCEPT ![g] = [@ EXCEPT !.pc = "store"]]
    /\ UNCHANGED <<remote, row, recorded, disk, full, granted, troubles>>

\* (mutant: metadata that moved is enough)
Changed_if_hinted(sum, stored, hint) == hint \/ (sum # None /\ sum # stored)
\* What the published checksum says of the copy; without one, the hint decides.
Changed(sum, stored, hint) == IF sum = None THEN hint ELSE sum # stored

\* (mutant: a check that ends without a change does not count)
Verified_if_changed(f, changed) ==
    IF changed THEN [row EXCEPT ![f] = [@ EXCEPT !.age = 0]] ELSE row
\* SetFileVerified: also where GOG publishes no checksum.
Verified(f, changed) == [row EXCEPT ![f] = [@ EXCEPT !.age = 0]]

\* remoteMD5; when it fails, metadata decides and nothing counts as verified.
Ask(g) ==
    LET w == worker[g]
        sum == IF w.file \in Summed THEN content[w.file] ELSE None
        now == Changed(sum, w.stored.md5, w.stored.hint)
    IN  /\ w.pc = "ask"
        /\ \/ /\ worker' = [worker EXCEPT ![g] = [w EXCEPT !.pc = "store", !.changed = now,
                    !.stored.told = IF sum = None THEN "nothing" ELSE "sum"]]
              /\ row' = Verified(w.file, now) /\ UNCHANGED troubles
           \/ /\ Goes("request")
              /\ worker' = [worker EXCEPT ![g] = [w EXCEPT !.pc = "store",
                    !.changed = w.stored.hint, !.stored.told = "nothing"]]
              /\ UNCHANGED row
        /\ UNCHANGED <<remote, recorded, disk, full, rollingLeft, granted>>

\* planUpsert of a row without a failed attempt: one that was downloaded stays
\* so, and one that was kept is again, if its copy is there and did not change.
Planned(w) == IF w.stored.status = "pending" \/ w.changed \/ ~w.stored.onDisk
              THEN "pending" ELSE "done"

\* The UPDATE writes what was planned from the row as it was read.
Store(g) ==
    LET w == worker[g] IN
    /\ w.pc = "store"
    /\ row' = [row EXCEPT ![w.file] = [@ EXCEPT !.status = Planned(w), !.meta = w.seen[w.file]]]
    /\ worker' = [worker EXCEPT ![g] = [w EXCEPT !.pc = "file", !.file = AnyFile,
                                              !.stored = NoFile, !.changed = FALSE]]
    /\ UNCHANGED <<remote, recorded, disk, full, rollingLeft, granted, troubles>>

EndGame(g) ==
    LET w == worker[g] IN
    /\ w.pc = "file" /\ w.todo = {}
    /\ worker' = [worker EXCEPT ![g] = Free]
    /\ full' = IF w.rolling THEN [full EXCEPT !.left = @ \ {g}] ELSE full
    /\ UNCHANGED <<remote, row, recorded, disk, rollingLeft, granted, troubles>>

-----------------------------------------------------------------------------
Game(g) ==
    \/ StartGame(g) \/ NextFile(g) \/ Claim(g) \/ ReturnClaim(g) \/ Ask(g) \/ Store(g)
    \/ EndGame(g) \/ \E o \in Platforms : CheckBuild(g, o)

Next ==
    \/ \E f \in Files : Publish(f) \/ Download(f) \/ Drop(f)
    \/ \E g \in Games : Game(g) \/ SyncGame(g)
    \/ StartFull \/ FinishFull \/ Cancel \/ Stop \/ Mount \/ Unmount

Spec == Init /\ [][Next]_vars

\* Goroutines run on, the scheduler starts the next full sync, the queue is
\* fetched and somebody mounts the volume again.  GOG and trouble owe nothing;
\* MaxTrouble is what makes requests succeed in the end.
FairSpec ==
    /\ Spec
    /\ WF_vars(StartFull) /\ WF_vars(FinishFull) /\ WF_vars(Mount)
    /\ \A g \in Games : WF_vars(Game(g))
    /\ \A f \in Files : WF_vars(Download(f))

-----------------------------------------------------------------------------
\* A full sync spends its budget on rolling checks and not one more, however
\* many games claim and return at once; and a file is refused its turn only
\* when the budget really was spent (sync.go claimRolling: the counter is below
\* zero for as long as the refused have not given theirs back).
BudgetIsSpentFirst ==
    /\ granted <= VerifyBudget
    /\ \A g \in Games : worker[g].pc = "return" => granted = VerifyBudget

\* A downloaded or kept file is queued.
Requeued(f) == row[f].status # "pending" /\ row'[f].status = "pending"

\* An upsert of f by g's sync.
Upserts(g, f) == worker[g].pc = "store" /\ worker[g].file = f /\ worker'[g].pc = "file"

\* What the upsert may have read that makes it queue a file: no copy, a row that
\* was queued already (its download was recorded since; Downloader's
\* FetchesWhatIsMissing is about what comes of that), or a copy that has no
\* checksum to hold against GOG's.
NothingToCompare(s) == ~s.onDisk \/ s.status = "pending" \/ s.md5 = None

\* A copy that is there and has a checksum is queued again only after GOG was
\* asked, and had none to tell or another one: what keeps "a bumped version from
\* costing a 60 GB re-download" (docs/how-it-works.md), across whatever order
\* builds, versions and bytes are published in and the sync reads them.
RefetchIsEarned ==
    [][\A f \in Files : Requeued(f) =>
         \/ ~Exists(f)
         \/ \E g \in Games : Upserts(g, f) /\
              LET s == worker[g].stored
              IN  \/ NothingToCompare(s) \/ s.told = "nothing"
                  \/ s.told = "sum" /\ s.md5 # content[f]]_vars

\* "A silent replacement is noticed within verifyInterval" (sync.go:33), here:
\* eventually.  A build that was recorded before a sync was stopped, a request
\* that failed or a budget others took only delay it.
ReplacementIsNoticed ==
    \A f \in Files :
        (row[f].status = "done" /\ row[f].md5 \notin {None, content[f]}) ~>
            (row[f].status = "pending" \/ row[f].md5 \in {None, content[f]})

\* The disk checks of a full sync queue no copy that the volume holds: "an
\* unmounted volume must not turn into a re-download of the whole library into
\* the mount point" (sync.go CheckMissing).
MountIsRespected ==
    [][\A f \in Files : Requeued(f) /\ full'.on # full.on => volume[f] = None]_vars
=============================================================================
