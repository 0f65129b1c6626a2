----------------------------- MODULE Downloader -----------------------------
(***************************************************************************)
(* The download queue (internal/downloader), and everything that changes   *)
(* file rows and files on disk while it runs: the sync and the settings    *)
(* changes of internal/library, the retry handlers, pausing, a shutdown or *)
(* a crash.  Each goroutine advances by the steps between which another    *)
(* one can act: a lock section, a SQL statement, an operation on a file, a *)
(* request to GOG.                                                         *)
(*                                                                         *)
(*   runner      Manager.Run: reads the queue, starts transfers            *)
(*   transfer i  the goroutine of startTransfer for the row id i           *)
(*   planner     the one holder of the game's lock: a sync of the game or  *)
(*               a change of settings, options or selection                *)
(*   sweep       CheckMissing, of the one full sync there is               *)
(*   the rest    one-step handlers, GOG, time, the process itself          *)
(*                                                                         *)
(* The model starts after setup, with a GOG session, for games the account *)
(* owns and has selected.                                                  *)
(***************************************************************************)
EXTENDS FileRows, FiniteSets

CONSTANTS
    File,      \* (product, kind, gog_id): what GOG names a file by
    Id,        \* row ids; AUTOINCREMENT never hands one out twice
    NoId,
    FileOf,    \* the file an id is for
    Dest,      \* Dest[f][b]: where build b of file f is stored
    Summed,    \* the files GOG publishes a checksum for
    Saves,     \* the files that are cloud saves
    NoCopy,    \* nothing at a path
    Mixed,     \* bytes of one build continued with bytes of another
    MaxLimit,  \* largest max_concurrent_downloads
    Faults,    \* how a transfer can fail: "retry", "final", "auth"
    Ops        \* what the surroundings do in this instance

ASSUME FileOfAssumption == FileOf \in [Id -> File]
ASSUME DestAssumption   == Dest \in [File -> [Build -> Path]]
ASSUME KindAssumption   == Summed \subseteq File /\ Saves \subseteq File
ASSUME NoIdAssumption   == NoId \notin Id
ASSUME LimitAssumption  == MaxLimit \in Nat \ {0}
ASSUME FaultAssumption  == Faults \subseteq {"retry", "final", "auth"}

Copy == (File \X Build) \cup {Mixed}
ASSUME MixedAssumption == Mixed \notin File \X Build
ASSUME NoCopyAssumption == NoCopy \notin Copy

VARIABLES
    rows,      \* the table files, by id
    unused,    \* the ids no row has had yet
    offered,   \* what GOG offers for each file now
    disk,      \* the file at each path
    part,      \* the .part next to it
    xfer,      \* the transfer of each id (Manager.active)
    claimed,   \* Manager.claimed
    picked,    \* the rows fill has read and not yet started
    paused,    \* Manager.paused
    limit,     \* Manager.maxActive
    stopping,  \* the context of Run is cancelled
    plan,      \* where the planner is
    seen,      \* what its upsert saw where the row says the copy is
    sweep      \* where the check for missing files is

vars == <<rows, unused, offered, disk, part, xfer, claimed, picked,
          paused, limit, stopping, plan, seen, sweep>>

Pcs == {"idle", "remote", "claim", "owner", "resolve", "place", "write",
        "complete", "confirm", "discard", "tidy", "fail", "leave"}

\* file is the row startTransfer was given; it is never read again.
Transfer == [pc: Pcs, file: Row \cup {NoRow}, claim: Path \cup {NoPath},
             cancelled: BOOLEAN, err: {"none", "retry", "final", "auth"}]
NoTransfer == [pc |-> "idle", file |-> NoRow, claim |-> NoPath,
               cancelled |-> FALSE, err |-> "none"]

\* snap is what the planner read, todo the rows it has yet to drop, aborts
\* the transfers it has yet to abort, at the transfer it waits for.
Plan == [pc: {"idle", "upsert", "drop", "abort", "wait", "part"},
         mode: {"unplan", "keep", "delete"}, snap: [Id -> Row \cup {NoRow}],
         todo: SUBSET Id, aborts: SUBSET Id, at: Id \cup {NoId}, build: Build]
NoSnap == [i \in Id |-> NoRow]

\* todo are the downloaded rows that were listed, with their paths then; gone is
\* the one whose file was just found missing.
Sweep == [todo: SUBSET (Id \X (Path \cup {NoPath})), gone: Id \cup {NoId}]
NoSweep == [todo |-> {}, gone |-> NoId]

TypeOK ==
    /\ rows \in [Id -> Row \cup {NoRow}]
    /\ unused \subseteq Id
    /\ offered \in [File -> Build]
    /\ disk \in [Path -> Copy \cup {NoCopy}]
    /\ part \in [Path -> Copy \cup {NoCopy}]
    /\ xfer \in [Id -> Transfer]
    /\ claimed \in [Path -> Id \cup {NoId}]
    /\ picked \in [Id -> Row \cup {NoRow}]
    /\ paused \in BOOLEAN
    /\ limit \in 1..MaxLimit
    /\ stopping \in BOOLEAN
    /\ plan \in Plan
    /\ seen \in {"unseen", "there", "gone"}
    /\ sweep \in Sweep

NoPlan(b) == [pc |-> "idle", mode |-> "unplan", snap |-> NoSnap, todo |-> {},
              aborts |-> {}, at |-> NoId, build |-> b]
Idle == NoPlan(1)

\* A new installation: GOG's first offers, no rows, an empty library.
Init ==
    /\ rows = [i \in Id |-> NoRow]
    /\ unused = Id
    /\ offered = [f \in File |-> 1]
    /\ disk = [p \in Path |-> NoCopy]
    /\ part = [p \in Path |-> NoCopy]
    /\ xfer = [i \in Id |-> NoTransfer]
    /\ claimed = [p \in Path |-> NoId]
    /\ picked = NoSnap
    /\ paused = FALSE
    /\ limit = MaxLimit
    /\ stopping = FALSE
    /\ plan = Idle
    /\ seen = "unseen"
    /\ sweep = NoSweep

Running == {i \in Id : xfer[i].pc # "idle"}

db   == <<rows, unused>>
fs   == <<disk, part>>
conf == <<paused, limit, stopping>>
look == <<seen, sweep>>

-----------------------------------------------------------------------------
(* The runner.                                                             *)

\* fill: what it may start is counted under the lock, the queue is read after
\* it was let go.  One step here: in between transfers can only leave, and
\* those were excluded from the query anyway.
Fill ==
    /\ picked = NoSnap /\ ~paused /\ ~stopping
    /\ LET free == limit - Cardinality(Running)
           due  == {i \in Id \ Running : Due(rows[i])}
       IN  /\ free > 0
           /\ \E S \in SUBSET due :
                /\ S # {}
                /\ \/ S = due /\ Cardinality(S) <= free
                   \/ Cardinality(S) = free
                /\ picked' = [i \in Id |-> IF i \in S THEN rows[i] ELSE NoRow]
    /\ UNCHANGED <<db, offered, fs, xfer, claimed, conf, plan, look>>

\* (mutant: startTransfer relies on what fill saw before it let go of the lock)
CanStart_forgets_pause(i) == xfer[i].pc = "idle" /\ Cardinality(Running) < limit

\* startTransfer: the pause and the limit are checked again, neither the row nor
\* the context is.
CanStart(i) == xfer[i].pc = "idle" /\ Cardinality(Running) < limit /\ ~paused

\* Once the context is cancelled no game can be read, so that the rest of what
\* fill read is not started.  One transfer may have got past that; it starts
\* with its context cancelled.
StartTransfer(i) ==
    /\ picked[i] # NoRow
    /\ picked' = IF stopping THEN NoSnap ELSE [picked EXCEPT ![i] = NoRow]
    /\ \/ /\ CanStart(i)
          /\ xfer' = [xfer EXCEPT ![i] = [NoTransfer EXCEPT !.pc = "remote",
                                                            !.file = picked[i],
                                                            !.cancelled = stopping]]
       \/ /\ stopping \/ ~CanStart(i)
          /\ UNCHANGED xfer
    /\ UNCHANGED <<db, offered, fs, claimed, conf, plan, look>>

-----------------------------------------------------------------------------
(* A transfer.                                                             *)

Target(i) == Dest[FileOf[i]][xfer[i].file.build]     \* target.rel
Wanted(i) == <<FileOf[i], xfer[i].file.build>>       \* the bytes behind the link
Goto(i, pc)   == xfer' = [xfer EXCEPT ![i].pc = pc]
Fail(i, kind) == xfer' = [xfer EXCEPT ![i].pc = "fail", ![i].err = kind]

\* A cloud save is downloaded from its first byte, always.
Resumable(i) == FileOf[i] \notin Saves

\* What an error leaves of the partial file.
PartAfterError(i) ==
    IF xfer[i].pc = "write" /\ ~Resumable(i)
    THEN [part EXCEPT ![Target(i)] = NoCopy] ELSE part

\* (mutant: the body is read without the context)
Interrupted_not_in_write(i) ==
    /\ xfer[i].pc \in {"remote", "owner", "resolve", "place"}
    /\ xfer[i].cancelled
    /\ Goto(i, "leave")
    /\ UNCHANGED <<db, offered, fs, claimed, picked, conf, plan, look>>

\* A request, a statement or a read returns because the transfer's context is
\* cancelled; nothing is recorded.
Interrupted(i) ==
    /\ xfer[i].pc \in {"remote", "owner", "resolve", "place", "write"}
    /\ xfer[i].cancelled
    /\ part' = PartAfterError(i)
    /\ Goto(i, "leave")
    /\ UNCHANGED <<db, offered, disk, claimed, picked, conf, plan, look>>

\* The connection ended before the expected size was reached.
SizeMismatch(i) ==
    /\ "retry" \in Faults
    /\ xfer[i].pc = "write" /\ ~xfer[i].cancelled
    /\ part' = [part EXCEPT ![Target(i)] = NoCopy]
    /\ Fail(i, "retry")
    /\ UNCHANGED <<db, offered, disk, claimed, picked, conf, plan, look>>

\* GOG, the connection or the disk fails, or the stall watchdog gives up.
Broken(i) ==
    /\ xfer[i].pc \in {"remote", "place", "write"} /\ ~xfer[i].cancelled
    /\ part' = PartAfterError(i)
    /\ \E kind \in Faults : Fail(i, kind)
    /\ UNCHANGED <<db, offered, disk, claimed, picked, conf, plan, look>>

\* remote and the first OpenDownload: the destination is known.
Remote(i) ==
    /\ xfer[i].pc = "remote" /\ ~xfer[i].cancelled
    /\ Goto(i, "claim")
    /\ UNCHANGED <<db, offered, fs, claimed, picked, conf, plan, look>>

\* (mutant: the transfers in progress are not held apart in memory)
MayClaim_unguarded(i) == TRUE
MayClaim(i) == claimed[Target(i)] \in {NoId, i}

\* claimPath, under the lock: apart from the other transfers.
ClaimPath(i) ==
    /\ xfer[i].pc = "claim"
    /\ IF MayClaim(i)
       THEN /\ claimed' = [claimed EXCEPT ![Target(i)] = i]
            /\ xfer' = [xfer EXCEPT ![i].pc = "owner", ![i].claim = Target(i)]
       ELSE Fail(i, "final") /\ UNCHANGED claimed
    /\ UNCHANGED <<db, offered, fs, picked, conf, plan, look>>

\* (mutants: a kept copy, or one that waits to be replaced, does not count)
TakenByOther_active_only(i) ==
    \E j \in Id \ {i} : Active(rows[j]) /\ Owns(rows[j], Target(i))
TakenByOther(i) == \E j \in Id \ {i} : Owns(rows[j], Target(i))

\* FileOwningPath: apart from the copies of the other rows.  Then the partial
\* file at the path the row had before is dropped.
CheckOwner(i) ==
    /\ xfer[i].pc = "owner" /\ ~xfer[i].cancelled
    /\ LET old == xfer[i].file.path
       IN  IF TakenByOther(i)
           THEN Fail(i, "final") /\ UNCHANGED part
           ELSE /\ Goto(i, "resolve")
                /\ part' = IF old \in {NoPath, Target(i)} THEN part
                           ELSE [part EXCEPT ![old] = NoCopy]
    /\ UNCHANGED <<db, offered, disk, claimed, picked, conf, plan, look>>

Resolve(i) ==
    /\ xfer[i].pc = "resolve" /\ ~xfer[i].cancelled
    /\ rows' = [rows EXCEPT ![i] = SetFileResolved(@, Target(i))]
    /\ Goto(i, "place")
    /\ UNCHANGED <<unused, offered, fs, claimed, picked, conf, plan, look>>

\* (mutant: a copy is looked for only where the row does not know of any)
LooksForCopy_if_new(i) == FileOf[i] \notin Saves /\ xfer[i].file.path = NoPath

\* Whether a copy that is already there is looked at: never for a save, and by
\* its size alone only where that cannot be the build it is to replace.
LooksForCopy(i) == /\ FileOf[i] \notin Saves
                   /\ FileOf[i] \in Summed \/ xfer[i].file.prev # Target(i)

\* The file is on disk and looks like this one: by its checksum, or by its
\* size alone, which a different build may share.
AlreadyPresent(i) ==
    /\ xfer[i].pc = "place" /\ LooksForCopy(i)
    /\ disk[Target(i)] # NoCopy
    /\ FileOf[i] \in Summed => disk[Target(i)] = Wanted(i)
    /\ Goto(i, "confirm")
    /\ UNCHANGED <<db, offered, fs, claimed, picked, conf, plan, look>>

\* The open transfer goes on from a partial file, or starts a new one: there is
\* none, it is unusable, GOG refuses the range, or this is a save.
OpenPart(i) ==
    /\ xfer[i].pc = "place" /\ ~xfer[i].cancelled
    /\ ~(LooksForCopy(i) /\ disk[Target(i)] = Wanted(i))
    /\ \/ part' = [part EXCEPT ![Target(i)] = Wanted(i)]
       \/ /\ Resumable(i)
          /\ part[Target(i)] \notin {NoCopy, Wanted(i)}
          /\ part' = [part EXCEPT ![Target(i)] = Mixed]
    /\ Goto(i, "write")
    /\ UNCHANGED <<db, offered, disk, claimed, picked, conf, plan, look>>

\* The last byte, the checksum where there is one, and the rename.  A partial
\* file that somebody removed meanwhile cannot be renamed.
WritePart(i) ==
    /\ xfer[i].pc = "write" /\ ~xfer[i].cancelled
    /\ LET p   == Target(i)
           bad == FileOf[i] \in Summed /\ part[p] # Wanted(i)
       IN  IF part[p] = NoCopy \/ bad
           THEN Fail(i, "retry") /\ UNCHANGED disk
           ELSE Goto(i, "complete") /\ disk' = [disk EXCEPT ![p] = part[p]]
    /\ part' = [part EXCEPT ![Target(i)] = NoCopy]
    /\ UNCHANGED <<db, offered, claimed, picked, conf, plan, look>>

AfterComplete(i, ok) ==
    IF ok THEN IF xfer[i].file.prev \in {NoPath, Target(i)} THEN "leave" ELSE "tidy"
    ELSE IF xfer[i].pc = "complete" THEN "discard" ELSE "leave"

\* complete: the statement fails under a cancelled context, and selects no row
\* when the build changed or the file is no longer wanted.  In both cases what
\* was renamed into place is removed again; a file found there stays.
Complete(i) ==
    /\ xfer[i].pc \in {"complete", "confirm"}
    /\ LET ok == ~xfer[i].cancelled /\ StillWants(rows[i], xfer[i].file.build)
       IN  /\ rows' = IF ok THEN [rows EXCEPT ![i] = Completed(@, Target(i))] ELSE rows
           /\ Goto(i, AfterComplete(i, ok))
    /\ UNCHANGED <<unused, offered, fs, claimed, picked, conf, plan, look>>

Discard(i) ==
    /\ xfer[i].pc = "discard"
    /\ disk' = [disk EXCEPT ![Target(i)] = NoCopy]
    /\ Goto(i, "leave")
    /\ UNCHANGED <<db, offered, part, claimed, picked, conf, plan, look>>

\* The superseded version goes, with a partial file beside it.
RemovePrevious(i) ==
    /\ xfer[i].pc = "tidy"
    /\ disk' = [disk EXCEPT ![xfer[i].file.prev] = NoCopy]
    /\ part' = [part EXCEPT ![xfer[i].file.prev] = NoCopy]
    /\ Goto(i, "leave")
    /\ UNCHANGED <<db, offered, claimed, picked, conf, plan, look>>

LastAttempt(r) == r # NoRow /\ r.attempts + 1 >= MaxAttempts

\* fail records the attempt with the context of Run.
RecordFailure(i) ==
    /\ xfer[i].pc = "fail"
    /\ LET giveUp == xfer[i].err = "final" \/ LastAttempt(rows[i])
       IN  rows' = IF stopping THEN rows
                   ELSE [rows EXCEPT ![i] = IF xfer[i].err = "auth" THEN DeferFile(@)
                                            ELSE IF giveUp THEN GiveUp(@) ELSE Retry(@)]
    /\ Goto(i, "leave")
    /\ UNCHANGED <<unused, offered, fs, claimed, picked, conf, plan, look>>

\* (mutant: done is not closed, so Cancel waits on)
Awaited_never(i) == FALSE
Awaited(i) == plan.pc = "wait" /\ plan.at = i

\* The goroutine leaves; whoever waits for it in Cancel goes on.
Leave(i) ==
    /\ xfer[i].pc = "leave"
    /\ xfer' = [xfer EXCEPT ![i] = NoTransfer]
    /\ claimed' = IF xfer[i].claim = NoPath THEN claimed
                  ELSE [claimed EXCEPT ![xfer[i].claim] = NoId]
    /\ plan' = IF Awaited(i) THEN [plan EXCEPT !.pc = "part"] ELSE plan
    /\ UNCHANGED <<db, offered, fs, picked, conf, look>>

TransferStep(i) ==
    \/ Interrupted(i) \/ Broken(i) \/ SizeMismatch(i)
    \/ Remote(i) \/ ClaimPath(i) \/ CheckOwner(i) \/ Resolve(i)
    \/ AlreadyPresent(i) \/ OpenPart(i) \/ WritePart(i)
    \/ Complete(i) \/ Discard(i) \/ RemovePrevious(i)
    \/ RecordFailure(i) \/ Leave(i)

-----------------------------------------------------------------------------
(* The planner.                                                            *)

\* A sync upserts one file.  An unknown one is inserted; for a known one the
\* row is read first, and may be another when the UPDATE runs.
PlanFile(f) ==
    /\ "sync" \in Ops /\ plan.pc = "idle" /\ ~stopping
    /\ LET known == {i \in Id : FileOf[i] = f /\ rows[i] # NoRow}
       IN  IF known = {}
           THEN /\ \E i \in unused : /\ FileOf[i] = f
                                     /\ rows' = [rows EXCEPT ![i] = Fresh(offered[f])]
                                     /\ unused' = unused \ {i}
                /\ UNCHANGED plan
           ELSE /\ \E i \in known :
                     plan' = [NoPlan(offered[f]) EXCEPT !.pc = "upsert", !.at = i,
                                                        !.snap[i] = rows[i]]
                /\ UNCHANGED db
    /\ UNCHANGED <<offered, fs, xfer, claimed, picked, conf, look>>

\* localExists: the upsert looks for the copy before it decides, and the file
\* may come or go until the UPDATE.
LookForCopy ==
    /\ plan.pc = "upsert" /\ seen = "unseen"
    /\ LET p == plan.snap[plan.at].path
       IN  seen' = IF p # NoPath /\ disk[p] # NoCopy THEN "there" ELSE "gone"
    /\ UNCHANGED <<db, offered, fs, xfer, claimed, picked, conf, plan, sweep>>

UpdateRow ==
    /\ plan.pc = "upsert" /\ seen # "unseen"
    /\ LET i      == plan.at
           stored == plan.snap[i]
           onDisk == seen = "there"
       IN  /\ rows' = IF rows[i] = NoRow THEN rows
                      ELSE [rows EXCEPT ![i] = Upsert(@, stored, plan.build, onDisk)]
           /\ plan' = IF ChangedWhilePending(stored, plan.build)
                      THEN [plan EXCEPT !.pc = "abort", !.aborts = {i}, !.at = NoId]
                      ELSE Idle
    /\ seen' = "unseen"
    /\ UNCHANGED <<unused, offered, fs, xfer, claimed, picked, conf, sweep>>

\* DeactivateOtherFiles ("unplan") and dropFiles after a change of settings,
\* options or selection ("keep", "delete") read the files they drop.
ListDropped(S, mode) ==
    /\ mode \in Ops /\ plan.pc = "idle" /\ ~stopping
    /\ S # {} /\ \A i \in S : Active(rows[i])
    /\ plan' = [Idle EXCEPT !.pc = "drop", !.mode = mode, !.todo = S, !.aborts = S,
                            !.snap = [i \in Id |-> IF i \in S THEN rows[i] ELSE NoRow]]
    /\ UNCHANGED <<db, offered, fs, xfer, claimed, picked, conf, look>>

\* A row goes, or stays as inactive for its copy's sake, as the list has it.
DropRow(i) ==
    /\ plan.pc = "drop" /\ i \in plan.todo
    /\ LET f    == plan.snap[i]
           copy == DownloadedPath(f)
           keep == IF plan.mode = "unplan" THEN KeepsRow(f)
                   ELSE plan.mode = "keep" /\ copy # NoPath
           wipe == plan.mode = "delete" /\ copy # NoPath
       IN  /\ rows' = [rows EXCEPT ![i] = IF keep THEN SetFileInactive(@) ELSE NoRow]
           /\ disk' = IF wipe THEN [disk EXCEPT ![copy] = NoCopy] ELSE disk
           /\ part' = IF wipe THEN [part EXCEPT ![copy] = NoCopy] ELSE part
    /\ plan' = [plan EXCEPT !.todo = @ \ {i}]
    /\ UNCHANGED <<unused, offered, xfer, claimed, picked, conf, look>>

\* Only when all rows are gone do the transfers follow; dropFiles leaves out
\* the files that were done.
RowsDropped ==
    /\ plan.pc = "drop" /\ plan.todo = {}
    /\ plan' = [plan EXCEPT !.pc = "abort",
                            !.aborts = {i \in @ : \/ plan.mode = "unplan"
                                                  \/ plan.snap[i].status # "done"}]
    /\ UNCHANGED <<db, offered, fs, xfer, claimed, picked, conf, look>>

\* abortTransfer: Manager.Cancel looks the transfer up, cancels it, and waits.
CancelTransfer(i) ==
    /\ plan.pc = "abort" /\ i \in plan.aborts
    /\ IF i \in Running
       THEN /\ xfer' = [xfer EXCEPT ![i].cancelled = TRUE]
            /\ plan' = [plan EXCEPT !.pc = "wait", !.at = i]
       ELSE /\ plan' = [plan EXCEPT !.pc = "part", !.at = i]
            /\ UNCHANGED xfer
    /\ UNCHANGED <<db, offered, fs, claimed, picked, conf, look>>

\* ... and then the partial file goes, at the path the list has for the row.
RemovePart ==
    /\ plan.pc = "part"
    /\ LET p == plan.snap[plan.at].path
       IN  part' = IF p = NoPath THEN part ELSE [part EXCEPT ![p] = NoCopy]
    /\ plan' = [plan EXCEPT !.pc = "abort", !.aborts = @ \ {plan.at}, !.at = NoId]
    /\ UNCHANGED <<db, offered, disk, xfer, claimed, picked, conf, look>>

PlanDone ==
    /\ plan.pc = "abort" /\ plan.aborts = {}
    /\ plan' = Idle
    /\ UNCHANGED <<db, offered, fs, xfer, claimed, picked, conf, look>>

PlannerStep == \/ LookForCopy \/ UpdateRow \/ RowsDropped \/ RemovePart \/ PlanDone
               \/ \E i \in Id : DropRow(i) \/ CancelTransfer(i)

-----------------------------------------------------------------------------
(* CheckMissing, without the game's lock: it lists what is downloaded,     *)
(* looks for one file after the other, and queues what it does not find.   *)
(* That the root is there is Verify's subject.                             *)

ListDone ==
    /\ "check" \in Ops /\ sweep = NoSweep /\ ~stopping
    /\ sweep' = [NoSweep EXCEPT !.todo = {<<i, rows[i].path>> :
                     i \in {j \in Id : rows[j] # NoRow /\ rows[j].status = "done"}}]
    /\ UNCHANGED <<db, offered, fs, xfer, claimed, picked, conf, plan, seen>>

\* (mutant: a file with a path is not looked for)
Missing_by_path(p) == p = NoPath
Missing(p) == p = NoPath \/ disk[p] = NoCopy

LookForFile ==
    /\ sweep.gone = NoId
    /\ \E e \in sweep.todo :
          sweep' = [todo |-> sweep.todo \ {e},
                    gone |-> IF Missing(e[2]) THEN e[1] ELSE NoId]
    /\ UNCHANGED <<db, offered, fs, xfer, claimed, picked, conf, plan, seen>>

\* The row is reset as it is by now, downloaded again or not, if it is active.
\* Once the context is cancelled the statement fails, and the check with it.
ResetMissing ==
    /\ sweep.gone # NoId
    /\ rows' = IF stopping THEN rows
               ELSE [rows EXCEPT ![sweep.gone] = ResetFile(@)]
    /\ sweep' = IF stopping THEN NoSweep ELSE [sweep EXCEPT !.gone = NoId]
    /\ UNCHANGED <<unused, offered, fs, xfer, claimed, picked, conf, plan, seen>>

SweepStep == ListDone \/ LookForFile \/ ResetMissing

-----------------------------------------------------------------------------
(* Handlers, GOG, time and the process.                                    *)

AtLeastOne(n) == IF n = 0 THEN 1 ELSE n

\* Every running transfer's context is cancelled.
CancelAll == xfer' = [i \in Id |-> [xfer[i] EXCEPT !.cancelled = @ \/ i \in Running]]

\* Configure, called by SetPaused: pausing cancels what is running ...
SetPaused(p) ==
    /\ "pause" \in Ops /\ ~stopping
    /\ paused' = p /\ p # paused
    /\ IF p THEN CancelAll ELSE UNCHANGED xfer
    /\ UNCHANGED <<db, offered, fs, claimed, picked, limit, stopping, plan, look>>

\* ... and by a change of settings: max_concurrent_downloads is n.
SetLimit(n) ==
    /\ "limit" \in Ops /\ ~stopping
    /\ limit' = AtLeastOne(n)
    /\ IF paused THEN CancelAll ELSE UNCHANGED xfer
    /\ UNCHANGED <<db, offered, fs, claimed, picked, paused, stopping, plan, look>>

\* ResetGameErrors takes the failed files; ResetFile (POST .../retry) any.
RetryFile(i) ==
    /\ "retry" \in Ops /\ Active(rows[i]) /\ ~stopping
    /\ rows[i].status = "error" \/ "retry any" \in Ops
    /\ rows' = [rows EXCEPT ![i] = ResetFile(@)]
    /\ UNCHANGED <<unused, offered, fs, xfer, claimed, picked, conf, plan, look>>

\* Somebody removes a file behind the program's back.
Vanish(p) ==
    /\ "vanish" \in Ops /\ disk[p] # NoCopy
    /\ disk' = [disk EXCEPT ![p] = NoCopy]
    /\ UNCHANGED <<db, offered, part, xfer, claimed, picked, conf, plan, look>>

Publish(f) ==
    /\ "publish" \in Ops /\ offered[f] < MaxBuild
    /\ offered' = [offered EXCEPT ![f] = @ + 1]
    /\ UNCHANGED <<db, fs, xfer, claimed, picked, conf, plan, look>>

BackoffOver(i) ==
    /\ rows[i] # NoRow /\ rows[i].waiting
    /\ rows' = [rows EXCEPT ![i].waiting = FALSE]
    /\ UNCHANGED <<unused, offered, fs, xfer, claimed, picked, conf, plan, look>>

\* SIGTERM: Run cancels what is running and waits for it.
Stop ==
    /\ "stop" \in Ops /\ ~stopping
    /\ stopping' = TRUE
    /\ CancelAll
    /\ UNCHANGED <<db, offered, fs, claimed, picked, paused, limit, plan, look>>

\* The next start: the database and the disk are all that is left.
Restarted ==
    /\ xfer' = [i \in Id |-> NoTransfer]
    /\ claimed' = [p \in Path |-> NoId]
    /\ picked' = NoSnap
    /\ plan' = Idle
    /\ seen' = "unseen" /\ sweep' = NoSweep
    /\ stopping' = FALSE
    /\ UNCHANGED <<db, offered, fs, paused, limit>>

Restart == /\ stopping /\ Running = {} /\ picked = NoSnap /\ sweep = NoSweep
           /\ Restarted
Crash   == "crash" \in Ops /\ ~stopping /\ Restarted

Next ==
    \/ Fill
    \/ \E i \in Id : StartTransfer(i) \/ TransferStep(i)
    \/ \E f \in File : PlanFile(f)
    \/ \E S \in SUBSET Id, mode \in {"unplan", "keep", "delete"} : ListDropped(S, mode)
    \/ PlannerStep \/ SweepStep
    \/ \E p \in BOOLEAN : SetPaused(p)
    \/ \E n \in 0..MaxLimit : SetLimit(n)
    \/ \E i \in Id : RetryFile(i) \/ BackoffOver(i)
    \/ \E p \in Path : Vanish(p)
    \/ \E f \in File : Publish(f)
    \/ Stop \/ Restart \/ Crash

Spec == Init /\ [][Next]_vars

\* Run's loop is woken by every change of the queue and by a ticker, a transfer
\* never blocks for good (stall watchdog, request timeouts), time passes, whoever
\* holds the game's lock goes on when it can, and the scheduler has the library
\* checked for missing files.  Nothing is assumed of the user, of GOG's next
\* build, or that a game is planned.
Fairness ==
    /\ WF_vars(Fill) /\ WF_vars(PlannerStep) /\ WF_vars(SweepStep) /\ WF_vars(Restart)
    /\ \A i \in Id : /\ WF_vars(StartTransfer(i)) /\ WF_vars(TransferStep(i))
                     /\ WF_vars(BackoffOver(i))
FairSpec == Spec /\ Fairness

-----------------------------------------------------------------------------
(* Invariants.                                                             *)

\* Transfers from the claim on, which read and write at their destination.
Placing == {i \in Id : xfer[i].pc \in {"owner", "resolve", "place", "write", "complete",
                                       "confirm", "discard", "tidy"}}

\* Where a transfer may still put or remove something.
Attends(i, p) == \/ p = Target(i)
                 \/ xfer[i].pc = "tidy" /\ p = xfer[i].file.prev

\* Two transfers never work on one destination, whatever becomes of their rows
\* and whoever planned two files onto one path (Manager.claimPath).
ClaimsHoldApart ==
    \A i, j \in Placing : i # j => Target(i) # Target(j)

\* A pause or a shutdown reaches every transfer, also one that is being started
\* from a queue that was read before it (Configure, startTransfer, Run).
PauseIsNotLost ==
    paused \/ stopping => \A i \in Running : xfer[i].cancelled

\* What is on disk already is not downloaded again, however the file came to be
\* queued: by a check that was overtaken by its download, by the user, after a
\* crash between rename and record, or under a second row (download, which looks
\* before it fetches; claimPath, which keeps it that way).
FetchesWhatIsMissing ==
    \A i \in Id : xfer[i].pc = "write" /\ FileOf[i] \in Summed \ Saves
                  => disk[Target(i)] # Wanted(i)

\* No two rows record the same file on disk as theirs (claimPath,
\* FileOwningPath, SetFileResolved).
PathsApart ==
    \A i, j \in Id, p \in Path : Owns(rows[i], p) /\ Owns(rows[j], p) => i = j

\* A file presented as downloaded is on disk, complete, and the build its row
\* describes (complete: the bytes "must not be presented as the new one").
DoneIsOnDisk ==
    \A i \in Id :
        rows[i] # NoRow /\ rows[i].status = "done"
        => disk[rows[i].path] = <<FileOf[i], rows[i].build>>

\* While a row waits for a newer build of a file that was downloaded, a
\* complete build of the file is on disk (planUpsert's prev: "an update never
\* leaves the game without an installer").
CopyIsKept ==
    \A i \in Id :
        rows[i] # NoRow /\ rows[i].prev # NoPath
        => \E p \in {rows[i].path, rows[i].prev}, v \in Build :
              p # NoPath /\ disk[p] = <<FileOf[i], v>>

\* Once the planner is through, nothing of a file whose row it removed is in
\* flight (Manager.Cancel, dropFiles).
NothingInFlightOnceDropped ==
    plan.pc = "idle" => \A i \in Running : rows[i] # NoRow

\* A downloaded file stays known to a row until it is replaced or removed
\* (UpsertDesiredFile: "the old path is remembered").
NoStrayFile ==
    \A p \in Path : disk[p] # NoCopy => \/ \E i \in Id : Owns(rows[i], p)
                                        \/ \E i \in Placing : Attends(i, p)

-----------------------------------------------------------------------------
(* What a step may never do.                                               *)

\* What a row records as its copy is changed by the transfer of that very row
\* or by the user's answer "delete", and by nothing else (claimPath: "whatever
\* is on disk belongs to the row that put it there, kept or not").
OnlyOwnerTouches ==
    [][\A p \in Path, j \in Id :
          Owns(rows[j], p) /\ disk'[p] # disk[p]
          => \/ j \in Placing /\ Attends(j, p)
             \/ plan.pc = "drop" /\ plan.mode = "delete" /\ j \in plan.todo]_vars

\* A failed attempt counts against the build that was attempted (planUpsert:
\* "A new build also supersedes a failed attempt at the old one").
FailureIsOfThisBuild ==
    [][\A i \in Running : xfer[i].pc = "fail" /\ rows'[i] # rows[i]
                          => xfer[i].file.build = rows[i].build]_vars

-----------------------------------------------------------------------------
(* The promise of WantedFiles.  A file's row says whether a build is       *)
(* wanted; what is presented and what is kept are the bytes on disk.       *)

\* A file has at most one row: the upsert looks for it first.
RowOf(f) == LET known == {i \in Id : FileOf[i] = f /\ rows[i] # NoRow}
            IN  IF known = {} THEN NoRow ELSE rows[CHOOSE i \in known : TRUE]

\* The build of the bytes at p; bytes of two builds are of none.
BuildAt(p) == IF p = NoPath \/ disk[p] \in {NoCopy, Mixed} THEN 0 ELSE disk[p][2]

Promised(r) ==
    IF r = NoRow THEN [want |-> 0, shown |-> 0, kept |-> 0]
    ELSE [want  |-> IF Active(r) THEN r.build ELSE 0,
          shown |-> IF r.status = "done" THEN BuildAt(r.path) ELSE 0,
          kept  |-> IF Reactivated(r) /\ r.prev = NoPath THEN BuildAt(r.path) ELSE 0]

Promise == INSTANCE WantedFiles WITH
    Files <- File, Builds <- Build, Nothing <- 0,
    file <- [f \in File |-> Promised(RowOf(f))]

\* Sync, queue and disk keep the promise in every order of their steps: what is
\* presented as downloaded is the build wanted at that moment, a newer build is
\* asked for but never an older one, and a copy kept on disk is taken back only
\* as the build it is (UpsertDesiredFileVerified, CompleteFile, keptCopy).
PromiseIsKept == Promise!Spec

-----------------------------------------------------------------------------
(* Liveness, under FairSpec.                                               *)

\* A pause empties the queue's transfers, or is taken back.
PauseDrains == paused ~> Running = {} \/ ~paused

\* Whoever waits in Cancel with the game's lock held gets it back in the end.
PlannerReturns == plan.pc # "idle" ~> plan.pc = "idle"

\* A file that is queued does not stay queued while the queue is not paused: it
\* is downloaded, given up, or no longer wanted.
QueueMoves ==
    \A i \in Id : rows[i] # NoRow /\ rows[i].status = "pending"
                  ~> rows[i] = NoRow \/ rows[i].status # "pending" \/ paused

\* A downloaded file that vanishes from disk is fetched again, unless it is given
\* up, dropped or the queue is paused: the check finds it, whatever the sync and
\* the transfers do between its list, its look and its statement, and the queue
\* sees to the rest (CheckMissing, MarkMissingDone).
LossIsRepaired ==
    \A i \in Id :
        rows[i] # NoRow /\ rows[i].status = "done" /\ disk[rows[i].path] = NoCopy
        ~> \/ rows[i] = NoRow \/ rows[i].status \in {"error", "inactive"} \/ paused
           \/ rows[i].path # NoPath /\ disk[rows[i].path] # NoCopy
=============================================================================
