------------------------------ MODULE FileRows ------------------------------
(***************************************************************************)
(* The rows of the table "files" (internal/db/db.go) and what each of its  *)
(* statements does to one row.  Every operator is one SQL statement or one *)
(* pure rule of the package; the WHERE clause that selects the row is the  *)
(* operator's condition, and a row it does not select comes back as it is. *)
(*                                                                         *)
(* What is abstracted: a build stands for the version, the download link   *)
(* and the bytes GOG serves for it, which change together here; a row with *)
(* active = 0 always has the status 'inactive' and the other way round     *)
(* (SetFileInactive writes both, the upsert resets both), so one field     *)
(* stands for the two columns; next_attempt_at is only in the future or    *)
(* not.                                                                    *)
(***************************************************************************)
EXTENDS Naturals

CONSTANTS
    MaxBuild,     \* how many builds of a file GOG offers, one after the other
    Path,         \* library-relative destinations
    NoPath,       \* the empty local_path or previous_path
    NoRow,        \* "no such row"
    MaxAttempts   \* failures after which a file is given up (4 in the code)

ASSUME NoPathAssumption == NoPath \notin Path
ASSUME MaxBuildAssumption == MaxBuild \in Nat \ {0}
ASSUME MaxAttemptsAssumption == MaxAttempts \in Nat \ {0}

Build == 1..MaxBuild

Status == {"pending", "error", "done", "inactive"}

Row == [status: Status, build: Build, path: Path \cup {NoPath},
        prev: Path \cup {NoPath}, attempts: Nat, waiting: BOOLEAN]

ASSUME NoRowAssumption == NoRow \notin Row

-----------------------------------------------------------------------------
(* Which rows a query selects.                                             *)

Active(r) == r # NoRow /\ r.status # "inactive"

\* NextPendingFiles: what the download queue hands out.
Due(r) == r # NoRow /\ r.status = "pending" /\ ~r.waiting

\* FileOwningPath: the row's copy, or the copy it replaces, is at p.
Owns(r, p) == r # NoRow /\ p # NoPath /\ p \in {r.path, r.prev}

\* downloadedPath: the copy of the file that exists on disk.
DownloadedPath(r) == IF r.status = "done" THEN r.path ELSE r.prev

-----------------------------------------------------------------------------
(* The upsert of a wanted file.                                            *)

Fresh(b) == [status |-> "pending", build |-> b, path |-> NoPath,
             prev |-> NoPath, attempts |-> 0, waiting |-> FALSE]

Reactivated(r) == r.status = "inactive"

\* (mutant: the copy it replaces counts as its own)
KeptCopy_replaced_too(r, onDisk) == Reactivated(r) /\ onDisk
\* The row was dropped with "keep" and its own copy is still there.
KeptCopy(r, onDisk) == Reactivated(r) /\ r.prev = NoPath /\ onDisk

\* (mutant: the destination counts, whether anything was downloaded to it or not)
Replaced_any_path(r, now) == r.path
\* The copy a new build will replace: the row's own, or the one it was to replace.
Replaced(r, now) == IF now.status = "done" THEN r.path ELSE now.prev

\* What the build GOG offers now means for the stored row.  The three rules
\* apply in this order, each to what the one before it left.
PlanUpsert(r, changed, onDisk) ==
    LET kept == KeptCopy(r, onDisk)
        back == IF Reactivated(r)
                THEN [status |-> IF kept /\ ~changed THEN "done" ELSE "pending",
                      prev   |-> IF kept /\ changed THEN r.path ELSE r.prev]
                ELSE [status |-> r.status, prev |-> r.prev]
        new  == IF changed /\ back.status \in {"done", "error"}
                THEN [status |-> "pending", prev |-> Replaced(r, back)]
                ELSE back
    IN  IF new.status = "done" /\ r.path # NoPath /\ ~onDisk
        THEN [new EXCEPT !.status = "pending"]
        ELSE new

\* The UPDATE of UpsertDesiredFileVerified.  Its values were planned from
\* stored; error count and back-off are decided by the row as it is now.
Upsert(r, stored, b, onDisk) ==
    LET u == PlanUpsert(stored, stored.build # b, onDisk)
    IN  [r EXCEPT !.build = b, !.status = u.status, !.prev = u.prev,
                  !.attempts = IF u.status = "pending" /\ r.status # "pending"
                               THEN 0 ELSE r.attempts,
                  !.waiting = FALSE]

\* UpsertFileResult.Changed: a transfer of the old build may be running.
ChangedWhilePending(stored, b) ==
    stored.status \in {"pending", "error"} /\ stored.build # b

-----------------------------------------------------------------------------
(* The other statements.                                                   *)

\* DeactivateOtherFiles keeps the row of a copy that is on disk.
KeepsRow(r) == (r.status = "done" /\ r.path # NoPath) \/ r.prev # NoPath

SetFileInactive(r) == IF r = NoRow THEN r ELSE [r EXCEPT !.status = "inactive"]

SetFileResolved(r, p) == IF r = NoRow THEN r ELSE [r EXCEPT !.path = p]

\* (mutant: the row is selected by its id alone)
StillWants_by_id(r, b) == Active(r)

\* CompleteFile's WHERE: the row still wants the download that was made.
StillWants(r, b) == Active(r) /\ r.build = b

Completed(r, p) == [r EXCEPT !.status = "done", !.path = p, !.prev = NoPath,
                             !.attempts = 0, !.waiting = FALSE]

\* (mutant: the attempt is not counted)
Retry_uncounted(r) == IF Active(r) THEN [r EXCEPT !.status = "pending", !.waiting = TRUE]
                      ELSE r

\* SetFileError with retryAfter > 0, and with 0.
Retry(r) == IF Active(r)
            THEN [r EXCEPT !.status = "pending", !.attempts = @ + 1, !.waiting = TRUE]
            ELSE r
GiveUp(r) == IF Active(r)
             THEN [r EXCEPT !.status = "error", !.attempts = @ + 1, !.waiting = FALSE]
             ELSE r

DeferFile(r) == IF Active(r) THEN [r EXCEPT !.status = "pending", !.waiting = TRUE]
                ELSE r

ResetFile(r) == IF Active(r)
                THEN [r EXCEPT !.status = "pending", !.attempts = 0, !.waiting = FALSE]
                ELSE r
=============================================================================
