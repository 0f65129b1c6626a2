-------------------------- MODULE FilesOnDiskProofs --------------------------
(***************************************************************************)
(* Theorems about what the rows say of the disk, for every choice of the   *)
(* constants that meets the named hypotheses.                              *)
(***************************************************************************)
EXTENDS DownloaderProofs

-----------------------------------------------------------------------------
(* Hypotheses on how GOG names its files.                                  *)

\* A file that shares a destination with another one is not renamed.
SharedNamesStay ==
    \A f, g \in File : \A b, c, d \in Build :
        f # g /\ Dest[f][b] = Dest[g][c] => Dest[f][d] = Dest[f][b]

\* No file is renamed.
NamesStay == \A f \in File : \A b, c \in Build : Dest[f][b] = Dest[f][c]

\* A name that a file gave up does not come back for a later build of it.
NamesMoveOn ==
    \A f \in File : \A b, c, d \in Build :
        b <= c /\ c <= d /\ Dest[f][b] = Dest[f][d] => Dest[f][c] = Dest[f][b]

\* GOG publishes a checksum for every file, and there are no cloud saves.
AllSummed == Summed = File /\ Saves = {}

\* Nobody removes a file behind the program's back.
NobodyElse == "vanish" \notin Ops

-----------------------------------------------------------------------------
(* The rows.                                                               *)

\* A row's paths are destinations of builds up to its own; it has the path of
\* the copy that is to be replaced only next to a path.
WellPlaced(f, r) ==
    r # NoRow => /\ r.path # NoPath => \E c \in 1..r.build : r.path = Dest[f][c]
                 /\ r.prev # NoPath => \E c \in 1..r.build : r.prev = Dest[f][c]
                 /\ r.prev # NoPath => r.path # NoPath

\* What the planner has read of row i, while that decides what becomes of it.
Read(i) == \/ plan.pc = "upsert" /\ i = plan.at
           \/ plan.pc = "drop" /\ i \in plan.todo

PlacedInv == \A i \in Id : /\ WellPlaced(FileOf[i], rows[i])
                           /\ WellPlaced(FileOf[i], picked[i])
                           /\ WellPlaced(FileOf[i], xfer[i].file)
                           /\ Read(i) => WellPlaced(FileOf[i], plan.snap[i])

\* Rows, rows read and transfers are of builds that were offered, and no row
\* is behind a transfer of its file.
BuildInv ==
    \A i \in Id :
        /\ rows[i] # NoRow => rows[i].build <= offered[FileOf[i]]
        /\ \A r \in {picked[i], xfer[i].file} :
              r # NoRow => /\ r.build <= offered[FileOf[i]]
                           /\ \A j \in Id : FileOf[j] = FileOf[i] /\ rows[j] # NoRow
                                            => r.build <= rows[j].build

\* The planner alone removes rows, gives them another build, or a prev.
ReadInv ==
    /\ \A i \in Id : Read(i) =>
          /\ rows[i] # NoRow /\ plan.snap[i] # NoRow
          /\ plan.snap[i].build = rows[i].build
          /\ plan.snap[i].path # NoPath => rows[i].path # NoPath
    /\ plan.pc = "upsert" => /\ rows[plan.at].build <= plan.build
                             /\ plan.build <= offered[FileOf[plan.at]]

OneRow == \A i, j \in Id : rows[i] # NoRow /\ rows[j] # NoRow /\ FileOf[i] = FileOf[j]
                           => i = j

\* Who was read to be started is not running.
PickedInv == \A i \in Id : picked[i] # NoRow => xfer[i].pc = "idle"

\* An id that has not been handed out is nobody's.
UnusedInv == \A i \in unused : /\ rows[i] = NoRow /\ picked[i] = NoRow
                               /\ xfer[i].file = NoRow

RowInv == PlacedInv /\ BuildInv /\ ReadInv /\ OneRow /\ PickedInv /\ UnusedInv

-----------------------------------------------------------------------------
(* The destinations.                                                       *)

\* Transfers that have seen that no other row owns their destination.
Checked == {i \in Id : xfer[i].pc \in {"resolve", "place", "write", "complete",
                                       "confirm", "discard"}}

PathInv ==
    /\ \A i \in Checked : \A j \in Id \ {i} : rows[j] # NoRow => rows[j].path # Target(i)
    /\ \A i, j \in Id : /\ rows[i] # NoRow /\ rows[j] # NoRow
                        /\ rows[i].path = rows[j].path /\ rows[i].path # NoPath
                        => i = j
    /\ \A i \in Id : xfer[i].pc = "tidy" => xfer[i].file.prev \notin {NoPath, Target(i)}

-----------------------------------------------------------------------------
(* The bytes.                                                              *)

\* The copy at the row's path was downloaded for it, and is presented as such
\* now or once the planner has gone on.
HasCopy(i) ==
    /\ rows[i] # NoRow
    /\ \/ rows[i].status = "done"
       \/ rows[i].status = "inactive" /\ rows[i].prev = NoPath
       \/ Read(i) /\ plan.snap[i].status = "done"
       \/ /\ Read(i) /\ plan.pc = "upsert"
          /\ plan.snap[i].status = "inactive" /\ plan.snap[i].prev = NoPath
       \/ Read(i) /\ plan.pc = "drop" /\ plan.snap[i].prev # NoPath /\ rows[i].prev = NoPath

\* Where transfers handle a row's bytes.
Handles(pc) == pc \notin {"idle", "fail", "leave", "tidy"}

\* Row i's build is in its place, and no transfer of the row will write there.
Copied(i) == /\ rows[i].path = Dest[FileOf[i]][rows[i].build]
             /\ disk[rows[i].path] = <<FileOf[i], rows[i].build>>
             /\ picked[i] # NoRow => picked[i].build = rows[i].build
             /\ Handles(xfer[i].pc) => xfer[i].file.build = rows[i].build
             /\ xfer[i].pc \notin {"write", "complete", "discard"}

CopyInv == \A i \in Id : HasCopy(i) => Copied(i)

\* What is about to be recorded as downloaded is there.
ArrivedInv ==
    \A i \in Id : /\ xfer[i].pc \in {"complete", "confirm"}
                  /\ rows[i] # NoRow /\ rows[i].build = xfer[i].file.build
                  => disk[Target(i)] = Wanted(i)

-----------------------------------------------------------------------------
(* What a step can do to rows, to the files on disk and to the rows that   *)
(* the runner, the transfers and the planner have read.                    *)

\* Transfer i goes on to pc.
Advances(i, pc) == /\ xfer[i].pc # "idle"
                   /\ xfer'[i].pc = pc /\ xfer'[i].file = xfer[i].file
                   /\ \A j \in Id \ {i} : xfer'[j] = xfer[j]

\* Nothing that matters: transfers give up or have not got to a row yet.
Calm ==
    /\ rows' = rows
    /\ disk' = disk \/ (~NobodyElse /\ \A p \in Path : disk'[p] \in {disk[p], NoCopy})
    /\ \A f \in File : offered[f] <= offered'[f]
    /\ \A i \in Id : picked'[i] \in {picked[i], NoRow}
    /\ plan' = plan \/ plan'.pc \notin {"upsert", "drop"}
    /\ \A i \in Id :
          \/ xfer'[i].pc = "idle" /\ xfer'[i].file = NoRow
          \/ /\ xfer'[i].file = xfer[i].file
             /\ \/ xfer'[i].pc = xfer[i].pc
                \/ /\ xfer[i].pc \notin {"idle", "leave", "tidy"}
                   /\ xfer'[i].pc \in {"fail", "leave"}
                \/ xfer[i].pc \in {"remote", "claim"} /\ xfer'[i].pc \in {"claim", "owner"}

\* What statements on status, attempts and back-off write.
Marked(r, s) ==
    IF r = NoRow THEN s = NoRow
    ELSE /\ s # NoRow /\ s.build = r.build /\ s.path = r.path /\ s.prev = r.prev
         /\ \/ s.status = r.status
            \/ r.status # "inactive" /\ s.status \in {"pending", "error"}

\* Why a row's status is written by others than the planner: an attempt failed,
\* the user wants it tried again, or a check missed the copy.
Excused(i) == \/ xfer[i].pc = "fail" \/ rows[i].status = "error" \/ "retry any" \in Ops
              \/ sweep.gone = i /\ Active(rows[i])

\* Status, attempts and back-off of row i are written; it may have been a
\* transfer's failure.
Marks(i) ==
    /\ rows' = [rows EXCEPT ![i] = rows'[i]]
    /\ Marked(rows[i], rows'[i])
    /\ rows[i] # NoRow /\ rows'[i].status # rows[i].status => Excused(i)
    /\ UNCHANGED <<disk, offered, picked, plan>>
    /\ xfer' = xfer \/ Advances(i, "leave")

Begins(i) ==
    /\ picked[i] # NoRow /\ picked'[i] = NoRow
    /\ \A j \in Id : picked'[j] \in {picked[j], NoRow}
    /\ xfer[i].pc = "idle" /\ xfer'[i].pc = "remote" /\ xfer'[i].file = picked[i]
    /\ \A j \in Id \ {i} : xfer'[j] = xfer[j]
    /\ UNCHANGED <<rows, disk, offered, plan>>

Works(i) ==
    \/ CheckOwner(i) /\ ~TakenByOther(i) /\ Advances(i, "resolve")
    \/ Resolve(i) /\ Advances(i, "place")
    \/ AlreadyPresent(i) /\ Advances(i, "confirm")
    \/ OpenPart(i) /\ Advances(i, "write")
    \/ WritePart(i) /\ Advances(i, "complete")
    \/ Complete(i) /\ \E pc \in {"leave", "tidy", "discard"} : Advances(i, pc)
    \/ Discard(i) /\ Advances(i, "leave")
    \/ RemovePrevious(i) /\ Advances(i, "leave")

Plans == \/ \E f \in File : PlanFile(f)
         \/ UpdateRow
         \/ \E S \in SUBSET Id, mode \in {"unplan", "keep", "delete"} : ListDropped(S, mode)
         \/ \E i \in Id : DropRow(i)

LEMMA GotoAdvances ==
    ASSUME TypeInv, NEW i \in Id, xfer[i].pc # "idle", NEW pc, Goto(i, pc)
    PROVE  Advances(i, pc)
  BY DEF TypeInv, TypeOK, Transfer, Goto, Advances

LEMMA FailAdvances ==
    ASSUME TypeInv, NEW i \in Id, xfer[i].pc # "idle", NEW kind, Fail(i, kind)
    PROVE  Advances(i, "fail")
  BY DEF TypeInv, TypeOK, Transfer, Fail, Advances

LEMMA AdvanceIsCalm ==
    ASSUME TypeInv, NEW i \in Id, NEW pc, Advances(i, pc),
           \/ xfer[i].pc \notin {"leave", "tidy"} /\ pc \in {"fail", "leave"}
           \/ xfer[i].pc \in {"remote", "claim"} /\ pc \in {"claim", "owner"},
           UNCHANGED <<rows, disk, offered, picked, plan>>
    PROVE  Calm
  <1>1. \A f \in File : offered[f] <= offered'[f]
    BY DEF TypeInv, TypeOK, Build
  <1>2. ASSUME NEW j \in Id
        PROVE  /\ xfer'[j].file = xfer[j].file
               /\ \/ xfer'[j].pc = xfer[j].pc
                  \/ /\ xfer[j].pc \notin {"idle", "leave", "tidy"}
                     /\ xfer'[j].pc \in {"fail", "leave"}
                  \/ xfer[j].pc \in {"remote", "claim"} /\ xfer'[j].pc \in {"claim", "owner"}
    BY DEF Advances
  <1> QED BY <1>1, <1>2 DEF Calm

LEMMA StatementsMark ==
    ASSUME NEW r \in Row
    PROVE  /\ Marked(r, DeferFile(r)) /\ Marked(r, GiveUp(r)) /\ Marked(r, Retry(r))
           /\ Marked(r, ResetFile(r)) /\ Marked(r, [r EXCEPT !.waiting = FALSE])
  <1>0. r # NoRow /\ r.attempts + 1 \in Nat
    BY NoRowAssumption DEF Row
  <1>1. Marked(r, DeferFile(r))
    <2>1. DeferFile(r) \in Row
      BY DEF DeferFile, Active, Row, Status
    <2> QED BY <1>0, <2>1, NoRowAssumption DEF Marked, DeferFile, Active, Row
  <1>2. Marked(r, GiveUp(r))
    <2>1. GiveUp(r) \in Row
      BY <1>0 DEF GiveUp, Active, Row, Status
    <2> QED BY <1>0, <2>1, NoRowAssumption DEF Marked, GiveUp, Active, Row
  <1>3. Marked(r, Retry(r))
    <2>1. Retry(r) \in Row
      BY <1>0 DEF Retry, Active, Row, Status
    <2> QED BY <1>0, <2>1, NoRowAssumption DEF Marked, Retry, Active, Row
  <1>4. Marked(r, ResetFile(r))
    <2>1. ResetFile(r) \in Row
      BY <1>0 DEF ResetFile, Active, Row, Status
    <2> QED BY <1>0, <2>1, NoRowAssumption DEF Marked, ResetFile, Active, Row
  <1>5. Marked(r, [r EXCEPT !.waiting = FALSE])
    <2>1. [r EXCEPT !.waiting = FALSE] \in Row
      BY DEF Row
    <2> QED BY <1>0, <2>1, NoRowAssumption DEF Marked, Row
  <1> QED BY <1>1, <1>2, <1>3, <1>4, <1>5

LEMMA TransferWorks ==
    ASSUME TypeInv, NEW i \in Id, TransferStep(i)
    PROVE  Calm \/ Works(i) \/ Marks(i)
  <1>. USE DEF db, fs, conf
  <1>1. CASE Interrupted(i)
    BY <1>1, GotoAdvances, AdvanceIsCalm DEF Interrupted
  <1>2. CASE Broken(i)
    <2>1. PICK kind \in Faults : Fail(i, kind)
      BY <1>2 DEF Broken
    <2> QED BY <1>2, <2>1, FailAdvances, AdvanceIsCalm DEF Broken
  <1>3. CASE SizeMismatch(i)
    BY <1>3, FailAdvances, AdvanceIsCalm DEF SizeMismatch
  <1>4. CASE Remote(i)
    BY <1>4, GotoAdvances, AdvanceIsCalm DEF Remote
  <1>5. CASE ClaimPath(i)
    <2>1. CASE MayClaim(i)
      <3>1. Advances(i, "owner")
        BY <1>5, <2>1 DEF ClaimPath, TypeInv, TypeOK, Transfer, Advances
      <3> QED BY <1>5, <3>1, AdvanceIsCalm DEF ClaimPath
    <2>2. CASE ~MayClaim(i)
      BY <1>5, <2>2, FailAdvances, AdvanceIsCalm DEF ClaimPath
    <2> QED BY <2>1, <2>2
  <1>6. CASE CheckOwner(i)
    <2>1. CASE TakenByOther(i)
      BY <1>6, <2>1, FailAdvances, AdvanceIsCalm DEF CheckOwner
    <2>2. CASE ~TakenByOther(i)
      BY <1>6, <2>2, GotoAdvances DEF CheckOwner, Works
    <2> QED BY <2>1, <2>2
  <1>7. CASE Resolve(i)
    BY <1>7, GotoAdvances DEF Resolve, Works
  <1>8. CASE AlreadyPresent(i)
    BY <1>8, GotoAdvances DEF AlreadyPresent, Works
  <1>9. CASE OpenPart(i)
    BY <1>9, GotoAdvances DEF OpenPart, Works
  <1>10. CASE WritePart(i)
    <2>1. CASE Goto(i, "complete")
      BY <1>10, <2>1, GotoAdvances DEF WritePart, Works
    <2>2. CASE ~Goto(i, "complete")
      <3>1. Fail(i, "retry") /\ UNCHANGED <<rows, disk, offered, picked, plan>>
        BY <1>10, <2>2 DEF WritePart
      <3> QED BY <1>10, <3>1, FailAdvances, AdvanceIsCalm DEF WritePart
    <2> QED BY <2>1, <2>2
  <1>11. CASE Complete(i)
    <2>1. PICK ok \in BOOLEAN : Goto(i, AfterComplete(i, ok))
      BY <1>11 DEF Complete, StillWants, Active
    <2>2. AfterComplete(i, ok) \in {"leave", "tidy", "discard"}
      BY DEF AfterComplete
    <2> QED BY <1>11, <2>1, <2>2, GotoAdvances DEF Complete, Works
  <1>12. CASE Discard(i)
    BY <1>12, GotoAdvances DEF Discard, Works
  <1>13. CASE RemovePrevious(i)
    BY <1>13, GotoAdvances DEF RemovePrevious, Works
  <1>14. CASE RecordFailure(i)
    <2>1. Advances(i, "leave")
      BY <1>14, GotoAdvances DEF RecordFailure
    <2>2. CASE rows' = rows
      BY <1>14, <2>1, <2>2, AdvanceIsCalm DEF RecordFailure
    <2>3. CASE rows' # rows
      <3>1. PICK r \in {DeferFile(rows[i]), GiveUp(rows[i]), Retry(rows[i])} :
                rows' = [rows EXCEPT ![i] = r]
        BY <1>14, <2>3 DEF RecordFailure
      <3>2. rows'[i] = r /\ rows' = [rows EXCEPT ![i] = rows'[i]]
        BY <3>1 DEF TypeInv, TypeOK
      <3>3. rows[i] \in Row \cup {NoRow}
        BY DEF TypeInv, TypeOK
      <3>4. rows[i] = NoRow => Marked(rows[i], r)
        BY <3>1 DEF Marked, DeferFile, GiveUp, Retry, Active
      <3>5. rows[i] # NoRow => Marked(rows[i], r)
        BY <3>1, <3>3, StatementsMark
      <3>6. Marked(rows[i], rows'[i])
        BY <3>2, <3>4, <3>5
      <3>7. Excused(i)
        BY <1>14 DEF RecordFailure, Excused
      <3> QED BY <1>14, <2>1, <3>2, <3>6, <3>7 DEF RecordFailure, Marks
    <2> QED BY <2>2, <2>3
  <1>15. CASE Leave(i)
    <2>1. /\ xfer'[i].pc = "idle" /\ xfer'[i].file = NoRow
          /\ \A j \in Id \ {i} : xfer'[j] = xfer[j]
      BY <1>15 DEF Leave, NoTransfer, TypeInv, TypeOK
    <2>2. \A f \in File : offered[f] <= offered'[f]
      BY <1>15 DEF Leave, TypeInv, TypeOK, Build
    <2> QED BY <1>15, <2>1, <2>2 DEF Leave, Calm
  <1> QED BY <1>1, <1>2, <1>3, <1>4, <1>5, <1>6, <1>7, <1>8, <1>9, <1>10, <1>11, <1>12,
             <1>13, <1>14, <1>15 DEF TransferStep

LEMMA HandlersMark ==
    ASSUME TypeInv, NEW i \in Id, RetryFile(i) \/ BackoffOver(i)
    PROVE  Marks(i)
  <1>1. rows[i] \in Row
    BY DEF RetryFile, BackoffOver, Active, TypeInv, TypeOK
  <1>2. PICK r \in {ResetFile(rows[i]), [rows[i] EXCEPT !.waiting = FALSE]} :
            rows' = [rows EXCEPT ![i] = r]
    BY DEF RetryFile, BackoffOver
  <1>3. Marked(rows[i], r)
    BY <1>1, <1>2, StatementsMark
  <1>4. rows'[i] = r
    BY <1>2 DEF TypeInv, TypeOK
  <1>5. rows' = [rows EXCEPT ![i] = rows'[i]] /\ Marked(rows[i], rows'[i])
    BY <1>2, <1>3, <1>4
  <1>6. UNCHANGED <<disk, offered, picked, plan, xfer>>
    BY DEF RetryFile, BackoffOver, fs
  <1>7. rows'[i].status # rows[i].status => Excused(i)
    <2>1. CASE RetryFile(i)
      BY <2>1 DEF RetryFile, Excused
    <2>2. CASE BackoffOver(i)
      <3>1. rows'[i] = [rows[i] EXCEPT !.waiting = FALSE]
        BY <2>2 DEF BackoffOver, TypeInv, TypeOK
      <3> QED BY <1>1, <3>1 DEF Row
    <2> QED BY <2>1, <2>2
  <1> QED BY <1>5, <1>6, <1>7 DEF Marks

LEMMA SweepMarks == ASSUME TypeInv, SweepStep PROVE Calm \/ \E i \in Id : Marks(i)
  <1>0. \A f \in File : offered[f] <= offered[f]
    BY DEF TypeInv, TypeOK, Build
  <1>1. UNCHANGED <<disk, offered, picked, plan, xfer>>
    BY DEF SweepStep, ListDone, LookForFile, ResetMissing, fs
  <1>2. CASE rows' = rows
    BY <1>0, <1>1, <1>2 DEF Calm
  <1>3. CASE rows' # rows
    <2>. DEFINE i == sweep.gone
    <2>1. i # NoId /\ rows' = [rows EXCEPT ![i] = ResetFile(rows[i])]
      BY <1>3 DEF SweepStep, ListDone, LookForFile, ResetMissing, db
    <2>2. i \in Id
      BY <2>1 DEF TypeInv, TypeOK, Sweep
    <2>3. rows[i] \in Row \cup {NoRow} /\ rows'[i] = ResetFile(rows[i])
      BY <2>1, <2>2 DEF TypeInv, TypeOK
    <2>4. rows[i] = NoRow => Marked(rows[i], rows'[i])
      BY <2>3 DEF Marked, ResetFile, Active
    <2>5. rows[i] # NoRow => Marked(rows[i], rows'[i])
      BY <2>3, StatementsMark
    <2>6. rows' = [rows EXCEPT ![i] = rows'[i]]
      BY <2>1, <2>3
    <2>7. rows[i] # NoRow /\ rows'[i] # rows[i] => Excused(i)
      BY <2>3 DEF ResetFile, Excused
    <2> QED BY <1>1, <2>2, <2>4, <2>5, <2>6, <2>7 DEF Marks
  <1> QED BY <1>2, <1>3

LEMMA PlannerPlans == ASSUME TypeInv, PlannerStep PROVE Calm \/ Plans
  <1>0. \A f \in File : offered[f] <= offered[f]
    BY DEF TypeInv, TypeOK, Build
  <1>1. ASSUME RowsDropped \/ RemovePart \/ PlanDone PROVE Calm
    <2>1. plan'.pc \notin {"upsert", "drop"}
      <3>1. RowsDropped => plan'.pc = "abort"
        BY DEF RowsDropped, TypeInv, TypeOK, Plan
      <3>2. RemovePart => plan'.pc = "abort"
        BY DEF RemovePart, TypeInv, TypeOK, Plan
      <3>3. PlanDone => plan'.pc = "idle"
        BY DEF PlanDone, Idle, NoPlan
      <3> QED BY <1>1, <3>1, <3>2, <3>3
    <2>2. UNCHANGED <<rows, disk, offered, xfer, picked>>
      BY <1>1 DEF RowsDropped, RemovePart, PlanDone, db, fs
    <2> QED BY <1>0, <2>1, <2>2 DEF Calm
  <1>2. ASSUME NEW i \in Id, CancelTransfer(i) PROVE Calm
    <2>1. plan'.pc \in {"wait", "part"}
      BY <1>2 DEF CancelTransfer, TypeInv, TypeOK, Plan
    <2>2. \A j \in Id : xfer'[j].pc = xfer[j].pc /\ xfer'[j].file = xfer[j].file
      BY <1>2 DEF CancelTransfer, TypeInv, TypeOK, Transfer
    <2>3. UNCHANGED <<rows, disk, offered, picked>>
      BY <1>2 DEF CancelTransfer, db, fs
    <2> QED BY <1>0, <2>1, <2>2, <2>3 DEF Calm
  <1>3. ASSUME LookForCopy PROVE Calm
    <2>1. UNCHANGED <<rows, disk, offered, xfer, picked, plan>>
      BY <1>3 DEF LookForCopy, db, fs
    <2> QED BY <1>0, <2>1 DEF Calm
  <1> QED BY <1>1, <1>2, <1>3 DEF PlannerStep, Plans

LEMMA FileSteps ==
    ASSUME TypeInv, [Next]_vars
    PROVE  Calm \/ Fill \/ Plans \/ \E i \in Id : Begins(i) \/ Works(i) \/ Marks(i)
  <1>0. \A f \in File : offered[f] <= offered[f]
    BY DEF TypeInv, TypeOK, Build
  <1>1. ASSUME NEW i \in Id, StartTransfer(i) PROVE Calm \/ Begins(i)
    <2>0. picked'[i] = NoRow /\ \A j \in Id : picked'[j] \in {picked[j], NoRow}
      BY <1>1 DEF StartTransfer, NoSnap, TypeInv, TypeOK
    <2>1. CASE CanStart(i) /\ xfer' # xfer
      <3>1. xfer' = [xfer EXCEPT ![i] = [NoTransfer EXCEPT !.pc = "remote",
                                                           !.file = picked[i],
                                                           !.cancelled = stopping]]
        BY <1>1, <2>1 DEF StartTransfer
      <3>2. xfer'[i].pc = "remote" /\ xfer'[i].file = picked[i]
            /\ \A j \in Id \ {i} : xfer'[j] = xfer[j]
        BY <3>1 DEF NoTransfer, TypeInv, TypeOK
      <3> QED BY <1>1, <2>0, <2>1, <3>2 DEF StartTransfer, CanStart, Begins, db, fs
    <2>2. CASE xfer' = xfer
      <3>1. UNCHANGED <<rows, disk, offered, xfer, plan>>
        BY <1>1, <2>2 DEF StartTransfer, db, fs
      <3> QED BY <1>0, <2>0, <3>1 DEF Calm
    <2> QED BY <1>1, <2>1, <2>2 DEF StartTransfer
  <1>2. ASSUME CancelAll, UNCHANGED <<rows, disk, offered, picked, plan>> PROVE Calm
    <2>1. ASSUME NEW i \in Id
          PROVE  xfer'[i].pc = xfer[i].pc /\ xfer'[i].file = xfer[i].file
      BY <1>2 DEF CancelAll, TypeInv, TypeOK, Transfer
    <2> QED BY <1>0, <1>2, <2>1 DEF Calm
  <1>3. ASSUME UNCHANGED <<rows, disk, offered, picked, plan, xfer>> PROVE Calm
    BY <1>0, <1>3 DEF Calm
  <1>4. ASSUME NEW p \in BOOLEAN, SetPaused(p) PROVE Calm
    BY <1>2, <1>3, <1>4 DEF SetPaused, db, fs
  <1>5. ASSUME NEW n \in 0..MaxLimit, SetLimit(n) PROVE Calm
    BY <1>2, <1>3, <1>5 DEF SetLimit, db, fs
  <1>6. ASSUME Stop PROVE Calm
    BY <1>2, <1>6 DEF Stop, db, fs
  <1>7. ASSUME NEW p \in Path, Vanish(p) PROVE Calm
    <2>1. ~NobodyElse /\ UNCHANGED <<rows, offered, picked, plan, xfer>>
      BY <1>7 DEF Vanish, NobodyElse, db
    <2>2. \A q \in Path : disk'[q] \in {disk[q], NoCopy}
      BY <1>7 DEF Vanish, TypeInv, TypeOK
    <2> QED BY <1>0, <2>1, <2>2 DEF Calm
  <1>8. ASSUME NEW f \in File, Publish(f) PROVE Calm
    <2>1. \A g \in File : offered[g] <= offered'[g]
      BY <1>8 DEF Publish, TypeInv, TypeOK, Build
    <2> QED BY <1>8, <2>1 DEF Publish, Calm, db, fs
  <1>9. ASSUME Restarted PROVE Calm
    <2>1. plan'.pc = "idle" /\ \A i \in Id : /\ picked'[i] = NoRow
                                            /\ xfer'[i].pc = "idle"
                                            /\ xfer'[i].file = NoRow
      BY <1>9 DEF Restarted, Idle, NoPlan, NoSnap, NoTransfer
    <2>2. UNCHANGED <<rows, disk, offered>>
      BY <1>9 DEF Restarted, db, fs
    <2> QED BY <1>0, <2>1, <2>2 DEF Calm
  <1>10. ASSUME UNCHANGED vars PROVE Calm
    BY <1>3, <1>10 DEF vars
  <1> QED BY <1>1, <1>4, <1>5, <1>6, <1>7, <1>8, <1>9, <1>10,
             TransferWorks, HandlersMark, SweepMarks, PlannerPlans
          DEF Next, Plans, Restart, Crash

-----------------------------------------------------------------------------
(* The rows, step by step.                                                 *)

\* Row i as far as its existence, build and paths go.
Alike(r, s) == IF r = NoRow THEN s = NoRow
               ELSE s # NoRow /\ s.build = r.build /\ s.path = r.path /\ s.prev = r.prev

Moved(i) == /\ i \in Checked /\ rows[i] # NoRow /\ rows'[i] # NoRow
            /\ rows'[i].build = rows[i].build /\ rows'[i].path = Target(i)
            /\ rows'[i].prev \in {rows[i].prev, NoPath}
Inserted(i) == /\ i \in unused /\ i \notin unused'
               /\ \A j \in Id : FileOf[j] = FileOf[i] => rows[j] = NoRow
               /\ rows'[i] = Fresh(offered[FileOf[i]])
               /\ plan.pc = "idle" /\ plan' = plan
Updated(i) == /\ plan.pc = "upsert" /\ i = plan.at /\ ~Read(i)'
              /\ rows[i] # NoRow /\ rows'[i] # NoRow
              /\ rows'[i].build = plan.build /\ rows'[i].path = rows[i].path
              /\ rows'[i].prev \in {plan.snap[i].path, plan.snap[i].prev}
Removed(i) == Read(i) /\ rows'[i] = NoRow /\ ~Read(i)'

RowsStep == \/ \A i \in Id : Alike(rows[i], rows'[i])
            \/ \E i \in Id : /\ Moved(i) \/ Inserted(i) \/ Updated(i) \/ Removed(i)
                             /\ \A j \in Id \ {i} : rows'[j] = rows[j]

\* What the planner goes by is what it has read, or what it reads now.
ReadStep == \/ /\ \A i \in Id : Read(i)' => Read(i) /\ plan'.snap[i] = plan.snap[i]
               /\ plan'.pc = "upsert" => plan' = plan
            \/ /\ rows' = rows
               /\ \A i \in Id : Read(i)' => plan'.snap[i] = rows[i] /\ rows[i] # NoRow
               /\ plan'.pc = "upsert" => plan'.build = offered[FileOf[plan'.at]]

\* A transfer goes by a row that was picked, and only a stored row is picked.
HandsStep == \A i \in Id : /\ \/ picked'[i] \in {picked[i], NoRow}
                              \/ picked'[i] = rows[i] /\ Due(rows[i])
                           /\ xfer'[i].file \in {xfer[i].file, NoRow, picked[i]}
OffersGrow == \A f \in File : offered[f] <= offered'[f]
IdsAreSpent == unused' \subseteq unused

LEMMA Typed ==
    ASSUME TypeInv, NEW i \in Id
    PROVE  /\ FileOf[i] \in File /\ offered[FileOf[i]] \in Nat
           /\ \A r \in {rows[i], picked[i], xfer[i].file, plan.snap[i]} :
                 r # NoRow => /\ r \in Row /\ r.build \in Nat \ {0} /\ r.build \in Build
                              /\ Dest[FileOf[i]][r.build] \in Path
  <1>1. FileOf[i] \in File /\ offered[FileOf[i]] \in Nat
    BY FileOfAssumption DEF TypeInv, TypeOK, Build
  <1>2. ASSUME NEW r \in {rows[i], picked[i], xfer[i].file, plan.snap[i]}, r # NoRow
        PROVE  r \in Row
    BY <1>2 DEF TypeInv, TypeOK, Transfer, Plan
  <1>3. ASSUME NEW r \in Row
        PROVE  r.build \in Nat \ {0} /\ r.build \in Build /\ Dest[FileOf[i]][r.build] \in Path
    <2>1. r.build \in Build
      BY DEF Row
    <2>2. r.build \in Nat \ {0}
      BY <2>1, MaxBuildAssumption DEF Build
    <2> QED BY <1>1, <2>1, <2>2, DestAssumption
  <1> QED BY <1>1, <1>2, <1>3

LEMMA HandsFollow == TypeInv /\ [Next]_vars => HandsStep /\ OffersGrow
  <1>. SUFFICES ASSUME TypeInv, [Next]_vars PROVE HandsStep /\ OffersGrow
    OBVIOUS
  <1>0. /\ \A f \in File : offered[f] <= offered[f]
        /\ picked \in [Id -> Row \cup {NoRow}]
    BY DEF TypeInv, TypeOK, Build
  <1>1. CASE Calm
    BY <1>1 DEF Calm, HandsStep, OffersGrow
  <1>2. CASE Fill
    BY <1>0, <1>2 DEF Fill, HandsStep, OffersGrow
  <1>3. CASE Plans
    BY <1>0, <1>3 DEF Plans, PlanFile, UpdateRow, ListDropped, DropRow, HandsStep, OffersGrow
  <1>4. ASSUME NEW i \in Id, Begins(i) PROVE HandsStep /\ OffersGrow
    BY <1>0, <1>4 DEF Begins, HandsStep, OffersGrow
  <1>5. ASSUME NEW i \in Id, Works(i) PROVE HandsStep /\ OffersGrow
    <2>1. UNCHANGED <<offered, picked>>
      BY <1>5 DEF Works, CheckOwner, Resolve, AlreadyPresent, OpenPart, WritePart, Complete,
                  Discard, RemovePrevious, db, fs
    <2>2. \E pc : Advances(i, pc)
      BY <1>5 DEF Works
    <2> QED BY <1>0, <2>1, <2>2 DEF Advances, HandsStep, OffersGrow
  <1>6. ASSUME NEW i \in Id, Marks(i) PROVE HandsStep /\ OffersGrow
    BY <1>0, <1>6 DEF Marks, Advances, HandsStep, OffersGrow
  <1> QED BY <1>1, <1>2, <1>3, <1>4, <1>5, <1>6, FileSteps

LEMMA ReadsFollow == TypeInv /\ [Next]_vars => ReadStep
  <1>. SUFFICES ASSUME TypeInv, [Next]_vars PROVE ReadStep
    OBVIOUS
  <1>1. plan' = plan \/ plan'.pc \notin {"upsert", "drop"} => ReadStep
    BY DEF ReadStep, Read
  <1>2. CASE Calm \/ Fill \/ \E i \in Id : Begins(i) \/ Works(i) \/ Marks(i)
    <2>1. plan' = plan \/ plan'.pc \notin {"upsert", "drop"}
      BY <1>2 DEF Calm, Fill, Begins, Works, Marks, CheckOwner, Resolve, AlreadyPresent,
                  OpenPart, WritePart, Complete, Discard, RemovePrevious
    <2> QED BY <1>1, <2>1
  <1>3. ASSUME NEW f \in File, PlanFile(f) PROVE ReadStep
    <2>1. CASE plan' = plan
      BY <1>1, <2>1
    <2>2. CASE plan' # plan
      <3>1. PICK i \in Id : /\ FileOf[i] = f /\ rows[i] # NoRow
                            /\ plan' = [NoPlan(offered[f]) EXCEPT !.pc = "upsert", !.at = i,
                                                                  !.snap[i] = rows[i]]
        BY <1>3, <2>2 DEF PlanFile
      <3>2. /\ plan'.pc = "upsert" /\ plan'.at = i /\ plan'.build = offered[f]
            /\ plan'.snap[i] = rows[i]
        BY <3>1 DEF NoPlan, NoSnap
      <3>3. rows' = rows
        BY <1>3, <2>2 DEF PlanFile, db
      <3> QED BY <3>1, <3>2, <3>3 DEF ReadStep, Read
    <2> QED BY <2>1, <2>2
  <1>4. CASE UpdateRow
    <2>1. plan'.pc \notin {"upsert", "drop"}
      <3>1. \/ plan' = Idle
            \/ \E i : plan' = [plan EXCEPT !.pc = "abort", !.aborts = {i}, !.at = NoId]
        BY <1>4 DEF UpdateRow
      <3>2. Idle.pc = "idle"
        BY DEF Idle, NoPlan
      <3> QED BY <3>1, <3>2 DEF TypeInv, TypeOK, Plan
    <2> QED BY <1>1, <2>1
  <1>5. ASSUME NEW S \in SUBSET Id, NEW mode \in {"unplan", "keep", "delete"},
               ListDropped(S, mode)
        PROVE  ReadStep
    <2>1. /\ plan'.pc = "drop" /\ plan'.todo = S
          /\ \A i \in S : plan'.snap[i] = rows[i] /\ rows[i] # NoRow
      BY <1>5 DEF ListDropped, Idle, NoPlan, Active
    <2>2. rows' = rows
      BY <1>5 DEF ListDropped, db
    <2> QED BY <2>1, <2>2 DEF ReadStep, Read
  <1>6. ASSUME NEW i \in Id, DropRow(i) PROVE ReadStep
    <2>1. /\ plan'.pc = "drop" /\ plan.pc = "drop" /\ plan'.todo = plan.todo \ {i}
          /\ plan'.snap = plan.snap
      BY <1>6 DEF DropRow, TypeInv, TypeOK, Plan
    <2> QED BY <2>1 DEF ReadStep, Read
  <1> QED BY <1>2, <1>3, <1>4, <1>5, <1>6, FileSteps DEF Plans

LEMMA UpsertWrites ==
    ASSUME NEW r \in Row, NEW stored \in Row, NEW b \in Build, NEW onDisk \in BOOLEAN
    PROVE  /\ Upsert(r, stored, b, onDisk) # NoRow
           /\ Upsert(r, stored, b, onDisk).build = b
           /\ Upsert(r, stored, b, onDisk).path = r.path
           /\ Upsert(r, stored, b, onDisk).prev \in {stored.path, stored.prev}
  <1>. DEFINE u == PlanUpsert(stored, stored.build # b, onDisk)
  <1>1. u.prev \in {stored.path, stored.prev}
    BY DEF PlanUpsert, Replaced, Row
  <1>. HIDE DEF u
  <1>2. Upsert(r, stored, b, onDisk) \in Row
    BY UpsertIsRow
  <1>3. /\ Upsert(r, stored, b, onDisk).build = b
        /\ Upsert(r, stored, b, onDisk).path = r.path
        /\ Upsert(r, stored, b, onDisk).prev = u.prev
    BY DEF Upsert, u, Row
  <1> QED BY <1>1, <1>2, <1>3, NoRowAssumption

LEMMA RowsFollow == TypeInv /\ [Next]_vars => RowsStep
  <1>. SUFFICES ASSUME TypeInv, [Next]_vars PROVE RowsStep
    OBVIOUS
  <1>0. rows \in [Id -> Row \cup {NoRow}] /\ rows' \in [Id -> Row \cup {NoRow}]
    BY StepTypeInv DEF TypeInv, TypeOK
  <1>1. rows' = rows => RowsStep
    BY DEF RowsStep, Alike
  <1>2. CASE Calm \/ Fill \/ \E i \in Id : Begins(i)
    BY <1>1, <1>2 DEF Calm, Fill, Begins, db
  <1>3. ASSUME NEW i \in Id, Marks(i) PROVE RowsStep
    <2>1. \A j \in Id \ {i} : rows'[j] = rows[j]
      BY <1>0, <1>3 DEF Marks
    <2>2. Alike(rows[i], rows'[i])
      BY <1>3 DEF Marks, Marked, Alike
    <2>3. \A j \in Id : Alike(rows[j], rows'[j])
      BY <2>1, <2>2 DEF Alike
    <2> QED BY <2>3 DEF RowsStep
  <1>4. ASSUME NEW i \in Id, Works(i) PROVE RowsStep
    <2>1. CASE Resolve(i)
      <3>1. rows' = [rows EXCEPT ![i] = SetFileResolved(rows[i], Target(i))] /\ i \in Checked
        BY <2>1 DEF Resolve, Checked
      <3>2. rows'[i] = SetFileResolved(rows[i], Target(i))
            /\ \A j \in Id \ {i} : rows'[j] = rows[j]
        BY <1>0, <3>1
      <3>3. CASE rows[i] = NoRow
        <4>1. \A j \in Id : Alike(rows[j], rows'[j])
          BY <3>2, <3>3 DEF SetFileResolved, Alike
        <4> QED BY <4>1 DEF RowsStep
      <3>4. CASE rows[i] # NoRow
        <4>1. rows[i] \in Row /\ rows'[i] = [rows[i] EXCEPT !.path = Target(i)]
          BY <1>0, <3>2, <3>4 DEF SetFileResolved
        <4>2. /\ rows'[i].build = rows[i].build /\ rows'[i].path = Target(i)
              /\ rows'[i].prev = rows[i].prev
          BY <4>1 DEF Row
        <4>3. rows'[i] # NoRow
          <5>1. i \in Running
            BY <2>1 DEF Resolve, Running
          <5>2. [rows[i] EXCEPT !.path = Target(i)] \in Row
            BY <4>1, <5>1, Destination DEF Row
          <5> QED BY <4>1, <5>2, NoRowAssumption
        <4> QED BY <3>1, <3>2, <3>4, <4>2, <4>3 DEF RowsStep, Moved
      <3> QED BY <3>3, <3>4
    <2>2. CASE Complete(i)
      <3>1. CASE rows' = rows
        BY <1>1, <3>1
      <3>2. CASE rows' # rows
        <4>1. /\ rows' = [rows EXCEPT ![i] = Completed(rows[i], Target(i))] /\ i \in Checked
              /\ rows[i] # NoRow
          BY <2>2, <3>2 DEF Complete, Checked, StillWants, Active
        <4>2. /\ rows'[i] = Completed(rows[i], Target(i)) /\ rows[i] \in Row
              /\ \A j \in Id \ {i} : rows'[j] = rows[j]
          BY <1>0, <4>1
        <4>3. i \in Running
          BY <2>2 DEF Complete, Running
        <4>4. rows'[i] # NoRow
          BY <4>2, <4>3, Destination, CompletedIsRow, NoRowAssumption
        <4>5. /\ rows'[i].build = rows[i].build /\ rows'[i].path = Target(i)
              /\ rows'[i].prev = NoPath
          BY <4>2 DEF Completed, Row
        <4> QED BY <4>1, <4>2, <4>4, <4>5 DEF RowsStep, Moved
      <3> QED BY <3>1, <3>2
    <2>3. CASE ~Resolve(i) /\ ~Complete(i)
      <3>1. rows' = rows
        BY <1>4, <2>3 DEF Works, CheckOwner, AlreadyPresent, OpenPart, WritePart, Discard,
                          RemovePrevious, db
      <3> QED BY <1>1, <3>1
    <2> QED BY <2>1, <2>2, <2>3
  <1>5. ASSUME NEW f \in File, PlanFile(f) PROVE RowsStep
    <2>1. CASE rows' = rows
      BY <1>1, <2>1
    <2>2. CASE rows' # rows
      <3>1. PICK i \in Id : /\ FileOf[i] = f /\ rows' = [rows EXCEPT ![i] = Fresh(offered[f])]
                            /\ plan' = plan /\ i \in unused /\ unused' = unused \ {i}
        BY <1>5, <2>2 DEF PlanFile, db, TypeInv, TypeOK
      <3>2. \A j \in Id : FileOf[j] = f => rows[j] = NoRow
        BY <1>5, <2>2 DEF PlanFile, db
      <3>3. plan.pc = "idle"
        BY <1>5 DEF PlanFile
      <3>4. rows'[i] = Fresh(offered[FileOf[i]]) /\ \A j \in Id \ {i} : rows'[j] = rows[j]
        BY <1>0, <3>1
      <3> QED BY <3>1, <3>2, <3>3, <3>4 DEF RowsStep, Inserted
    <2> QED BY <2>1, <2>2
  <1>6. CASE UpdateRow
    <2>1. CASE rows' = rows
      BY <1>1, <2>1
    <2>2. CASE rows' # rows
      <3>. DEFINE i == plan.at
                  stored == plan.snap[i]
                  onDisk == seen = "there"
      <3>1. /\ plan.pc = "upsert" /\ i \in Id /\ stored \in Row /\ rows[i] # NoRow
            /\ rows' = [rows EXCEPT ![i] = Upsert(rows[i], stored, plan.build, onDisk)]
        BY <1>6, <2>2 DEF UpdateRow, TypeInv, UpsertHasRow
      <3>2. ~Read(i)'
        <4>1. \/ plan' = Idle
              \/ \E k : plan' = [plan EXCEPT !.pc = "abort", !.aborts = {k}, !.at = NoId]
          BY <1>6 DEF UpdateRow
        <4>2. Idle.pc = "idle"
          BY DEF Idle, NoPlan
        <4>3. plan'.pc \notin {"upsert", "drop"}
          BY <4>1, <4>2 DEF TypeInv, TypeOK, Plan
        <4> QED BY <4>3 DEF Read
      <3>3. rows[i] \in Row /\ plan.build \in Build /\ onDisk \in BOOLEAN
        BY <1>0, <3>1 DEF TypeInv, TypeOK, Plan
      <3>4. rows'[i] = Upsert(rows[i], stored, plan.build, onDisk)
            /\ \A j \in Id \ {i} : rows'[j] = rows[j]
        BY <1>0, <3>1
      <3>. HIDE DEF onDisk
      <3>5. Updated(i)
        BY <3>1, <3>2, <3>3, <3>4, UpsertWrites DEF Updated
      <3> QED BY <3>1, <3>4, <3>5 DEF RowsStep
    <2> QED BY <2>1, <2>2
  <1>7. ASSUME NEW S \in SUBSET Id, NEW mode \in {"unplan", "keep", "delete"},
               ListDropped(S, mode)
        PROVE  RowsStep
    BY <1>1, <1>7 DEF ListDropped, db
  <1>8. ASSUME NEW i \in Id, DropRow(i) PROVE RowsStep
    <2>1. PICK r \in {SetFileInactive(rows[i]), NoRow} : rows' = [rows EXCEPT ![i] = r]
      BY <1>8 DEF DropRow
    <2>2. rows'[i] = r /\ \A j \in Id \ {i} : rows'[j] = rows[j]
      BY <1>0, <2>1
    <2>3. plan.pc = "drop" /\ i \in plan.todo /\ plan'.pc = "drop" /\ i \notin plan'.todo
      BY <1>8 DEF DropRow, TypeInv, TypeOK, Plan
    <2>4. CASE r = NoRow
      BY <2>2, <2>3, <2>4 DEF RowsStep, Removed, Read
    <2>5. CASE r = SetFileInactive(rows[i])
      <3>1. Alike(rows[i], rows'[i])
        <4>1. SetFileInactive(rows[i]) \in Row \cup {NoRow}
          BY <1>0 DEF SetFileInactive, Row, Status
        <4>2. CASE rows[i] = NoRow
          BY <2>2, <2>5, <4>2 DEF Alike, SetFileInactive
        <4>3. CASE rows[i] \in Row
          <5>1. [rows[i] EXCEPT !.status = "inactive"] \in Row
            BY <4>3 DEF Row, Status
          <5> QED BY <2>2, <2>5, <4>3, <5>1, NoRowAssumption DEF Alike, SetFileInactive, Row
        <4> QED BY <1>0, <4>2, <4>3
      <3>2. \A j \in Id : Alike(rows[j], rows'[j])
        BY <2>2, <3>1 DEF Alike
      <3> QED BY <3>2 DEF RowsStep
    <2> QED BY <2>1, <2>4, <2>5
  <1> QED BY <1>2, <1>3, <1>4, <1>5, <1>6, <1>7, <1>8, FileSteps DEF Plans

-----------------------------------------------------------------------------
(* RowInv is inductive.                                                    *)

LEMMA InitRowInv == Init => RowInv
  <1>. SUFFICES ASSUME Init PROVE RowInv
    OBVIOUS
  <1>1. /\ plan.pc = "idle"
        /\ \A i \in Id : rows[i] = NoRow /\ picked[i] = NoRow /\ xfer[i].file = NoRow
    BY DEF Init, Idle, NoPlan, NoSnap, NoTransfer
  <1>2. (\A i \in Id : ~Read(i)) /\ unused = Id
    BY <1>1 DEF Read, Init
  <1> QED BY <1>1, <1>2 DEF RowInv, PlacedInv, WellPlaced, BuildInv, ReadInv, OneRow, PickedInv,
                            UnusedInv

LEMMA OffersTyped ==
    ASSUME TypeInv, [Next]_vars, NEW i \in Id
    PROVE  /\ offered[FileOf[i]] \in Nat /\ offered'[FileOf[i]] \in Nat
           /\ offered[FileOf[i]] <= offered'[FileOf[i]]
  <1>1. FileOf[i] \in File /\ TypeInv' /\ OffersGrow
    BY FileOfAssumption, StepTypeInv, HandsFollow
  <1>2. offered[FileOf[i]] \in Build /\ offered'[FileOf[i]] \in Build
    BY <1>1 DEF TypeInv, TypeOK
  <1> QED BY <1>1, <1>2, MaxBuildAssumption DEF Build, OffersGrow

LEMMA StepOneRow == TypeInv /\ OneRow /\ [Next]_vars => OneRow'
  <1>. SUFFICES ASSUME TypeInv, OneRow, RowsStep PROVE OneRow'
    BY RowsFollow
  <1>1. CASE \A i \in Id : Alike(rows[i], rows'[i])
    BY <1>1 DEF Alike, OneRow
  <1>2. ASSUME NEW i \in Id, Moved(i) \/ Inserted(i) \/ Updated(i) \/ Removed(i),
               \A j \in Id \ {i} : rows'[j] = rows[j]
        PROVE  OneRow'
    <2>1. CASE rows[i] # NoRow
      BY <1>2, <2>1 DEF OneRow
    <2>2. CASE Inserted(i)
      BY <1>2, <2>2 DEF Inserted, OneRow
    <2>3. CASE Removed(i)
      BY <1>2, <2>3 DEF Removed, OneRow
    <2> QED BY <1>2, <2>1, <2>2, <2>3 DEF Moved, Updated
  <1> QED BY <1>1, <1>2 DEF RowsStep

LEMMA StepPickedInv == TypeInv /\ PickedInv /\ [Next]_vars => PickedInv'
  <1>. SUFFICES ASSUME TypeInv, PickedInv, [Next]_vars PROVE PickedInv'
    OBVIOUS
  <1>0. picked \in [Id -> Row \cup {NoRow}]
    BY DEF TypeInv, TypeOK
  <1>1. CASE Calm
    BY <1>1 DEF Calm, PickedInv
  <1>2. CASE Fill
    <2>1. \A i \in Id : picked'[i] # NoRow => i \notin Running
      BY <1>2 DEF Fill
    <2> QED BY <1>2, <2>1 DEF Fill, Running, PickedInv
  <1>3. CASE Plans
    BY <1>3 DEF Plans, PlanFile, UpdateRow, ListDropped, DropRow, PickedInv
  <1>4. ASSUME NEW i \in Id, Begins(i) PROVE PickedInv'
    BY <1>0, <1>4 DEF Begins, PickedInv
  <1>5. ASSUME NEW i \in Id, Works(i) \/ Marks(i) PROVE PickedInv'
    <2>1. picked' = picked
      BY <1>5 DEF Works, Marks, CheckOwner, Resolve, AlreadyPresent, OpenPart, WritePart,
                  Complete, Discard, RemovePrevious
    <2>2. xfer' = xfer \/ \E pc : Advances(i, pc)
      BY <1>5 DEF Works, Marks
    <2> QED BY <2>1, <2>2 DEF Advances, PickedInv
  <1> QED BY <1>1, <1>2, <1>3, <1>4, <1>5, FileSteps

LEMMA StepBuildInv ==
    TypeInv /\ RowInv /\ [Next]_vars => BuildInv'
  <1>. SUFFICES ASSUME TypeInv, RowInv, [Next]_vars, NEW i \in Id
                PROVE  /\ (rows[i] # NoRow => rows[i].build <= offered[FileOf[i]])'
                       /\ \A r \in {picked'[i], xfer'[i].file} :
                             r # NoRow => /\ r.build <= offered'[FileOf[i]]
                                          /\ \A j \in Id :
                                                FileOf[j] = FileOf[i] /\ rows'[j] # NoRow
                                                => r.build <= rows'[j].build
    BY DEF BuildInv
  <1>0. RowsStep /\ HandsStep /\ OffersGrow /\ BuildInv /\ ReadInv /\ OneRow
    BY RowsFollow, HandsFollow DEF RowInv
  <1>1. \A j \in Id : /\ offered[FileOf[j]] \in Nat /\ offered'[FileOf[j]] \in Nat
                      /\ offered[FileOf[j]] <= offered'[FileOf[j]]
    BY OffersTyped
  <1>2. \A j \in Id : /\ rows[j] # NoRow => rows[j].build \in Nat
                      /\ rows'[j] # NoRow => rows'[j].build \in Nat
                      /\ picked[j] # NoRow => picked[j].build \in Nat
                      /\ xfer[j].file # NoRow => xfer[j].file.build \in Nat
    <2>1. \A j \in Id : (rows[j] # NoRow => rows[j].build \in Nat)'
      <3>1. TypeInv'
        BY StepTypeInv
      <3> QED BY <3>1, MaxBuildAssumption DEF TypeInv, TypeOK, Row, Build
    <2> QED BY <2>1, Typed
  <1>3. \A j \in Id : rows'[j] # NoRow
           => /\ rows'[j].build <= offered'[FileOf[j]]
              /\ \/ rows'[j].build = offered[FileOf[j]]
                 \/ rows[j] # NoRow /\ rows[j].build <= rows'[j].build
    <2>. TAKE j \in Id
    <2>. SUFFICES ASSUME rows'[j] # NoRow
                  PROVE  /\ rows'[j].build <= offered'[FileOf[j]]
                         /\ \/ rows'[j].build = offered[FileOf[j]]
                            \/ rows[j] # NoRow /\ rows[j].build <= rows'[j].build
      OBVIOUS
    <2>1. CASE rows[j] # NoRow /\ rows'[j].build = rows[j].build
      BY <1>0, <1>1, <1>2, <2>1 DEF BuildInv
    <2>2. CASE Inserted(j)
      BY <1>1, <2>2 DEF Inserted, Fresh
    <2>3. CASE Updated(j)
      BY <1>0, <1>1, <1>2, <2>3 DEF Updated, ReadInv, TypeInv, TypeOK, Plan, Build
    <2>4. \/ rows[j] # NoRow /\ rows'[j].build = rows[j].build
          \/ Inserted(j) \/ Updated(j)
      BY <1>0 DEF RowsStep, Alike, Moved, Removed
    <2> QED BY <2>1, <2>2, <2>3, <2>4
  <1>4. ASSUME NEW r \in {picked'[i], xfer'[i].file}, r # NoRow
        PROVE  /\ r.build \in Nat /\ r.build <= offered[FileOf[i]]
               /\ \A j \in Id : FileOf[j] = FileOf[i] /\ rows[j] # NoRow
                               => r.build <= rows[j].build
    <2>1. CASE r \in {picked[i], xfer[i].file}
      BY <1>0, <1>2, <1>4, <2>1 DEF BuildInv
    <2>2. CASE r = rows[i]
      <3>1. r.build \in Nat /\ r.build <= offered[FileOf[i]]
        BY <1>0, <1>2, <1>4, <2>2 DEF BuildInv
      <3>2. \A j \in Id : FileOf[j] = FileOf[i] /\ rows[j] # NoRow => j = i
        BY <1>0, <1>4, <2>2 DEF OneRow
      <3> QED BY <2>2, <3>1, <3>2
    <2> QED BY <1>0, <1>4, <2>1, <2>2 DEF HandsStep
  <1>5. ASSUME NEW r \in {picked'[i], xfer'[i].file}, r # NoRow
        PROVE  /\ r.build <= offered'[FileOf[i]]
               /\ \A j \in Id : FileOf[j] = FileOf[i] /\ rows'[j] # NoRow
                               => r.build <= rows'[j].build
    BY <1>1, <1>2, <1>3, <1>4, <1>5
  <1> QED BY <1>3, <1>5

LEMMA StepReadInv == TypeInv /\ RowInv /\ [Next]_vars => ReadInv'
  <1>. SUFFICES ASSUME TypeInv, RowInv, [Next]_vars PROVE ReadInv'
    OBVIOUS
  <1>0. RowsStep /\ ReadStep /\ OffersGrow /\ BuildInv /\ ReadInv /\ TypeInv'
    BY RowsFollow, ReadsFollow, HandsFollow, StepTypeInv DEF RowInv
  <1>1. \A j \in Id : Read(j) /\ Read(j)'
           => /\ rows'[j] # NoRow /\ rows'[j].build = rows[j].build
              /\ rows[j].path # NoPath => rows'[j].path # NoPath
    <2>. SUFFICES ASSUME NEW j \in Id, Read(j), Read(j)'
                  PROVE  /\ rows'[j] # NoRow /\ rows'[j].build = rows[j].build
                         /\ rows[j].path # NoPath => rows'[j].path # NoPath
      OBVIOUS
    <2>1. rows[j] # NoRow
      BY <1>0 DEF ReadInv
    <2>2. CASE Alike(rows[j], rows'[j])
      BY <2>1, <2>2 DEF Alike
    <2>3. CASE Moved(j)
      <3>1. j \in Running
        BY <2>3 DEF Moved, Checked, Running
      <3> QED BY <2>3, <3>1, Destination, NoPathAssumption DEF Moved
    <2>4. \/ Alike(rows[j], rows'[j]) \/ Moved(j)
      BY <1>0, <2>1 DEF RowsStep, Alike, Inserted, Updated, Removed
    <2> QED BY <2>2, <2>3, <2>4
  <1>2. plan'.pc = "upsert" => plan'.at \in Id /\ Read(plan.at)'
    <2>1. UpsertHasRow'
      BY <1>0 DEF TypeInv
    <2> QED BY <2>1 DEF UpsertHasRow, Read
  <1>3. \A j \in Id : /\ offered[FileOf[j]] \in Nat /\ offered'[FileOf[j]] \in Nat
                      /\ offered[FileOf[j]] <= offered'[FileOf[j]]
    BY OffersTyped
  <1>4. CASE /\ \A j \in Id : Read(j)' => Read(j) /\ plan'.snap[j] = plan.snap[j]
             /\ plan'.pc = "upsert" => plan' = plan
    <2>1. \A j \in Id : (Read(j) =>
                /\ rows[j] # NoRow /\ plan.snap[j] # NoRow
                /\ plan.snap[j].build = rows[j].build
                /\ plan.snap[j].path # NoPath => rows[j].path # NoPath)'
      BY <1>0, <1>1, <1>4 DEF ReadInv
    <2>2. ASSUME plan'.pc = "upsert"
          PROVE  /\ rows'[plan'.at].build <= plan'.build
                 /\ plan'.build <= offered'[FileOf[plan'.at]]
      <3>1. plan' = plan /\ plan.at \in Id /\ Read(plan.at)
        BY <1>2, <1>4, <2>2 DEF Read
      <3>2. rows'[plan.at].build = rows[plan.at].build
        BY <1>1, <1>2, <2>2, <3>1
      <3>3. plan.build \in Nat
        BY MaxBuildAssumption DEF TypeInv, TypeOK, Plan, Build
      <3>4. /\ rows[plan.at].build <= plan.build
            /\ plan.build <= offered[FileOf[plan.at]]
        BY <1>0, <2>2, <3>1 DEF ReadInv
      <3>5. plan.build <= offered'[FileOf[plan.at]]
        BY <1>3, <3>1, <3>3, <3>4
      <3> QED BY <3>1, <3>2, <3>4, <3>5
    <2> QED BY <2>1, <2>2 DEF ReadInv
  <1>5. CASE /\ rows' = rows
             /\ \A j \in Id : Read(j)' => plan'.snap[j] = rows[j] /\ rows[j] # NoRow
             /\ plan'.pc = "upsert" => plan'.build = offered[FileOf[plan'.at]]
    <2>1. \A j \in Id : (Read(j) =>
                /\ rows[j] # NoRow /\ plan.snap[j] # NoRow
                /\ plan.snap[j].build = rows[j].build
                /\ plan.snap[j].path # NoPath => rows[j].path # NoPath)'
      BY <1>5
    <2>2. ASSUME plan'.pc = "upsert"
          PROVE  /\ rows'[plan'.at].build <= plan'.build
                 /\ plan'.build <= offered'[FileOf[plan'.at]]
      <3>1. plan'.at \in Id /\ rows[plan'.at] # NoRow
        BY <1>2, <1>5, <2>2
      <3>2. rows[plan'.at].build <= offered[FileOf[plan'.at]]
        BY <1>0, <3>1 DEF BuildInv
      <3> QED BY <1>3, <1>5, <2>2, <3>1, <3>2
    <2> QED BY <2>1, <2>2 DEF ReadInv
  <1> QED BY <1>0, <1>4, <1>5 DEF ReadStep

LEMMA StepPlacedInv == TypeInv /\ RowInv /\ [Next]_vars => PlacedInv'
  <1>. SUFFICES ASSUME TypeInv, RowInv, [Next]_vars, NEW i \in Id
                PROVE  /\ WellPlaced(FileOf[i], rows'[i])
                       /\ WellPlaced(FileOf[i], picked'[i])
                       /\ WellPlaced(FileOf[i], xfer'[i].file)
                       /\ Read(i)' => WellPlaced(FileOf[i], plan'.snap[i])
    BY DEF PlacedInv
  <1>0. /\ RowsStep /\ ReadStep /\ HandsStep
        /\ PlacedInv /\ BuildInv /\ ReadInv
    BY RowsFollow, ReadsFollow, HandsFollow DEF RowInv
  <1>1. WellPlaced(FileOf[i], picked'[i]) /\ WellPlaced(FileOf[i], xfer'[i].file)
    <2>1. WellPlaced(FileOf[i], NoRow)
      BY DEF WellPlaced
    <2> QED BY <1>0, <2>1 DEF HandsStep, PlacedInv
  <1>2. Read(i)' => WellPlaced(FileOf[i], plan'.snap[i])
    BY <1>0 DEF ReadStep, PlacedInv
  <1>3. WellPlaced(FileOf[i], rows'[i])
    <2>1. CASE Alike(rows[i], rows'[i])
      BY <1>0, <2>1 DEF PlacedInv, WellPlaced, Alike
    <2>2. CASE Moved(i)
      <3>1. /\ i \in Running /\ xfer[i].file # NoRow
            /\ xfer[i].file.build \in Nat \ {0} /\ rows[i].build \in Nat \ {0}
        BY <2>2, Destination, Typed, NoRowAssumption DEF Moved, Checked, Running
      <3>2. xfer[i].file.build \in 1..rows[i].build
        BY <1>0, <2>2, <3>1 DEF BuildInv, Moved
      <3>3. Target(i) \in Path /\ Target(i) # NoPath
        BY <3>1, Destination, NoPathAssumption
      <3>4. Target(i) = Dest[FileOf[i]][xfer[i].file.build]
        BY DEF Target
      <3> QED BY <1>0, <2>2, <3>2, <3>3, <3>4 DEF PlacedInv, WellPlaced, Moved
    <2>3. CASE Inserted(i)
      BY <2>3 DEF Inserted, Fresh, WellPlaced
    <2>4. CASE Updated(i)
      <3>1. /\ Read(i) /\ plan.snap[i] # NoRow /\ plan.snap[i].build = rows[i].build
            /\ plan.snap[i].path # NoPath => rows[i].path # NoPath
            /\ rows[i].build <= plan.build
        BY <1>0, <2>4 DEF Updated, ReadInv, Read
      <3>2. rows[i].build \in Nat /\ plan.build \in Nat
        BY <2>4, Typed, MaxBuildAssumption DEF Updated, TypeInv, TypeOK, Plan, Build
      <3>3. \A c : c \in 1..rows[i].build => c \in 1..plan.build
        BY <3>1, <3>2
      <3>4. WellPlaced(FileOf[i], rows[i]) /\ WellPlaced(FileOf[i], plan.snap[i])
        BY <1>0, <3>1 DEF PlacedInv
      <3> QED BY <2>4, <3>1, <3>3, <3>4 DEF Updated, WellPlaced
    <2>5. CASE Removed(i)
      BY <2>5 DEF Removed, WellPlaced
    <2>6. Alike(rows[i], rows'[i]) \/ Moved(i) \/ Inserted(i) \/ Updated(i) \/ Removed(i)
      BY <1>0 DEF RowsStep, Alike
    <2> QED BY <2>1, <2>2, <2>3, <2>4, <2>5, <2>6
  <1> QED BY <1>1, <1>2, <1>3

LEMMA IdsSpent == TypeInv /\ [Next]_vars => IdsAreSpent
  <1>. SUFFICES ASSUME TypeInv, [Next]_vars, unused' # unused PROVE IdsAreSpent
    BY DEF IdsAreSpent
  <1>1. ASSUME NEW f \in File, PlanFile(f) PROVE IdsAreSpent
    BY <1>1 DEF PlanFile, db, IdsAreSpent
  <1>2. \E f \in File : PlanFile(f)
    <2>1. ~(\E i \in Id : StartTransfer(i) \/ TransferStep(i))
      BY DEF StartTransfer, TransferStep, Interrupted, Broken, SizeMismatch, Remote, ClaimPath,
             CheckOwner, Resolve, AlreadyPresent, OpenPart, WritePart, Complete, Discard,
             RemovePrevious, RecordFailure, Leave, db
    <2>2. ~PlannerStep /\ ~SweepStep
      BY DEF PlannerStep, LookForCopy, UpdateRow, RowsDropped, RemovePart, PlanDone, DropRow,
             CancelTransfer, SweepStep, ListDone, LookForFile, ResetMissing, db
    <2>3. ~(\/ \E p \in BOOLEAN : SetPaused(p)
            \/ \E n \in 0..MaxLimit : SetLimit(n)
            \/ \E i \in Id : RetryFile(i) \/ BackoffOver(i)
            \/ \E p \in Path : Vanish(p)
            \/ \E f \in File : Publish(f)
            \/ Stop \/ Restart \/ Crash)
      BY DEF SetPaused, SetLimit, RetryFile, BackoffOver, Vanish, Publish, Stop,
             Restart, Crash, Restarted, db
    <2>4. ~(\/ Fill
            \/ \E S \in SUBSET Id, mode \in {"unplan", "keep", "delete"} : ListDropped(S, mode)
            \/ UNCHANGED vars)
      BY DEF Fill, ListDropped, vars, db
    <2> QED BY <2>1, <2>2, <2>3, <2>4 DEF Next
  <1> QED BY <1>1, <1>2

LEMMA StepUnusedInv == TypeInv /\ UnusedInv /\ [Next]_vars => UnusedInv'
  <1>. SUFFICES ASSUME TypeInv, UnusedInv, RowsStep, HandsStep, IdsAreSpent,
                       NEW i \in unused'
                PROVE  (/\ rows[i] = NoRow /\ picked[i] = NoRow
                        /\ xfer[i].file = NoRow)'
    BY RowsFollow, HandsFollow, IdsSpent DEF UnusedInv
  <1>1. /\ i \in unused /\ i \in Id
        /\ rows[i] = NoRow /\ picked[i] = NoRow /\ xfer[i].file = NoRow
    BY DEF IdsAreSpent, UnusedInv, TypeInv, TypeOK
  <1>2. rows'[i] = NoRow
    BY <1>1 DEF RowsStep, Alike, Moved, Inserted, Updated, Removed
  <1> QED BY <1>1, <1>2 DEF HandsStep

LEMMA StepRowInv == TypeInv /\ RowInv /\ [Next]_vars => RowInv'
  BY StepPlacedInv, StepBuildInv, StepReadInv, StepOneRow, StepPickedInv, StepUnusedInv
     DEF RowInv

-----------------------------------------------------------------------------
(* The destinations, step by step.                                         *)

\* A transfer that has got past the claim is where it was, or one step on.
WorkStep ==
    \A i \in Id :
        xfer'[i].pc \in {"resolve", "place", "write", "complete", "confirm", "discard", "tidy"}
        => /\ xfer'[i].file = xfer[i].file
           /\ xfer'[i].pc = xfer[i].pc \/ (Works(i) /\ Advances(i, xfer'[i].pc))

\* What a step does to the file at p, and for whom.
Wrote(i, p)  == /\ p = Target(i) /\ xfer[i].pc \in {"write", "discard"}
                /\ xfer[i].pc = "write" => WritePart(i) /\ Advances(i, "complete")
Tidied(i, p) == xfer[i].pc = "tidy" /\ p = xfer[i].file.prev
Wiped(i, p)  == /\ plan.pc = "drop" /\ plan.mode = "delete" /\ i \in plan.todo
                /\ p \in {plan.snap[i].path, plan.snap[i].prev} /\ rows'[i] = NoRow
DiskStep == \A p \in Path : disk'[p] # disk[p] =>
               \/ ~NobodyElse
               \/ \E i \in Id : Wrote(i, p) \/ Tidied(i, p) \/ Wiped(i, p)

LEMMA WorkFollows == TypeInv /\ [Next]_vars => WorkStep
  <1>. SUFFICES ASSUME TypeInv, [Next]_vars PROVE WorkStep
    OBVIOUS
  <1>1. CASE Calm
    BY <1>1 DEF Calm, WorkStep
  <1>2. CASE Fill \/ Plans
    BY <1>2 DEF Fill, Plans, PlanFile, UpdateRow, ListDropped, DropRow, WorkStep
  <1>3. ASSUME NEW i \in Id, Begins(i) PROVE WorkStep
    BY <1>3 DEF Begins, WorkStep
  <1>4. ASSUME NEW i \in Id, Works(i) PROVE WorkStep
    <2>1. PICK pc \in {"resolve", "place", "confirm", "write", "complete", "leave", "tidy",
                      "discard"} : Advances(i, pc)
      BY <1>4 DEF Works
    <2> QED BY <1>4, <2>1 DEF Advances, WorkStep
  <1>5. ASSUME NEW i \in Id, Marks(i) PROVE WorkStep
    BY <1>5 DEF Marks, Advances, WorkStep
  <1> QED BY <1>1, <1>2, <1>3, <1>4, <1>5, FileSteps

LEMMA DiskFollows == TypeInv /\ [Next]_vars => DiskStep
  <1>. SUFFICES ASSUME TypeInv, [Next]_vars PROVE DiskStep
    OBVIOUS
  <1>0. disk \in [Path -> Copy \cup {NoCopy}] /\ rows \in [Id -> Row \cup {NoRow}]
    BY DEF TypeInv, TypeOK
  <1>1. disk' = disk => DiskStep
    BY DEF DiskStep
  <1>2. CASE Calm \/ Fill \/ \E i \in Id : Begins(i) \/ Marks(i)
    BY <1>1, <1>2 DEF Calm, Fill, Begins, Marks, fs, DiskStep
  <1>3. ASSUME NEW f \in File, PlanFile(f) PROVE DiskStep
    BY <1>1, <1>3 DEF PlanFile, fs
  <1>4. ASSUME UpdateRow PROVE DiskStep
    BY <1>1, <1>4 DEF UpdateRow, fs
  <1>5. ASSUME NEW S \in SUBSET Id, NEW mode \in {"unplan", "keep", "delete"},
               ListDropped(S, mode)
        PROVE  DiskStep
    BY <1>1, <1>5 DEF ListDropped, fs
  <1>6. ASSUME NEW i \in Id, DropRow(i) PROVE DiskStep
    <2>1. CASE disk' = disk
      BY <1>1, <2>1
    <2>2. CASE disk' # disk
      <3>1. /\ plan.pc = "drop" /\ plan.mode = "delete" /\ i \in plan.todo
            /\ disk' = [disk EXCEPT ![DownloadedPath(plan.snap[i])] = NoCopy]
            /\ rows' = [rows EXCEPT ![i] = NoRow]
        BY <1>6, <2>2 DEF DropRow
      <3>2. rows'[i] = NoRow /\ \A p \in Path \ {DownloadedPath(plan.snap[i])} : disk'[p] = disk[p]
        BY <1>0, <3>1
      <3>3. DownloadedPath(plan.snap[i]) \in {plan.snap[i].path, plan.snap[i].prev}
        BY DEF DownloadedPath
      <3> QED BY <3>1, <3>2, <3>3 DEF DiskStep, Wiped
    <2> QED BY <2>1, <2>2
  <1>7. ASSUME NEW i \in Id, Works(i) PROVE DiskStep
    <2>1. CASE CheckOwner(i) \/ Resolve(i) \/ AlreadyPresent(i) \/ OpenPart(i) \/ Complete(i)
      BY <1>1, <2>1 DEF CheckOwner, Resolve, AlreadyPresent, OpenPart, Complete, fs
    <2>2. CASE WritePart(i) /\ Advances(i, "complete")
      <3>1. \A p \in Path \ {Target(i)} : disk'[p] = disk[p]
        BY <1>0, <2>2 DEF WritePart
      <3>2. xfer[i].pc = "write"
        BY <2>2 DEF WritePart
      <3> QED BY <2>2, <3>1, <3>2 DEF DiskStep, Wrote
    <2>3. CASE Discard(i)
      <3>1. xfer[i].pc = "discard" /\ \A p \in Path \ {Target(i)} : disk'[p] = disk[p]
        BY <1>0, <2>3 DEF Discard
      <3> QED BY <2>3, <3>1 DEF DiskStep, Wrote
    <2>4. CASE RemovePrevious(i)
      <3>1. xfer[i].pc = "tidy" /\ \A p \in Path \ {xfer[i].file.prev} : disk'[p] = disk[p]
        BY <1>0, <2>4 DEF RemovePrevious
      <3> QED BY <3>1 DEF DiskStep, Tidied
    <2> QED BY <1>7, <2>1, <2>2, <2>3, <2>4 DEF Works
  <1> QED BY <1>2, <1>3, <1>4, <1>5, <1>6, <1>7, FileSteps DEF Plans

\* Bytes come to disk by the rename of a transfer alone.
Comes(i, p) == xfer[i].pc = "write" /\ xfer'[i].pc = "complete" /\ p = Target(i)
BytesStep == \A p \in Path : \/ disk'[p] \in {disk[p], NoCopy}
                             \/ \E i \in Id : Comes(i, p)

LEMMA BytesFollow == TypeInv /\ [Next]_vars => BytesStep
  <1>. SUFFICES ASSUME TypeInv, [Next]_vars PROVE BytesStep
    OBVIOUS
  <1>0. disk \in [Path -> Copy \cup {NoCopy}]
    BY DEF TypeInv, TypeOK
  <1>1. disk' = disk => BytesStep
    BY DEF BytesStep
  <1>2. CASE Calm \/ Fill \/ \E i \in Id : Begins(i) \/ Marks(i)
    BY <1>1, <1>2 DEF Calm, Fill, Begins, Marks, fs, BytesStep
  <1>3. CASE Plans
    <2>1. ASSUME NEW i \in Id, DropRow(i) PROVE BytesStep
      BY <1>0, <1>1, <2>1 DEF DropRow, BytesStep
    <2> QED BY <1>1, <1>3, <2>1 DEF Plans, PlanFile, UpdateRow, ListDropped, fs
  <1>4. ASSUME NEW i \in Id, Works(i) PROVE BytesStep
    <2>1. CASE CheckOwner(i) \/ Resolve(i) \/ AlreadyPresent(i) \/ OpenPart(i) \/ Complete(i)
      BY <1>1, <2>1 DEF CheckOwner, Resolve, AlreadyPresent, OpenPart, Complete, fs
    <2>2. CASE WritePart(i) /\ Advances(i, "complete")
      <3>1. \A p \in Path \ {Target(i)} : disk'[p] = disk[p]
        BY <1>0, <2>2 DEF WritePart
      <3>2. xfer[i].pc = "write" /\ xfer'[i].pc = "complete"
        BY <2>2 DEF WritePart, Advances
      <3> QED BY <3>1, <3>2 DEF BytesStep, Comes
    <2>3. CASE Discard(i) \/ RemovePrevious(i)
      BY <1>0, <2>3 DEF Discard, RemovePrevious, BytesStep
    <2> QED BY <1>4, <2>1, <2>2, <2>3 DEF Works
  <1> QED BY <1>2, <1>3, <1>4, FileSteps

\* The look and the claim together: between the look and the last byte nobody
\* else brings the file, as nobody else works there.
LEMMA StepFetches ==
    ASSUME TypeInv, ClaimInv, FetchesWhatIsMissing, [Next]_vars PROVE FetchesWhatIsMissing'
  <1>. SUFFICES ASSUME NEW i \in Id, xfer'[i].pc = "write", FileOf[i] \in Summed \ Saves
                PROVE  disk'[Target(i)'] # Wanted(i)'
    BY DEF FetchesWhatIsMissing
  <1>0. BytesStep /\ ClaimsHoldApart
    BY BytesFollow, ClaimsApart
  <1>1. /\ xfer'[i].file = xfer[i].file
        /\ xfer[i].pc = "write" \/ (Works(i) /\ Advances(i, "write"))
    BY WorkFollows DEF WorkStep
  <1>2. i \in Placing /\ i \in Running
    <2>1. Works(i) /\ Advances(i, "write") => xfer[i].pc \in Pcs \ {"idle", "remote", "claim",
                                                                  "fail", "leave"}
      BY DEF Works, CheckOwner, Resolve, AlreadyPresent, OpenPart, WritePart, Complete, Discard,
             RemovePrevious, Pcs
    <2> QED BY <1>1, <2>1 DEF Placing, Running, Pcs
  <1>3. /\ Target(i) \in Path /\ Wanted(i) # NoCopy
        /\ Target(i)' = Target(i) /\ Wanted(i)' = Wanted(i)
    BY <1>1, <1>2, Destination, NoCopyAssumption DEF Target, Wanted
  <1>4. disk[Target(i)] # Wanted(i)
    <2>1. CASE xfer[i].pc = "write"
      BY <2>1 DEF FetchesWhatIsMissing
    <2>2. CASE Works(i) /\ Advances(i, "write")
      <3>1. OpenPart(i)
        BY <2>2 DEF Works, Advances
      <3> QED BY <3>1 DEF OpenPart, LooksForCopy
    <2> QED BY <1>1, <2>1, <2>2
  <1>5. disk'[Target(i)] \in {disk[Target(i)], NoCopy}
    <2>1. ASSUME NEW j \in Id, Comes(j, Target(i)) PROVE FALSE
      <3>1. j \in Placing /\ Target(j) = Target(i) /\ j # i
        BY <2>1 DEF Comes, Placing
      <3> QED BY <1>0, <1>2, <3>1 DEF ClaimsHoldApart
    <2> QED BY <1>0, <1>3, <2>1 DEF BytesStep
  <1> QED BY <1>3, <1>4, <1>5

\* What is on disk already is not downloaded again, however many rows, files and
\* paths there are and whatever brought the file back into the queue (download
\* looks before it fetches; claimPath keeps others away meanwhile).
THEOREM NothingFetchedTwice == Spec => []FetchesWhatIsMissing
  <1>1. Init => TypeInv /\ ClaimInv /\ FetchesWhatIsMissing
    BY InitTypeInv, InitClaimInv DEF Init, FetchesWhatIsMissing, NoTransfer
  <1>2. TypeInv /\ ClaimInv /\ FetchesWhatIsMissing /\ [Next]_vars
        => (TypeInv /\ ClaimInv /\ FetchesWhatIsMissing)'
    BY StepTypeInv, StepClaimInv, StepFetches
  <1> QED BY <1>1, <1>2, PTL DEF Spec

LEMMA InitPathInv == Init => PathInv
  BY DEF Init, PathInv, Checked, NoTransfer

\* A transfer is past the check of its destination because it was, or has just
\* found that no other row owns it.
LEMMA CheckedFollows ==
    ASSUME TypeInv, [Next]_vars, NEW i \in Id, i \in Checked'
    PROVE  /\ Target(i)' = Target(i) /\ i \in Running
           /\ \/ i \in Checked
              \/ rows' = rows /\ ~TakenByOther(i)
  <1>1. /\ xfer'[i].file = xfer[i].file
        /\ xfer'[i].pc = xfer[i].pc \/ (Works(i) /\ Advances(i, xfer'[i].pc))
    BY WorkFollows DEF WorkStep, Checked
  <1>2. Target(i)' = Target(i)
    BY <1>1 DEF Target
  <1>3. i \in Running
    BY <1>1 DEF Running, Advances, Checked
  <1>4. i \in Checked \/ (rows' = rows /\ ~TakenByOther(i))
    <2>1. CASE xfer'[i].pc = xfer[i].pc
      BY <2>1 DEF Checked
    <2>2. CASE Works(i) /\ xfer'[i].pc # xfer[i].pc
      <3>1. CASE CheckOwner(i) /\ ~TakenByOther(i)
        BY <3>1 DEF CheckOwner, db
      <3>2. CASE Resolve(i) \/ AlreadyPresent(i) \/ OpenPart(i) \/ WritePart(i)
                 \/ Complete(i) \/ Discard(i)
        BY <3>2 DEF Resolve, AlreadyPresent, OpenPart, WritePart, Complete, Discard, Checked
      <3>3. CASE RemovePrevious(i) /\ Advances(i, "leave")
        BY <3>3 DEF Advances, Checked
      <3> QED BY <2>2, <3>1, <3>2, <3>3 DEF Works
    <2> QED BY <1>1, <2>1, <2>2
  <1> QED BY <1>2, <1>3, <1>4

LEMMA StepPathInv == TypeInv /\ ClaimInv /\ PathInv /\ [Next]_vars => PathInv'
  <1>. SUFFICES ASSUME TypeInv, ClaimInv, PathInv, [Next]_vars PROVE PathInv'
    OBVIOUS
  <1>0. RowsStep /\ WorkStep /\ ClaimsHoldApart
    BY RowsFollow, WorkFollows, ClaimsApart
  <1>1. ASSUME NEW i \in Id, i \in Checked'
        PROVE  /\ Target(i)' = Target(i) /\ i \in Running
               /\ \/ i \in Checked
                  \/ rows' = rows /\ ~TakenByOther(i)
    BY <1>1, CheckedFollows
  <1>2. ASSUME NEW i \in Id, i \in Checked', NEW j \in Id \ {i}, rows'[j] # NoRow
        PROVE  rows'[j].path # Target(i)'
    <2>1. Target(i) \in Path /\ Target(i) # NoPath
      BY <1>1, <1>2, Destination, NoPathAssumption
    <2>2. CASE i \notin Checked
      <3>1. rows' = rows /\ ~Owns(rows[j], Target(i))
        BY <1>1, <1>2, <2>2 DEF TakenByOther
      <3> QED BY <1>1, <1>2, <2>1, <3>1 DEF Owns
    <2>3. CASE i \in Checked
      <3>1. CASE rows[j] # NoRow /\ rows'[j].path = rows[j].path
        BY <1>1, <1>2, <2>3, <3>1 DEF PathInv
      <3>2. CASE Moved(j)
        <4>1. i \in Placing /\ j \in Placing /\ rows'[j].path = Target(j)
          BY <2>3, <3>2 DEF Moved, Checked, Placing
        <4> QED BY <1>0, <1>1, <1>2, <4>1 DEF ClaimsHoldApart
      <3>3. CASE Inserted(j)
        BY <1>1, <1>2, <2>1, <3>3 DEF Inserted, Fresh
      <3>4. \/ rows[j] # NoRow /\ rows'[j].path = rows[j].path
            \/ Moved(j) \/ Inserted(j)
        BY <1>0, <1>2 DEF RowsStep, Alike, Updated, Removed
      <3> QED BY <3>1, <3>2, <3>3, <3>4
    <2> QED BY <2>2, <2>3
  <1>3. ASSUME NEW i \in Id, NEW j \in Id, rows'[i] # NoRow, rows'[j] # NoRow,
               rows'[i].path = rows'[j].path, rows'[i].path # NoPath
        PROVE  i = j
    <2>1. CASE \A k \in {i, j} : rows[k] # NoRow /\ rows'[k].path = rows[k].path
      BY <1>3, <2>1 DEF PathInv
    <2>2. ASSUME NEW k \in {i, j}, Moved(k), \A l \in Id \ {k} : rows'[l] = rows[l]
          PROVE  i = j
      BY <1>3, <2>2 DEF Moved, PathInv
    <2>3. ASSUME NEW k \in {i, j}, Inserted(k) PROVE i = j
      BY <1>3, <2>3 DEF Inserted, Fresh
    <2>4. \/ \A k \in {i, j} : rows[k] # NoRow /\ rows'[k].path = rows[k].path
          \/ \E k \in {i, j} : Moved(k) /\ \A l \in Id \ {k} : rows'[l] = rows[l]
          \/ \E k \in {i, j} : Inserted(k)
      <3>1. CASE \A k \in Id : Alike(rows[k], rows'[k])
        BY <1>3, <3>1 DEF Alike
      <3>2. ASSUME NEW k \in Id, Moved(k) \/ Inserted(k) \/ Updated(k) \/ Removed(k),
                   \A l \in Id \ {k} : rows'[l] = rows[l]
            PROVE  \/ \A l \in {i, j} : rows[l] # NoRow /\ rows'[l].path = rows[l].path
                   \/ k \in {i, j} /\ (Moved(k) \/ Inserted(k))
        BY <1>3, <3>2 DEF Updated, Removed
      <3> QED BY <1>0, <3>1, <3>2 DEF RowsStep
    <2> QED BY <2>1, <2>2, <2>3, <2>4
  <1>4. ASSUME NEW i \in Id, xfer'[i].pc = "tidy"
        PROVE  xfer'[i].file.prev \notin {NoPath, Target(i)'}
    <2>1. /\ xfer'[i].file = xfer[i].file
          /\ xfer'[i].pc = xfer[i].pc \/ (Works(i) /\ Advances(i, "tidy"))
      BY <1>0, <1>4 DEF WorkStep
    <2>2. Target(i)' = Target(i)
      BY <2>1 DEF Target
    <2>3. CASE xfer[i].pc = "tidy"
      BY <2>1, <2>2, <2>3 DEF PathInv
    <2>4. CASE Works(i) /\ Advances(i, "tidy")
      <3>1. Complete(i)
        BY <2>4 DEF Works, Advances
      <3>2. PICK ok \in BOOLEAN : Goto(i, AfterComplete(i, ok))
        BY <3>1 DEF Complete, StillWants, Active
      <3>3. AfterComplete(i, ok) = "tidy"
        BY <1>4, <3>2 DEF Goto, TypeInv, TypeOK, Transfer
      <3>4. xfer[i].file.prev \notin {NoPath, Target(i)}
        BY <3>3 DEF AfterComplete
      <3> QED BY <2>1, <2>2, <3>4
    <2> QED BY <1>4, <2>1, <2>3, <2>4
  <1>5. \A i \in Checked' : \A j \in Id \ {i} : rows'[j] # NoRow => rows'[j].path # Target(i)'
    BY <1>2 DEF Checked
  <1> QED BY <1>3, <1>4, <1>5 DEF PathInv

-----------------------------------------------------------------------------
(* Whose copy is whose.                                                    *)

FileInv == TypeInv /\ ClaimInv /\ RowInv /\ PathInv

LEMMA FilesHold == Spec => []FileInv
  <1>1. Init => FileInv
    BY InitTypeInv, InitClaimInv, InitRowInv, InitPathInv DEF FileInv
  <1>2. FileInv /\ [Next]_vars => FileInv'
    BY StepTypeInv, StepClaimInv, StepRowInv, StepPathInv DEF FileInv
  <1> QED BY <1>1, <1>2, PTL DEF Spec

\* The destinations a row of the file f mentions are those of builds of f.
LEMMA OwnDestinations ==
    ASSUME TypeInv, NEW i \in Id, NEW r \in {rows[i], picked[i], xfer[i].file, plan.snap[i]},
           r # NoRow, WellPlaced(FileOf[i], r), NEW p \in {r.path, r.prev}, p # NoPath
    PROVE  /\ p \in Path /\ r.path # NoPath
           /\ \E c \in Build : c <= r.build /\ p = Dest[FileOf[i]][c]
  <1>1. FileOf[i] \in File /\ r.build \in Build
    BY Typed
  <1>2. PICK c \in 1..r.build : p = Dest[FileOf[i]][c]
    BY DEF WellPlaced
  <1>3. c \in Build /\ c <= r.build
    BY <1>1, <1>2, MaxBuildAssumption DEF Build
  <1>4. r.path # NoPath
    BY DEF WellPlaced
  <1> QED BY <1>1, <1>2, <1>3, <1>4, DestAssumption

\* Two rows of different files at one path: it is all either of them has.
LEMMA SharedPath ==
    ASSUME SharedNamesStay, FileInv, NEW i \in Id, NEW j \in Id, FileOf[i] # FileOf[j],
           NEW p \in Path, Owns(rows[i], p), NEW c \in Build, p = Dest[FileOf[j]][c]
    PROVE  rows[i].path = p
  <1>1. /\ rows[i] # NoRow /\ p \in {rows[i].path, rows[i].prev} /\ p # NoPath
        /\ WellPlaced(FileOf[i], rows[i]) /\ TypeInv
        /\ FileOf[i] \in File /\ FileOf[j] \in File
    BY FileOfAssumption DEF Owns, FileInv, RowInv, PlacedInv
  <1>2. PICK b \in Build : p = Dest[FileOf[i]][b]
    BY <1>1, OwnDestinations
  <1>3. rows[i].path # NoPath
    BY <1>1, OwnDestinations
  <1>4. PICK d \in Build : rows[i].path = Dest[FileOf[i]][d]
    BY <1>1, <1>3, OwnDestinations
  <1>5. /\ FileOf[i] \in File /\ FileOf[j] \in File /\ FileOf[i] # FileOf[j]
        /\ Dest[FileOf[i]][b] = Dest[FileOf[j]][c]
    BY <1>1, <1>2
  <1>6. Dest[FileOf[i]][d] = Dest[FileOf[i]][b]
    BY <1>5 DEF SharedNamesStay
  <1> QED BY <1>2, <1>4, <1>6

LEMMA RowsApart == SharedNamesStay /\ FileInv => PathsApart
  <1>. SUFFICES ASSUME SharedNamesStay, FileInv, NEW i \in Id, NEW j \in Id, NEW p \in Path,
                       Owns(rows[i], p), Owns(rows[j], p)
                PROVE  i = j
    BY DEF PathsApart
  <1>1. /\ rows[i] # NoRow /\ p \in {rows[i].path, rows[i].prev} /\ p # NoPath
        /\ rows[j] # NoRow /\ p \in {rows[j].path, rows[j].prev}
        /\ WellPlaced(FileOf[i], rows[i]) /\ WellPlaced(FileOf[j], rows[j]) /\ TypeInv
    BY DEF Owns, FileInv, RowInv, PlacedInv
  <1>2. CASE FileOf[i] = FileOf[j]
    BY <1>1, <1>2 DEF FileInv, RowInv, OneRow
  <1>3. CASE FileOf[i] # FileOf[j]
    <2>1. PICK c \in Build : p = Dest[FileOf[i]][c]
      BY <1>1, OwnDestinations
    <2>2. PICK d \in Build : p = Dest[FileOf[j]][d]
      BY <1>1, OwnDestinations
    <2>3. rows[i].path = p
      BY <1>3, <2>2, SharedPath
    <2>4. rows[j].path = p
      BY <1>3, <2>1, SharedPath
    <2> QED BY <1>1, <2>3, <2>4 DEF FileInv, PathInv
  <1> QED BY <1>2, <1>3

\* No two rows ever record the same file on disk as theirs, however many files
\* are planned onto one path: the check of claimPath and FileOwningPath and the
\* claim that is held until SetFileResolved and CompleteFile are enough.  A
\* file that shares its path must not be renamed: its row would own two paths.
THEOREM CopiesApart ==
    ASSUME SharedNamesStay PROVE Spec => []PathsApart
  <1>1. FileInv => PathsApart
    BY RowsApart
  <1> QED BY <1>1, FilesHold, PTL

\* Without renames whatever row i has at hand mentions the one destination.
LEMMA OneDestination ==
    ASSUME NamesStay, TypeInv, NEW i \in Id,
           NEW r \in {rows[i], picked[i], xfer[i].file, plan.snap[i]},
           r # NoRow, WellPlaced(FileOf[i], r), NEW p \in {r.path, r.prev}, p # NoPath,
           NEW b \in Build
    PROVE  p = Dest[FileOf[i]][b]
  <1>1. PICK c \in Build : p = Dest[FileOf[i]][c]
    BY OwnDestinations
  <1>2. FileOf[i] \in File
    BY FileOfAssumption
  <1> QED BY <1>1, <1>2 DEF NamesStay

\* While names stay as they are, the copy a row records is touched by its own
\* transfer or by the user's answer "delete" about that very row, and by nothing
\* else: no other transfer, whose destination it may share, and no removal of
\* a superseded file or of another file's copy.
THEOREM OthersKeepOff ==
    ASSUME NamesStay, NobodyElse PROVE Spec => OnlyOwnerTouches
  <1>. DEFINE Step == \A p \in Path, j \in Id :
                         Owns(rows[j], p) /\ disk'[p] # disk[p]
                         => \/ j \in Placing /\ Attends(j, p)
                            \/ plan.pc = "drop" /\ plan.mode = "delete" /\ j \in plan.todo
  <1>1. FileInv /\ [Next]_vars => [Step]_vars
    <2>. SUFFICES ASSUME FileInv, [Next]_vars, NEW p \in Path, NEW j \in Id,
                         Owns(rows[j], p), disk'[p] # disk[p]
                  PROVE  \/ j \in Placing /\ Attends(j, p)
                         \/ plan.pc = "drop" /\ plan.mode = "delete" /\ j \in plan.todo
      OBVIOUS
    <2>0. /\ TypeInv /\ PathInv /\ PlacedInv /\ ReadInv /\ p # NoPath
          /\ rows[j] # NoRow /\ p \in {rows[j].path, rows[j].prev}
      BY NoPathAssumption DEF FileInv, RowInv, Owns
    <2>1. rows[j].path = p
      <3>1. WellPlaced(FileOf[j], rows[j]) /\ rows[j].build \in Build
        BY <2>0, Typed DEF PlacedInv
      <3>2. rows[j].path # NoPath
        BY <2>0, <3>1 DEF WellPlaced
      <3>3. p = Dest[FileOf[j]][rows[j].build]
        BY <2>0, <3>1, OneDestination
      <3>4. rows[j].path = Dest[FileOf[j]][rows[j].build]
        BY <2>0, <3>1, <3>2, OneDestination
      <3> QED BY <3>3, <3>4
    <2>2. PICK i \in Id : Wrote(i, p) \/ Tidied(i, p) \/ Wiped(i, p)
      BY <2>0, DiskFollows DEF DiskStep
    <2>3. CASE Wrote(i, p)
      <3>1. i \in Checked /\ i \in Placing /\ p = Target(i)
        BY <2>3 DEF Wrote, Checked, Placing
      <3>2. i = j
        BY <2>0, <2>1, <3>1 DEF PathInv
      <3> QED BY <3>1, <3>2 DEF Attends
    <2>4. CASE Tidied(i, p)
      <3>1. /\ i \in Running /\ xfer[i].file # NoRow /\ xfer[i].file.build \in Build
            /\ WellPlaced(FileOf[i], xfer[i].file)
        BY <2>0, <2>4, Destination, NoRowAssumption DEF Tidied, Running, PlacedInv
      <3>2. p = Dest[FileOf[i]][xfer[i].file.build]
        BY <2>0, <2>4, <3>1, OneDestination DEF Tidied
      <3>3. p # Target(i)
        BY <2>0, <2>4 DEF Tidied, PathInv
      <3> QED BY <3>2, <3>3 DEF Target
    <2>5. CASE Wiped(i, p)
      <3>1. /\ Read(i) /\ plan.snap[i] # NoRow /\ rows[i] # NoRow
            /\ WellPlaced(FileOf[i], plan.snap[i]) /\ WellPlaced(FileOf[i], rows[i])
            /\ rows[i].build \in Build
        BY <2>0, <2>5, Typed DEF Wiped, Read, ReadInv, PlacedInv
      <3>2. p = Dest[FileOf[i]][rows[i].build]
        BY <2>0, <2>5, <3>1, OneDestination DEF Wiped
      <3>3. rows[i].path # NoPath
        BY <2>0, <2>5, <3>1 DEF Wiped, WellPlaced, ReadInv
      <3>4. rows[i].path = Dest[FileOf[i]][rows[i].build]
        BY <2>0, <3>1, <3>3, OneDestination
      <3>5. i = j
        BY <2>0, <2>1, <3>1, <3>2, <3>4 DEF PathInv
      <3> QED BY <2>5, <3>5 DEF Wiped
    <2> QED BY <2>2, <2>3, <2>4, <2>5
  <1> QED BY <1>1, FilesHold, PTL DEF Spec, OnlyOwnerTouches

-----------------------------------------------------------------------------
(* What is presented as downloaded.                                        *)

\* A superseded file that is removed is not where a copy of any row belongs.
LEMMA SupersededIsElsewhere ==
    ASSUME SharedNamesStay, NamesMoveOn, FileInv, NEW k \in Id, xfer[k].pc = "tidy",
           NEW i \in Id, rows[i] # NoRow
    PROVE  xfer[k].file.prev # Dest[FileOf[i]][rows[i].build]
  <1>. DEFINE p == xfer[k].file.prev
              e == xfer[k].file.build
              b == rows[i].build
  <1>. SUFFICES ASSUME p = Dest[FileOf[i]][b] PROVE FALSE
    OBVIOUS
  <1>0. TypeInv /\ PathInv /\ BuildInv /\ PlacedInv
    BY DEF FileInv, RowInv
  <1>1. /\ xfer[k].file # NoRow /\ WellPlaced(FileOf[k], xfer[k].file)
        /\ p # NoPath /\ p # Target(k)
    <2>1. k \in Running
      BY DEF Running
    <2>2. xfer[k].file # NoRow
      BY <1>0, <2>1, Destination, NoRowAssumption
    <2> QED BY <1>0, <2>2 DEF PlacedInv, PathInv
  <1>2. FileOf[k] \in File /\ FileOf[i] \in File /\ e \in Build /\ b \in Build
    BY <1>0, <1>1, Typed
  <1>3. PICK c \in Build : c <= e /\ p = Dest[FileOf[k]][c]
    BY <1>0, <1>1, OwnDestinations
  <1>4. Dest[FileOf[k]][e] # Dest[FileOf[k]][c]
    BY <1>1, <1>3 DEF Target
  <1>5. CASE FileOf[k] # FileOf[i]
    <2>1. Dest[FileOf[k]][c] = Dest[FileOf[i]][b]
      BY <1>3
    <2> QED BY <1>2, <1>4, <1>5, <2>1 DEF SharedNamesStay
  <1>6. CASE FileOf[k] = FileOf[i]
    <2>1. e <= b
      BY <1>0, <1>1, <1>6 DEF BuildInv
    <2>2. Dest[FileOf[k]][c] = Dest[FileOf[k]][b]
      BY <1>3, <1>6
    <2> QED BY <1>2, <1>3, <1>4, <2>1, <2>2 DEF NamesMoveOn
  <1> QED BY <1>5, <1>6

\* A copy that is removed with its row is not where another row's belongs,
\* unless the row that goes has the path.
LEMMA WipedIsElsewhere ==
    ASSUME SharedNamesStay, FileInv, NEW k \in Id, NEW i \in Id \ {k}, rows[i] # NoRow,
           NEW b \in Build, Wiped(k, Dest[FileOf[i]][b])
    PROVE  rows[k] # NoRow /\ rows[k].path = Dest[FileOf[i]][b]
  <1>. DEFINE p == Dest[FileOf[i]][b]
  <1>0. TypeInv /\ ReadInv /\ PlacedInv /\ OneRow
    BY DEF FileInv, RowInv
  <1>1. /\ Read(k) /\ rows[k] # NoRow /\ plan.snap[k] # NoRow
        /\ plan.snap[k].path # NoPath => rows[k].path # NoPath
        /\ WellPlaced(FileOf[k], plan.snap[k]) /\ WellPlaced(FileOf[k], rows[k])
    BY <1>0 DEF Wiped, Read, ReadInv, PlacedInv
  <1>2. FileOf[k] \in File /\ FileOf[i] \in File /\ FileOf[k] # FileOf[i]
    BY <1>0, <1>1, FileOfAssumption DEF OneRow
  <1>3. p # NoPath
    BY <1>2, DestAssumption, NoPathAssumption
  <1>4. p \in {plan.snap[k].path, plan.snap[k].prev}
    BY DEF Wiped
  <1>5. PICK c \in Build : p = Dest[FileOf[k]][c]
    BY <1>0, <1>1, <1>3, <1>4, OwnDestinations
  <1>6. plan.snap[k].path # NoPath
    BY <1>0, <1>1, <1>3, <1>4, OwnDestinations
  <1>7. PICK d \in Build : rows[k].path = Dest[FileOf[k]][d]
    BY <1>0, <1>1, <1>6, OwnDestinations
  <1>8. Dest[FileOf[k]][d] = Dest[FileOf[k]][c]
    BY <1>2, <1>5 DEF SharedNamesStay
  <1> QED BY <1>1, <1>5, <1>7, <1>8

\* The bytes where a row's copy belongs change only at the hands of a transfer
\* to that place, or with a row that goes and has the path.
LEMMA PlacesStay ==
    ASSUME SharedNamesStay, NamesMoveOn, NobodyElse, FileInv, [Next]_vars,
           NEW i \in Id, rows[i] # NoRow, rows'[i] # NoRow,
           NEW p, p = Dest[FileOf[i]][rows[i].build], disk'[p] # disk[p]
    PROVE  \/ \E k \in Id : Wrote(k, p)
           \/ \E k \in Id \ {i} : rows[k] # NoRow /\ rows[k].path = p
  <1>1. p \in Path /\ rows[i].build \in Build /\ TypeInv
    BY Typed DEF FileInv
  <1>2. PICK k \in Id : Wrote(k, p) \/ Tidied(k, p) \/ Wiped(k, p)
    BY <1>1, DiskFollows DEF DiskStep
  <1>3. ~Tidied(k, p)
    BY SupersededIsElsewhere DEF Tidied
  <1>4. CASE Wiped(k, p)
    <2>1. k # i
      BY <1>4 DEF Wiped
    <2> QED BY <1>1, <1>4, <2>1, WipedIsElsewhere
  <1> QED BY <1>2, <1>3, <1>4

LEMMA StepArrivedInv ==
    ASSUME SharedNamesStay, NamesMoveOn, AllSummed, NobodyElse, FileInv, ArrivedInv,
           [Next]_vars
    PROVE  ArrivedInv'
  <1>. SUFFICES ASSUME NEW i \in Id, xfer'[i].pc \in {"complete", "confirm"},
                       rows'[i] # NoRow, rows'[i].build = xfer'[i].file.build
                PROVE  disk'[Target(i)'] = Wanted(i)'
    BY DEF ArrivedInv
  <1>0. /\ TypeInv /\ PathInv /\ BuildInv /\ ReadInv /\ UnusedInv
        /\ RowsStep /\ WorkStep /\ ClaimsHoldApart
    BY RowsFollow, WorkFollows, ClaimsApart DEF FileInv, RowInv
  <1>1. /\ xfer'[i].file = xfer[i].file
        /\ xfer'[i].pc = xfer[i].pc \/ (Works(i) /\ Advances(i, xfer'[i].pc))
    BY <1>0 DEF WorkStep
  <1>2. Target(i)' = Target(i) /\ Wanted(i)' = Wanted(i)
    BY <1>1 DEF Target, Wanted
  <1>3. i \in Running => Target(i) \in Path /\ xfer[i].file # NoRow
    BY <1>0, Destination, NoRowAssumption
  <1>4. FileOf[i] \in Summed /\ FileOf[i] \notin Saves
    BY FileOfAssumption DEF AllSummed
  <1>5. CASE xfer'[i].pc = xfer[i].pc
    <2>1. i \in Checked /\ i \in Running /\ i \in Placing
      BY <1>5 DEF Checked, Running, Placing
    <2>2. rows[i] # NoRow /\ rows[i].build = xfer[i].file.build
      <3>1. CASE Inserted(i)
        BY <1>0, <1>3, <2>1, <3>1 DEF Inserted, UnusedInv
      <3>2. CASE Updated(i)
        <4>1. /\ rows[i] # NoRow /\ rows[i].build <= plan.build
              /\ xfer[i].file.build = plan.build
          BY <1>0, <1>1, <3>2 DEF Updated, ReadInv
        <4>2. xfer[i].file.build <= rows[i].build
          BY <1>0, <1>3, <2>1, <4>1 DEF BuildInv
        <4>3. rows[i].build \in Nat /\ plan.build \in Nat
          BY <1>0, <4>1, Typed, MaxBuildAssumption DEF TypeInv, TypeOK, Plan, Build
        <4> QED BY <4>1, <4>2, <4>3
      <3> QED BY <1>0, <1>1, <3>1, <3>2 DEF RowsStep, Alike, Moved, Removed
    <2>3. disk[Target(i)] = Wanted(i)
      BY <1>5, <2>2 DEF ArrivedInv
    <2>4. ASSUME disk'[Target(i)] # disk[Target(i)] PROVE FALSE
      <3>1. Target(i) = Dest[FileOf[i]][rows[i].build]
        BY <2>2 DEF Target
      <3>2. ASSUME NEW k \in Id, Wrote(k, Target(i)) PROVE FALSE
        <4>1. k \in Placing /\ k # i /\ Target(k) = Target(i)
          BY <1>5, <3>2 DEF Wrote, Placing
        <4> QED BY <1>0, <2>1, <4>1 DEF ClaimsHoldApart
      <3>3. ASSUME NEW k \in Id \ {i}, rows[k] # NoRow, rows[k].path = Target(i) PROVE FALSE
        BY <1>0, <2>1, <3>3 DEF PathInv
      <3> QED BY <2>2, <2>4, <3>1, <3>2, <3>3, PlacesStay
    <2> QED BY <1>2, <2>3, <2>4
  <1>6. CASE Works(i) /\ Advances(i, "complete")
    <2>1. WritePart(i)
      BY <1>6 DEF Works, Advances
    <2>2. disk' = [disk EXCEPT ![Target(i)] = part[Target(i)]]
          /\ part[Target(i)] = Wanted(i)
      BY <1>0, <1>4, <1>6, <2>1 DEF WritePart, Fail, Advances, TypeInv, TypeOK, Transfer
    <2>3. i \in Running
      BY <1>6 DEF Advances, Running
    <2> QED BY <1>0, <1>2, <1>3, <2>2, <2>3 DEF TypeInv, TypeOK
  <1>7. CASE Works(i) /\ Advances(i, "confirm")
    <2>1. AlreadyPresent(i)
      BY <1>7 DEF Works, Advances
    <2> QED BY <1>2, <1>4, <2>1 DEF AlreadyPresent, fs
  <1> QED BY <1>1, <1>5, <1>6, <1>7

\* What the upsert presents was presented, or kept, as that build.
LEMMA UpsertShows ==
    ASSUME NEW r \in Row, NEW stored \in Row, NEW b \in Build, NEW onDisk \in BOOLEAN
    PROVE  /\ Upsert(r, stored, b, onDisk).status # "inactive"
           /\ Upsert(r, stored, b, onDisk).status = "done"
              => /\ stored.build = b
                 /\ \/ stored.status = "done"
                    \/ stored.status = "inactive" /\ stored.prev = NoPath
  <1>. DEFINE u == PlanUpsert(stored, stored.build # b, onDisk)
  <1>1. /\ u.status # "inactive"
        /\ u.status = "done" => /\ stored.build = b
                                /\ \/ stored.status = "done"
                                   \/ stored.status = "inactive" /\ stored.prev = NoPath
    BY DEF PlanUpsert, Reactivated, KeptCopy, Replaced, Row, Status
  <1>. HIDE DEF u
  <1>2. Upsert(r, stored, b, onDisk).status = u.status
    BY DEF Upsert, u, Row
  <1> QED BY <1>1, <1>2

\* The transfer records its build as downloaded.
Completes(i) == Complete(i) /\ ~xfer[i].cancelled /\ StillWants(rows[i], xfer[i].file.build)

\* A copy is presented or kept because it was before, or was just completed.
LEMMA HadCopy ==
    ASSUME FileInv, [Next]_vars, NEW i \in Id, HasCopy(i)'
    PROVE  \/ HasCopy(i) /\ rows'[i].build = rows[i].build
           \/ Completes(i)
  <1>0. /\ TypeInv /\ ReadInv /\ rows'[i] # NoRow
        /\ rows \in [Id -> Row \cup {NoRow}]
    BY DEF FileInv, RowInv, HasCopy, TypeInv, TypeOK
  <1>1. rows'[i] = rows[i] /\ (Read(i)' => plan' = plan) => HasCopy(i)
    BY DEF HasCopy, Read
  <1>2. CASE Calm
    BY <1>1, <1>2 DEF Calm, Read
  <1>3. CASE Fill \/ \E k \in Id : Begins(k)
    BY <1>1, <1>3 DEF Fill, Begins, db
  <1>4. ASSUME NEW k \in Id, Marks(k) PROVE HasCopy(i) /\ rows'[i].build = rows[i].build
    <2>1. CASE k # i
      BY <1>0, <1>1, <1>4, <2>1 DEF Marks
    <2>2. CASE k = i
      <3>1. /\ rows[i] # NoRow /\ rows'[i].build = rows[i].build /\ rows'[i].prev = rows[i].prev
            /\ \/ rows'[i].status = rows[i].status
               \/ rows'[i].status \in {"pending", "error"}
        BY <1>0, <1>4, <2>2 DEF Marks, Marked
      <3>2. plan' = plan
        BY <1>4 DEF Marks
      <3> QED BY <3>1, <3>2 DEF HasCopy, Read
    <2> QED BY <2>1, <2>2
  <1>5. ASSUME NEW k \in Id, Works(k)
        PROVE  \/ HasCopy(i) /\ rows'[i].build = rows[i].build
               \/ Completes(i)
    <2>1. plan' = plan
      BY <1>5 DEF Works, CheckOwner, Resolve, AlreadyPresent, OpenPart, WritePart, Complete,
                  Discard, RemovePrevious
    <2>2. CASE rows'[i] = rows[i]
      BY <1>1, <2>1, <2>2
    <2>3. CASE rows'[i] # rows[i] /\ Resolve(k)
      <3>1. /\ rows'[i] = SetFileResolved(rows[i], Target(i)) /\ rows[i] # NoRow
        BY <1>0, <2>3 DEF Resolve, SetFileResolved
      <3>2. /\ rows'[i].build = rows[i].build /\ rows'[i].prev = rows[i].prev
            /\ rows'[i].status = rows[i].status
        BY <1>0, <3>1 DEF SetFileResolved, Row
      <3> QED BY <2>1, <3>1, <3>2 DEF HasCopy, Read
    <2>4. CASE rows'[i] # rows[i] /\ Complete(k)
      <3>1. k = i /\ ~xfer[k].cancelled /\ StillWants(rows[k], xfer[k].file.build)
        BY <1>0, <2>4 DEF Complete
      <3> QED BY <2>4, <3>1 DEF Completes
    <2>5. CASE rows'[i] # rows[i] /\ ~Resolve(k) /\ ~Complete(k)
      BY <1>5, <2>5 DEF Works, CheckOwner, AlreadyPresent, OpenPart, WritePart, Discard,
                        RemovePrevious, db
    <2> QED BY <2>2, <2>3, <2>4, <2>5
  <1>6. ASSUME NEW f \in File, PlanFile(f) PROVE HasCopy(i) /\ rows'[i].build = rows[i].build
    <2>1. CASE rows' = rows /\ plan' = plan
      BY <1>1, <2>1
    <2>2. CASE rows' # rows
      <3>1. plan.pc = "idle" /\ plan' = plan
        BY <1>6, <2>2 DEF PlanFile, db
      <3>2. PICK k \in Id : rows' = [rows EXCEPT ![k] = Fresh(offered[f])]
        BY <1>0, <1>6, <2>2 DEF PlanFile, db, TypeInv, TypeOK
      <3>3. CASE k # i
        BY <1>0, <1>1, <3>1, <3>2, <3>3
      <3>4. CASE k = i
        <4>1. rows'[i].status = "pending"
          BY <1>0, <3>2, <3>4 DEF Fresh
        <4> QED BY <3>1, <4>1 DEF HasCopy, Read
      <3> QED BY <3>3, <3>4
    <2>3. CASE rows' = rows /\ plan' # plan
      <3>1. PICK k \in Id : plan' = [NoPlan(offered[f]) EXCEPT !.pc = "upsert", !.at = k,
                                                              !.snap[k] = rows[k]]
        BY <1>6, <2>3 DEF PlanFile
      <3>2. plan'.pc = "upsert" /\ plan'.at = k /\ plan'.snap[k] = rows[k]
        BY <3>1 DEF NoPlan, NoSnap
      <3> QED BY <1>0, <2>3, <3>2 DEF HasCopy, Read
    <2> QED BY <2>1, <2>2, <2>3
  <1>7. ASSUME UpdateRow PROVE HasCopy(i) /\ rows'[i].build = rows[i].build
    <2>1. plan'.pc \notin {"upsert", "drop"}
      <3>1. \/ plan' = Idle
            \/ \E k : plan' = [plan EXCEPT !.pc = "abort", !.aborts = {k}, !.at = NoId]
        BY <1>7 DEF UpdateRow
      <3>2. Idle.pc = "idle"
        BY DEF Idle, NoPlan
      <3> QED BY <1>0, <3>1, <3>2 DEF TypeInv, TypeOK, Plan
    <2>2. CASE rows'[i] = rows[i]
      BY <1>1, <2>1, <2>2 DEF Read
    <2>3. CASE rows'[i] # rows[i]
      <3>. DEFINE stored == plan.snap[i]
                  onDisk == seen = "there"
      <3>1. /\ i = plan.at /\ plan.pc = "upsert" /\ rows[i] # NoRow
            /\ rows'[i] = Upsert(rows[i], stored, plan.build, onDisk)
        BY <1>0, <1>7, <2>3 DEF UpdateRow
      <3>2. /\ rows[i] \in Row /\ stored \in Row /\ plan.build \in Build /\ onDisk \in BOOLEAN
            /\ Read(i) /\ stored.build = rows[i].build
        BY <1>0, <3>1 DEF TypeInv, TypeOK, Plan, ReadInv, Read
      <3>. HIDE DEF onDisk
      <3>3. rows'[i].status = "done" \/ rows'[i].status = "inactive"
        BY <2>1 DEF HasCopy, Read
      <3>4. /\ rows'[i].status # "inactive"
            /\ rows'[i].status = "done"
               => /\ stored.build = plan.build
                  /\ \/ stored.status = "done"
                     \/ stored.status = "inactive" /\ stored.prev = NoPath
        BY <3>1, <3>2, UpsertShows
      <3>5. rows'[i].build = plan.build
        BY <3>1, <3>2, UpsertWrites
      <3> QED BY <3>1, <3>2, <3>3, <3>4, <3>5 DEF HasCopy
    <2> QED BY <2>2, <2>3
  <1>8. ASSUME NEW S \in SUBSET Id, NEW mode \in {"unplan", "keep", "delete"},
               ListDropped(S, mode)
        PROVE  HasCopy(i) /\ rows'[i].build = rows[i].build
    <2>1. /\ plan'.pc = "drop" /\ plan'.todo = S
          /\ \A k \in S : plan'.snap[k] = rows[k]
          /\ rows' = rows
      BY <1>8 DEF ListDropped, Idle, NoPlan, db
    <2> QED BY <1>0, <2>1 DEF HasCopy, Read
  <1>9. ASSUME NEW k \in Id, DropRow(k) PROVE HasCopy(i) /\ rows'[i].build = rows[i].build
    <2>1. /\ plan.pc = "drop" /\ k \in plan.todo /\ plan'.pc = "drop"
          /\ plan'.todo = plan.todo \ {k} /\ plan'.snap = plan.snap
      BY <1>9, <1>0 DEF DropRow, TypeInv, TypeOK, Plan
    <2>2. CASE k # i
      <3>1. rows'[i] = rows[i]
        BY <1>0, <1>9, <2>2 DEF DropRow
      <3> QED BY <1>0, <2>1, <3>1 DEF HasCopy, Read
    <2>3. CASE k = i
      <3>. DEFINE f == plan.snap[i]
      <3>1. /\ rows'[i] = SetFileInactive(rows[i])
            /\ KeepsRow(f) \/ DownloadedPath(f) # NoPath
        BY <1>0, <1>9, <2>3 DEF DropRow
      <3>2. /\ rows[i] # NoRow /\ rows'[i].build = rows[i].build
            /\ rows'[i].prev = rows[i].prev /\ rows'[i].status = "inactive"
        BY <1>0, <3>1 DEF SetFileInactive, Row
      <3>3. f.status = "done" \/ f.prev # NoPath
        BY <3>1 DEF KeepsRow, DownloadedPath
      <3>4. Read(i) /\ ~Read(i)'
        BY <2>1, <2>3 DEF Read
      <3>5. rows[i].prev = NoPath
        BY <3>2, <3>4 DEF HasCopy
      <3> QED BY <2>1, <3>2, <3>3, <3>4, <3>5 DEF HasCopy
    <2> QED BY <2>2, <2>3
  <1> QED BY <1>0, <1>2, <1>3, <1>4, <1>5, <1>6, <1>7, <1>8, <1>9, FileSteps DEF Plans

\* A transfer that handles bytes did so before, or was just begun.
LEMMA TransfersFollow ==
    ASSUME TypeInv, [Next]_vars, NEW i \in Id, Handles(xfer'[i].pc)
    PROVE  \/ Handles(xfer[i].pc) /\ xfer'[i].file = xfer[i].file
           \/ picked[i] # NoRow /\ xfer'[i].file = picked[i]
  <1>1. CASE Calm
    BY <1>1 DEF Calm, Handles
  <1>2. CASE Fill \/ Plans
    BY <1>2 DEF Fill, Plans, PlanFile, UpdateRow, ListDropped, DropRow
  <1>3. ASSUME NEW k \in Id, Begins(k)
        PROVE  \/ Handles(xfer[i].pc) /\ xfer'[i].file = xfer[i].file
               \/ picked[i] # NoRow /\ xfer'[i].file = picked[i]
    BY <1>3 DEF Begins
  <1>4. ASSUME NEW k \in Id, Works(k)
        PROVE  Handles(xfer[i].pc) /\ xfer'[i].file = xfer[i].file
    <2>1. CASE k # i
      BY <1>4, <2>1 DEF Works, Advances
    <2>2. CASE k = i
      <3>1. xfer'[i].file = xfer[i].file
        BY <1>4, <2>2 DEF Works, Advances
      <3>2. CASE CheckOwner(i) \/ Resolve(i) \/ AlreadyPresent(i) \/ OpenPart(i) \/ WritePart(i)
                 \/ Complete(i) \/ Discard(i)
        BY <3>1, <3>2 DEF CheckOwner, Resolve, AlreadyPresent, OpenPart, WritePart, Complete,
                          Discard, Handles
      <3>3. CASE RemovePrevious(i) /\ Advances(i, "leave")
        BY <3>3 DEF Advances, Handles
      <3> QED BY <1>4, <2>2, <3>2, <3>3 DEF Works
    <2> QED BY <2>1, <2>2
  <1>5. ASSUME NEW k \in Id, Marks(k)
        PROVE  Handles(xfer[i].pc) /\ xfer'[i].file = xfer[i].file
    BY <1>5 DEF Marks, Advances, Handles
  <1> QED BY <1>1, <1>2, <1>3, <1>4, <1>5, FileSteps

\* What a transfer records as downloaded is in its place.
LEMMA CompletedIsCopied ==
    ASSUME FileInv, ArrivedInv, NEW i \in Id, Completes(i)
    PROVE  Copied(i)'
  <1>0. TypeInv /\ PickedInv
    BY DEF FileInv, RowInv
  <1>1. /\ xfer[i].pc \in {"complete", "confirm"}
        /\ rows[i] # NoRow /\ rows[i].build = xfer[i].file.build
        /\ rows' = [rows EXCEPT ![i] = Completed(rows[i], Target(i))]
        /\ Goto(i, AfterComplete(i, TRUE))
        /\ disk' = disk /\ picked' = picked
    BY DEF Completes, Complete, StillWants, Active, fs
  <1>2. /\ rows[i] \in Row /\ rows'[i] = Completed(rows[i], Target(i))
    BY <1>0, <1>1 DEF TypeInv, TypeOK
  <1>3. rows'[i].path = Target(i) /\ rows'[i].build = rows[i].build
    BY <1>2 DEF Completed, Row
  <1>4. Target(i) = Dest[FileOf[i]][rows[i].build] /\ Wanted(i) = <<FileOf[i], rows[i].build>>
    BY <1>1 DEF Target, Wanted
  <1>5. disk[Target(i)] = Wanted(i)
    BY <1>1 DEF ArrivedInv
  <1>6. picked[i] = NoRow
    BY <1>0, <1>1 DEF PickedInv
  <1>7. AfterComplete(i, TRUE) \in {"leave", "tidy"}
    BY DEF AfterComplete
  <1>8. xfer'[i].pc \in {"leave", "tidy"}
    BY <1>0, <1>1, <1>7 DEF Goto, TypeInv, TypeOK, Transfer
  <1> QED BY <1>1, <1>3, <1>4, <1>5, <1>6, <1>8 DEF Copied, Handles

\* It stays there while the row lasts and is of that build.
LEMMA CopyStays ==
    ASSUME SharedNamesStay, NamesMoveOn, AllSummed, NobodyElse, FileInv, [Next]_vars,
           NEW i \in Id, rows[i] # NoRow, Copied(i),
           rows'[i] # NoRow, rows'[i].build = rows[i].build
    PROVE  Copied(i)'
  <1>0. TypeInv /\ PathInv /\ RowsStep /\ HandsStep /\ WorkStep
    BY RowsFollow, HandsFollow, WorkFollows DEF FileInv
  <1>1. /\ rows[i] # NoRow
        /\ rows[i].path = Dest[FileOf[i]][rows[i].build]
        /\ disk[rows[i].path] = <<FileOf[i], rows[i].build>>
        /\ picked[i] # NoRow => picked[i].build = rows[i].build
        /\ Handles(xfer[i].pc) => xfer[i].file.build = rows[i].build
        /\ xfer[i].pc \notin {"write", "complete", "discard"}
    BY DEF Copied
  <1>2. rows[i].path \in Path /\ rows[i].path # NoPath
    BY <1>0, <1>1, Typed, NoPathAssumption
  <1>3. rows'[i].path = rows[i].path
    <2>1. CASE Moved(i)
      <3>1. Handles(xfer[i].pc) /\ rows'[i].path = Target(i)
        BY <2>1 DEF Moved, Checked, Handles
      <3> QED BY <1>1, <3>1 DEF Target
    <2>2. CASE Inserted(i)
      BY <1>1, <2>2 DEF Inserted
    <2> QED BY <1>0, <1>1, <2>1, <2>2 DEF RowsStep, Alike, Updated, Removed
  <1>4. disk'[rows[i].path] = disk[rows[i].path]
    <2>. SUFFICES ASSUME disk'[rows[i].path] # disk[rows[i].path] PROVE FALSE
      OBVIOUS
    <2>1. ASSUME NEW k \in Id, Wrote(k, rows[i].path) PROVE FALSE
      <3>1. k # i /\ k \in Checked /\ Target(k) = rows[i].path
        BY <1>1, <2>1 DEF Wrote, Checked
      <3> QED BY <1>0, <1>1, <3>1 DEF PathInv
    <2>2. ASSUME NEW k \in Id \ {i}, rows[k] # NoRow, rows[k].path = rows[i].path PROVE FALSE
      BY <1>0, <1>1, <1>2, <2>2 DEF PathInv
    <2>3. \/ \E k \in Id : Wrote(k, rows[i].path)
          \/ \E k \in Id \ {i} : rows[k] # NoRow /\ rows[k].path = rows[i].path
      BY <1>0, <1>1, PlacesStay
    <2> QED BY <2>1, <2>2, <2>3
  <1>5. picked'[i] # NoRow => picked'[i].build = rows[i].build
    BY <1>0, <1>1 DEF HandsStep
  <1>6. Handles(xfer'[i].pc) => xfer'[i].file.build = rows[i].build
    BY <1>0, <1>1, TransfersFollow
  <1>7. ASSUME xfer'[i].pc \in {"write", "complete", "discard"} PROVE FALSE
    <2>1. Works(i) /\ Advances(i, xfer'[i].pc)
      BY <1>0, <1>1, <1>7 DEF WorkStep
    <2>2. CASE xfer'[i].pc = "write"
      <3>1. OpenPart(i)
        BY <2>1, <2>2 DEF Works, Advances
      <3>2. Handles(xfer[i].pc)
        BY <3>1 DEF OpenPart, Handles
      <3>3. disk[Target(i)] = Wanted(i)
        BY <1>1, <3>2 DEF Target, Wanted
      <3>4. FileOf[i] \in Summed /\ FileOf[i] \notin Saves
        BY FileOfAssumption DEF AllSummed
      <3> QED BY <3>1, <3>3, <3>4 DEF OpenPart, LooksForCopy
    <2>3. CASE xfer'[i].pc = "complete"
      <3>1. WritePart(i)
        BY <2>1, <2>3 DEF Works, Advances
      <3> QED BY <1>1, <3>1 DEF WritePart
    <2>4. CASE xfer'[i].pc = "discard"
      <3>1. Complete(i)
        BY <2>1, <2>4 DEF Works, Advances
      <3>2. PICK ok \in BOOLEAN : Goto(i, AfterComplete(i, ok))
        BY <3>1 DEF Complete, StillWants, Active
      <3>3. AfterComplete(i, ok) = "discard"
        BY <1>0, <2>4, <3>2 DEF Goto, TypeInv, TypeOK, Transfer
      <3> QED BY <1>1, <3>3 DEF AfterComplete
    <2> QED BY <1>7, <2>2, <2>3, <2>4
  <1> QED BY <1>1, <1>3, <1>4, <1>5, <1>6, <1>7 DEF Copied

LEMMA StepCopyInv ==
    ASSUME SharedNamesStay, NamesMoveOn, AllSummed, NobodyElse, FileInv, ArrivedInv, CopyInv,
           [Next]_vars
    PROVE  CopyInv'
  <1>1. ASSUME NEW i \in Id, HasCopy(i)' PROVE Copied(i)'
    <2>1. CASE Completes(i)
      BY <2>1, CompletedIsCopied
    <2>2. CASE HasCopy(i) /\ rows'[i].build = rows[i].build
      <3>1. rows[i] # NoRow /\ rows'[i] # NoRow /\ Copied(i)
        BY <1>1, <2>2 DEF HasCopy, CopyInv
      <3> QED BY <2>2, <3>1, CopyStays
    <2> QED BY <1>1, <2>1, <2>2, HadCopy
  <1> QED BY <1>1 DEF CopyInv

LEMMA BytesHold ==
    ASSUME SharedNamesStay, NamesMoveOn, AllSummed, NobodyElse
    PROVE  Spec => [](ArrivedInv /\ CopyInv)
  <1>1. Init => ArrivedInv /\ CopyInv
    BY DEF Init, ArrivedInv, CopyInv, HasCopy, NoTransfer
  <1>2. FileInv /\ ArrivedInv /\ CopyInv /\ [Next]_vars => ArrivedInv' /\ CopyInv'
    BY StepArrivedInv, StepCopyInv
  <1> QED BY <1>1, <1>2, FilesHold, PTL DEF Spec

\* A file that is presented as downloaded is on disk, complete and of the build
\* its row describes, in every order of sync, queue, drops, pauses and crashes
\* (UpsertDesiredFileVerified, CompleteFile, claimPath, removePrevious).  GOG
\* publishes checksums, does not reuse a name a file has given up, and does not
\* rename a file that shares its path; without any of the three it may fail.
THEOREM DoneMeansThere ==
    ASSUME SharedNamesStay, NamesMoveOn, AllSummed, NobodyElse
    PROVE  Spec => []DoneIsOnDisk
  <1>1. CopyInv => DoneIsOnDisk
    <2>1. \A i \in Id : rows[i] # NoRow /\ rows[i].status = "done" => HasCopy(i)
      BY DEF HasCopy
    <2> QED BY <2>1 DEF CopyInv, Copied, DoneIsOnDisk
  <1> QED BY <1>1, BytesHold, PTL

-----------------------------------------------------------------------------
(* The copy that is to be replaced.                                        *)

\* Row i waits for a newer build of a file that was downloaded.
Replaces(i) == rows[i] # NoRow /\ rows[i].prev # NoPath

\* Every build of a file is stored under a name of its own.
OwnNames == \A f \in File : \A b, c \in Build : Dest[f][b] = Dest[f][c] => b = c

\* No transfer that could not be recorded takes back what it has just put over
\* the copy it replaces: a pause, a stop or a drop between rename and
\* CompleteFile makes it do that.
NothingTakenBack ==
    \A i \in Id : xfer[i].pc = "discard" /\ Replaces(i) => Target(i) # rows[i].prev

\* No download of an update is recorded between the SELECT and the UPDATE of the
\* upsert of its row, unless GOG has no further build of the file to offer.
ReadsAlone ==
    \A i \in Id :
        plan.pc = "upsert" /\ plan.at = i /\ Replaces(i) /\ rows[i].build < MaxBuild
        => ~Completes(i)

\* A complete build of row i's file is at p, and no transfer is to remove it or
\* to put another row's file there.
Safe(i, p) == /\ \E v \in Build : disk[p] = <<FileOf[i], v>>
              /\ \A k \in Id : xfer[k].pc = "tidy" => xfer[k].file.prev # p
              /\ \A k \in Checked \ {i} : Target(k) # p

\* It is the build that is stored there, and row i's own transfer stays off too.
Untouched(i, p) ==
    /\ \A v \in Build : p = Dest[FileOf[i]][v] => disk[p] = <<FileOf[i], v>>
    /\ xfer[i].pc \in {"write", "complete", "discard"} => Target(i) # p

\* The copy to be replaced is safe, or the last build of all is there already.
OldCopyInv ==
    \A i \in Id : Replaces(i) =>
        /\ rows[i].build > 1
        /\ \/ Safe(i, rows[i].prev) /\ (OwnNames => Untouched(i, rows[i].prev))
           \/ rows[i].build = MaxBuild /\ Copied(i)

\* Was the copy at the row's path presented, or kept, when r was read?
Shown(r) == r.status = "done" \/ (r.status = "inactive" /\ r.prev = NoPath)

\* What the upsert goes by still holds when it writes.
SnapInv ==
    \A i \in Id : Read(i) =>
        /\ plan.snap[i].prev # NoPath => plan.snap[i].build > 1
        /\ Shown(plan.snap[i])
           => plan.snap[i].path = Dest[FileOf[i]][plan.snap[i].build]
        /\ plan.pc = "upsert" /\ plan.snap[i].prev # NoPath
           => \/ rows[i].prev = plan.snap[i].prev
              \/ rows[i].build = MaxBuild /\ Copied(i)

\* A copy that has just been recorded is safe as what the next build replaces.
LEMMA CopyIsSafe ==
    ASSUME SharedNamesStay, NamesMoveOn, FileInv, NEW i \in Id, rows[i] # NoRow, Copied(i)
    PROVE  /\ Safe(i, rows[i].path)
           /\ OwnNames => Untouched(i, rows[i].path)
  <1>. DEFINE p == rows[i].path
  <1>1. /\ TypeInv /\ PathInv /\ FileOf[i] \in File /\ rows[i].build \in Build
        /\ p = Dest[FileOf[i]][rows[i].build]
        /\ disk[p] = <<FileOf[i], rows[i].build>>
        /\ xfer[i].pc \notin {"write", "complete", "discard"}
    BY Typed DEF FileInv, Copied
  <1>2. \A k \in Id : xfer[k].pc = "tidy" => xfer[k].file.prev # p
    BY <1>1, SupersededIsElsewhere
  <1>3. \A k \in Checked \ {i} : Target(k) # p
    BY <1>1 DEF PathInv
  <1>4. OwnNames => Untouched(i, p)
    BY <1>1 DEF OwnNames, Untouched
  <1> QED BY <1>1, <1>2, <1>3, <1>4 DEF Safe

\* A safe copy is changed by the transfer of its own row and by nothing else.
LEMMA OwnTransferWrites ==
    ASSUME SharedNamesStay, NobodyElse, FileInv, [Next]_vars,
           NEW i \in Id, Replaces(i), NEW p, p = rows[i].prev, Safe(i, p),
           rows'[i] # NoRow, disk'[p] # disk[p]
    PROVE  Wrote(i, p)
  <1>0. /\ TypeInv /\ PathInv /\ PlacedInv /\ OneRow
        /\ rows[i] # NoRow /\ p # NoPath /\ WellPlaced(FileOf[i], rows[i])
    BY DEF FileInv, RowInv, PlacedInv, Replaces
  <1>1. p \in Path /\ rows[i].path # NoPath
    BY <1>0, OwnDestinations
  <1>2. PICK b \in Build : p = Dest[FileOf[i]][b]
    BY <1>0, OwnDestinations
  <1>3. PICK k \in Id : Wrote(k, p) \/ Tidied(k, p) \/ Wiped(k, p)
    BY <1>1, DiskFollows, <1>0 DEF DiskStep
  <1>4. ~Tidied(k, p)
    BY DEF Tidied, Safe
  <1>5. ASSUME Wrote(k, p), k # i PROVE FALSE
    <2>1. k \in Checked \ {i} /\ Target(k) = p
      BY <1>5 DEF Wrote, Checked
    <2> QED BY <2>1 DEF Safe
  <1>6. ASSUME Wiped(k, p) PROVE FALSE
    <2>1. k # i
      BY <1>6 DEF Wiped
    <2>2. rows[k] # NoRow /\ rows[k].path = p
      BY <1>0, <1>2, <1>6, <2>1, WipedIsElsewhere
    <2>3. FileOf[i] # FileOf[k] /\ WellPlaced(FileOf[k], rows[k])
      BY <1>0, <2>1, <2>2 DEF OneRow, PlacedInv
    <2>4. PICK c \in Build : p = Dest[FileOf[k]][c]
      BY <1>0, <2>2, <2>3, OwnDestinations
    <2>5. Owns(rows[i], p)
      BY <1>0 DEF Owns
    <2>6. rows[i].path = p
      BY <1>1, <2>3, <2>4, <2>5, SharedPath
    <2> QED BY <1>0, <1>1, <2>1, <2>2, <2>6 DEF PathInv
  <1> QED BY <1>3, <1>4, <1>5, <1>6

\* It stays safe while the row waits for the newer build.
LEMMA SafeStays ==
    ASSUME SharedNamesStay, AllSummed, NobodyElse, FileInv, [Next]_vars,
           NEW i \in Id, Replaces(i), NEW p, p = rows[i].prev, Safe(i, p),
           rows'[i] # NoRow, rows'[i].prev = p,
           xfer[i].pc = "discard" => Target(i) # p
    PROVE  Safe(i, p)'
  <1>0. /\ TypeInv /\ PlacedInv /\ OneRow /\ WorkStep
        /\ rows[i] # NoRow /\ p # NoPath /\ WellPlaced(FileOf[i], rows[i])
        /\ FileOf[i] \in Summed
    BY WorkFollows, FileOfAssumption DEF FileInv, RowInv, PlacedInv, Replaces, AllSummed
  <1>1. p \in Path
    BY <1>0, OwnDestinations
  <1>2. PICK b \in Build : p = Dest[FileOf[i]][b]
    BY <1>0, OwnDestinations
  <1>3. \E v \in Build : disk'[p] = <<FileOf[i], v>>
    <2>1. CASE disk'[p] = disk[p]
      BY <2>1 DEF Safe
    <2>2. CASE disk'[p] # disk[p]
      <3>1. Wrote(i, p)
        BY <2>2, OwnTransferWrites
      <3>2. p = Target(i) /\ WritePart(i) /\ Advances(i, "complete")
        BY <3>1 DEF Wrote
      <3>3. disk' = [disk EXCEPT ![p] = part[p]] /\ part[p] = Wanted(i)
        BY <1>0, <3>2 DEF WritePart, Fail, Advances, TypeInv, TypeOK, Transfer
      <3>4. disk'[p] = <<FileOf[i], xfer[i].file.build>>
        BY <1>0, <1>1, <3>3 DEF Wanted, TypeInv, TypeOK
      <3>5. i \in Running
        BY <3>2 DEF Advances, Running
      <3>6. xfer[i].file.build \in Build
        BY <1>0, <3>5, Destination, NoRowAssumption, Typed
      <3> QED BY <3>4, <3>6
    <2> QED BY <2>1, <2>2
  <1>4. ASSUME NEW k \in Id, xfer'[k].pc = "tidy", xfer'[k].file.prev = p PROVE FALSE
    <2>1. /\ xfer'[k].file = xfer[k].file
          /\ xfer'[k].pc = xfer[k].pc \/ (Works(k) /\ Advances(k, "tidy"))
      BY <1>0, <1>4 DEF WorkStep
    <2>2. Works(k) /\ Advances(k, "tidy")
      BY <1>4, <2>1 DEF Safe
    <2>3. Complete(k)
      BY <2>2 DEF Works, Advances
    <2>. DEFINE ok == ~xfer[k].cancelled /\ StillWants(rows[k], xfer[k].file.build)
    <2>4. /\ rows' = IF ok THEN [rows EXCEPT ![k] = Completed(@, Target(k))] ELSE rows
          /\ Goto(k, AfterComplete(k, ok))
          /\ xfer[k].pc \in {"complete", "confirm"}
      BY <2>3 DEF Complete
    <2>5. AfterComplete(k, ok) = "tidy"
      BY <1>0, <1>4, <2>4 DEF Goto, TypeInv, TypeOK, Transfer
    <2>6. ok /\ xfer[k].file.prev # Target(k)
      BY <2>5 DEF AfterComplete
    <2>7. rows[k] # NoRow /\ rows' = [rows EXCEPT ![k] = Completed(rows[k], Target(k))]
      BY <2>4, <2>6 DEF StillWants, Active
    <2>8. k # i
      <3>1. ASSUME k = i PROVE FALSE
        <4>1. rows'[i] = Completed(rows[i], Target(i)) /\ rows[i] \in Row
          BY <1>0, <2>7, <3>1 DEF TypeInv, TypeOK
        <4>2. rows'[i].prev = NoPath
          BY <4>1 DEF Completed, Row
        <4> QED BY <1>0, <4>2
      <3> QED BY <3>1
    <2>9. /\ FileOf[k] # FileOf[i] /\ k \in Running /\ k \in Checked \ {i}
          /\ FileOf[k] \in File /\ FileOf[i] \in File
      BY <1>0, <2>4, <2>7, <2>8, FileOfAssumption DEF OneRow, Running, Checked
    <2>10. xfer[k].file # NoRow /\ xfer[k].file.build \in Build
      BY <1>0, <2>9, Destination, NoRowAssumption, Typed
    <2>11. WellPlaced(FileOf[k], xfer[k].file) /\ xfer[k].file.prev = p
      BY <1>0, <1>4, <2>1 DEF PlacedInv
    <2>12. PICK c \in Build : p = Dest[FileOf[k]][c]
      BY <1>0, <2>10, <2>11, OwnDestinations
    <2>13. Dest[FileOf[k]][xfer[k].file.build] = Dest[FileOf[k]][c]
      <3>1. Dest[FileOf[k]][c] = Dest[FileOf[i]][b]
        BY <1>2, <2>12
      <3>2. /\ FileOf[k] \in File /\ FileOf[i] \in File /\ FileOf[k] # FileOf[i]
            /\ c \in Build /\ b \in Build /\ xfer[k].file.build \in Build
        BY <1>2, <2>9, <2>10, <2>12
      <3> QED BY <3>1, <3>2 DEF SharedNamesStay
    <2> QED BY <2>6, <2>11, <2>12, <2>13 DEF Target
  <1>5. ASSUME NEW k \in Id \ {i}, k \in Checked', Target(k)' = p PROVE FALSE
    <2>1. /\ Target(k) = p
          /\ \/ k \in Checked
             \/ rows' = rows /\ ~TakenByOther(k)
      BY <1>0, <1>5, CheckedFollows
    <2>2. CASE k \in Checked
      BY <2>1, <2>2 DEF Safe
    <2>3. CASE ~TakenByOther(k)
      BY <1>0, <2>1, <2>3 DEF TakenByOther, Owns
    <2> QED BY <2>1, <2>2, <2>3
  <1>6. \A k \in Checked' \ {i} : Target(k)' # p
    BY <1>5 DEF Checked
  <1> QED BY <1>3, <1>4, <1>6 DEF Safe

\* With names of their own the row's transfer stays off the copy it replaces.
LEMMA UntouchedStays ==
    ASSUME SharedNamesStay, AllSummed, NobodyElse, FileInv, [Next]_vars,
           NEW i \in Id, Replaces(i), NEW p, p = rows[i].prev, Safe(i, p), Untouched(i, p),
           rows'[i] # NoRow
    PROVE  Untouched(i, p)'
  <1>0. /\ TypeInv /\ WorkStep /\ FileOf[i] \in Summed /\ FileOf[i] \notin Saves
    BY WorkFollows, FileOfAssumption DEF FileInv, AllSummed
  <1>1. disk'[p] = disk[p]
    <2>1. ASSUME disk'[p] # disk[p] PROVE FALSE
      <3>1. Wrote(i, p)
        BY <2>1, OwnTransferWrites
      <3> QED BY <3>1 DEF Wrote, Untouched
    <2> QED BY <2>1
  <1>2. ASSUME xfer'[i].pc \in {"write", "complete", "discard"}, Target(i)' = p PROVE FALSE
    <2>1. /\ xfer'[i].file = xfer[i].file
          /\ xfer'[i].pc = xfer[i].pc \/ (Works(i) /\ Advances(i, xfer'[i].pc))
      BY <1>0, <1>2 DEF WorkStep
    <2>2. Target(i) = p
      BY <1>2, <2>1 DEF Target
    <2>3. xfer[i].pc \notin {"write", "complete", "discard"}
      BY <2>2 DEF Untouched
    <2>4. Works(i) /\ Advances(i, xfer'[i].pc)
      BY <1>2, <2>1, <2>3
    <2>5. CASE xfer'[i].pc = "write"
      <3>1. OpenPart(i)
        BY <2>4, <2>5 DEF Works, Advances
      <3>2. i \in Running
        BY <2>4 DEF Advances, Running
      <3>3. xfer[i].file.build \in Build
        BY <1>0, <3>2, Destination, NoRowAssumption, Typed
      <3>4. disk[Target(i)] = Wanted(i)
        BY <2>2, <3>3 DEF Untouched, Target, Wanted
      <3> QED BY <1>0, <3>1, <3>4 DEF OpenPart, LooksForCopy
    <2>6. CASE xfer'[i].pc = "complete"
      <3>1. WritePart(i)
        BY <2>4, <2>6 DEF Works, Advances
      <3> QED BY <2>3, <3>1 DEF WritePart
    <2>7. CASE xfer'[i].pc = "discard"
      <3>1. Complete(i)
        BY <2>4, <2>7 DEF Works, Advances
      <3>2. PICK ok \in BOOLEAN : Goto(i, AfterComplete(i, ok))
        BY <3>1 DEF Complete, StillWants, Active
      <3>3. AfterComplete(i, ok) = "discard"
        BY <1>0, <2>7, <3>2 DEF Goto, TypeInv, TypeOK, Transfer
      <3> QED BY <2>3, <3>3 DEF AfterComplete
    <2> QED BY <1>2, <2>5, <2>6, <2>7
  <1> QED BY <1>1, <1>2 DEF Untouched

\* Row i is rewritten by the upsert, and by nothing else, once that has read it.
LEMMA UpdatedByUpsert ==
    ASSUME TypeInv, [Next]_vars, NEW i \in Id, Updated(i), rows' # rows
    PROVE  UpdateRow
  <1>1. plan.pc = "upsert" /\ Read(i) /\ ~Read(i)' /\ plan' # plan
    BY DEF Updated, Read
  <1>2. ~Calm /\ ~Fill /\ ~(\E k \in Id : Begins(k) \/ Marks(k))
    BY <1>1 DEF Calm, Fill, Begins, Marks
  <1>3. ~(\E k \in Id : Works(k))
    BY <1>1 DEF Works, CheckOwner, Resolve, AlreadyPresent, OpenPart, WritePart, Complete,
                Discard, RemovePrevious
  <1>4. /\ ~(\E f \in File : PlanFile(f))
        /\ ~(\E S \in SUBSET Id, mode \in {"unplan", "keep", "delete"} : ListDropped(S, mode))
        /\ ~(\E k \in Id : DropRow(k))
    BY <1>1 DEF PlanFile, ListDropped, DropRow
  <1> QED BY <1>2, <1>3, <1>4, FileSteps DEF Plans

\* After its UPDATE the planner goes by nothing it has read.
LEMMA UpsertEnds ==
    ASSUME TypeInv, UpdateRow PROVE plan'.pc \notin {"upsert", "drop"}
  <1>1. \/ plan' = [plan EXCEPT !.pc = "abort", !.aborts = {plan.at}, !.at = NoId]
        \/ plan' = Idle
    BY DEF UpdateRow
  <1>2. Idle.pc = "idle"
    BY DEF Idle, NoPlan
  <1>3. plan' = [plan EXCEPT !.pc = "abort", !.aborts = {plan.at}, !.at = NoId]
        => plan'.pc = "abort"
    BY DEF TypeInv, TypeOK, Plan
  <1> QED BY <1>1, <1>2, <1>3

\* An unknown file gets a row of its own.
LEMMA SyncInserts ==
    ASSUME TypeInv, NEW f \in File, PlanFile(f), rows' # rows
    PROVE  \E k \in Id : rows[k] = NoRow /\ rows' = [rows EXCEPT ![k] = Fresh(offered[f])]
  <1>. DEFINE known == {i \in Id : FileOf[i] = f /\ rows[i] # NoRow}
  <1>1. IF known = {}
        THEN \E k \in unused : FileOf[k] = f /\ rows' = [rows EXCEPT ![k] = Fresh(offered[f])]
        ELSE rows' = rows
    BY Zenon DEF PlanFile, db
  <1>2. unused \subseteq Id
    BY DEF TypeInv, TypeOK
  <1>3. PICK k \in Id : FileOf[k] = f /\ rows' = [rows EXCEPT ![k] = Fresh(offered[f])]
    BY <1>1, <1>2
  <1>4. rows[k] = NoRow
    BY <1>1, <1>3
  <1> QED BY <1>3, <1>4

\* While the planner stays where it is a row loses its prev by a download alone.
LEMMA PrevGoesByCompletion ==
    ASSUME TypeInv, [Next]_vars, NEW i \in Id, rows[i] # NoRow, rows'[i] # NoRow,
           rows'[i].prev # rows[i].prev, plan' = plan
    PROVE  Completes(i)
  <1>0. rows \in [Id -> Row \cup {NoRow}] /\ rows' # rows
    BY DEF TypeInv, TypeOK
  <1>1. ~Calm /\ ~Fill /\ ~(\E k \in Id : Begins(k))
    BY <1>0 DEF Calm, Fill, Begins, db
  <1>2. ASSUME NEW k \in Id, Marks(k) PROVE FALSE
    BY <1>0, <1>2 DEF Marks, Marked
  <1>3. ASSUME NEW k \in Id, Works(k) PROVE Completes(i)
    <2>1. CASE Resolve(k)
      <3>1. k = i /\ rows'[i] = SetFileResolved(rows[i], Target(i)) /\ rows[i] \in Row
        BY <1>0, <2>1 DEF Resolve
      <3>2. rows'[i].prev = rows[i].prev
        BY <3>1 DEF SetFileResolved, Row
      <3> QED BY <3>2
    <2>2. CASE Complete(k)
      <3>1. k = i /\ ~xfer[k].cancelled /\ StillWants(rows[k], xfer[k].file.build)
        BY <1>0, <2>2 DEF Complete
      <3> QED BY <2>2, <3>1 DEF Completes
    <2>3. CASE ~Resolve(k) /\ ~Complete(k)
      BY <1>0, <1>3, <2>3 DEF Works, CheckOwner, AlreadyPresent, OpenPart, WritePart, Discard,
                              RemovePrevious, db
    <2> QED BY <2>1, <2>2, <2>3
  <1>4. ASSUME NEW f \in File, PlanFile(f) PROVE FALSE
    <2>1. PICK k \in Id : rows[k] = NoRow /\ rows' = [rows EXCEPT ![k] = Fresh(offered[f])]
      BY <1>0, <1>4, SyncInserts
    <2> QED BY <1>0, <2>1
  <1>5. ~UpdateRow
    <2>1. UpdateRow => plan.pc = "upsert"
      BY DEF UpdateRow
    <2> QED BY <2>1, UpsertEnds
  <1>6. ~(\E S \in SUBSET Id, mode \in {"unplan", "keep", "delete"} : ListDropped(S, mode))
    BY <1>0 DEF ListDropped, db
  <1>7. ASSUME NEW k \in Id, DropRow(k) PROVE FALSE
    <2>1. k \in plan.todo /\ plan' = [plan EXCEPT !.todo = plan.todo \ {k}]
      BY <1>7 DEF DropRow
    <2>2. k \notin plan'.todo
      BY <2>1 DEF TypeInv, TypeOK, Plan
    <2> QED BY <2>1, <2>2
  <1> QED BY <1>1, <1>2, <1>3, <1>4, <1>5, <1>6, <1>7, FileSteps DEF Plans

\* The copy the upsert has a row replace is the one it read the row to replace,
\* or the one it read as the row's own, which it then finds superseded.
LEMMA UpsertReplaces ==
    ASSUME NEW r \in Row, NEW stored \in Row, NEW b \in Build, NEW onDisk \in BOOLEAN
    PROVE  \/ Upsert(r, stored, b, onDisk).prev = stored.prev
           \/ /\ Upsert(r, stored, b, onDisk).prev = stored.path
              /\ Shown(stored) /\ stored.build # b
  <1>. DEFINE u == PlanUpsert(stored, stored.build # b, onDisk)
  <1>1. \/ u.prev = stored.prev
        \/ u.prev = stored.path /\ Shown(stored) /\ stored.build # b
    BY DEF PlanUpsert, Reactivated, KeptCopy, Replaced, Shown, Row, Status
  <1>. HIDE DEF u
  <1>2. Upsert(r, stored, b, onDisk).prev = u.prev
    BY DEF Upsert, u, Row
  <1> QED BY <1>1, <1>2

\* What was shown when the planner read it is still in its place.
LEMMA ReadIsCopied ==
    ASSUME CopyInv, ReadInv, NEW i \in Id, plan.pc = "upsert", i = plan.at,
           Shown(plan.snap[i])
    PROVE  Copied(i)
  <1>1. Read(i) /\ rows[i] # NoRow
    BY DEF Read, ReadInv
  <1> QED BY <1>1 DEF CopyInv, HasCopy, Shown

LEMMA InitOldCopyInv == Init => OldCopyInv /\ SnapInv
  BY DEF Init, OldCopyInv, SnapInv, Replaces, Read, Idle, NoPlan

\* The last build stays in its place: no upsert brings another.
LEMMA LastBuildStays ==
    ASSUME SharedNamesStay, NamesMoveOn, AllSummed, NobodyElse, FileInv, [Next]_vars,
           NEW i \in Id, rows[i] # NoRow, rows'[i] # NoRow,
           rows[i].build = MaxBuild, Copied(i)
    PROVE  rows'[i].build = MaxBuild /\ Copied(i)'
  <1>0. /\ TypeInv /\ ReadInv /\ RowsStep /\ plan.build \in Build
    BY RowsFollow DEF FileInv, RowInv, TypeInv, TypeOK, Plan
  <1>1. rows'[i].build = rows[i].build
    <2>1. CASE Updated(i)
      <3>1. /\ rows'[i].build = plan.build /\ MaxBuild <= plan.build
            /\ plan.build <= MaxBuild /\ plan.build \in Nat
        BY <1>0, <2>1, MaxBuildAssumption DEF Updated, ReadInv, Build
      <3> QED BY <3>1, MaxBuildAssumption
    <2> QED BY <1>0, <2>1 DEF RowsStep, Alike, Moved, Inserted, Removed
  <1> QED BY <1>1, CopyStays

LEMMA StepOldCopyInv ==
    ASSUME SharedNamesStay, NamesMoveOn, AllSummed, NobodyElse, FileInv, CopyInv,
           OldCopyInv, SnapInv, [Next]_vars, OwnNames \/ NothingTakenBack
    PROVE  OldCopyInv'
  <1>. SUFFICES ASSUME NEW i \in Id, Replaces(i)'
                PROVE  /\ rows'[i].build > 1
                       /\ \/ /\ Safe(i, rows[i].prev)'
                             /\ OwnNames => Untouched(i, rows[i].prev)'
                          \/ rows'[i].build = MaxBuild /\ Copied(i)'
    BY DEF OldCopyInv, OwnNames
  <1>. DEFINE Kept == /\ rows'[i].build > 1
                      /\ \/ /\ Safe(i, rows[i].prev)'
                            /\ OwnNames => Untouched(i, rows[i].prev)'
                         \/ rows'[i].build = MaxBuild /\ Copied(i)'
  <1>. SUFFICES Kept
    OBVIOUS
  <1>0. /\ TypeInv /\ ReadInv /\ RowsStep /\ rows'[i] # NoRow /\ rows'[i].prev # NoPath
        /\ rows \in [Id -> Row \cup {NoRow}]
    BY RowsFollow DEF FileInv, RowInv, Replaces, TypeInv, TypeOK
  <1>1. ASSUME Replaces(i), rows'[i].prev = rows[i].prev, rows'[i].build > 1 PROVE Kept
    <2>. DEFINE p == rows[i].prev
    <2>1. CASE rows[i].build = MaxBuild /\ Copied(i)
      BY <1>0, <1>1, <2>1, LastBuildStays DEF Replaces
    <2>2. CASE Safe(i, p) /\ (OwnNames => Untouched(i, p))
      <3>1. xfer[i].pc = "discard" => Target(i) # p
        BY <1>1, <2>2 DEF NothingTakenBack, Untouched
      <3>2. Safe(i, p)'
        BY <1>0, <1>1, <2>2, <3>1, SafeStays
      <3>3. OwnNames => Untouched(i, p)'
        BY <1>0, <1>1, <2>2, UntouchedStays
      <3> QED BY <1>1, <3>2, <3>3
    <2> QED BY <1>1, <2>1, <2>2 DEF OldCopyInv
  <1>2. CASE Alike(rows[i], rows'[i]) \/ Moved(i)
    <2>1. /\ rows[i] # NoRow /\ rows'[i].build = rows[i].build
          /\ rows'[i].prev = rows[i].prev
      BY <1>0, <1>2 DEF Alike, Moved
    <2>2. Replaces(i) /\ rows'[i].build > 1
      BY <1>0, <2>1 DEF Replaces, OldCopyInv
    <2> QED BY <1>1, <2>1, <2>2
  <1>3. CASE Updated(i) /\ rows' # rows
    <2>. DEFINE stored == plan.snap[i]
                onDisk == seen = "there"
    <2>1. UpdateRow
      BY <1>0, <1>3, UpdatedByUpsert
    <2>2. /\ i = plan.at /\ plan.pc = "upsert" /\ rows[i] # NoRow
          /\ rows'[i] = Upsert(rows[i], stored, plan.build, onDisk)
          /\ disk' = disk /\ xfer' = xfer
      BY <1>0, <1>3, <2>1 DEF Updated, UpdateRow, fs
    <2>3. /\ rows[i] \in Row /\ stored \in Row /\ plan.build \in Build /\ onDisk \in BOOLEAN
          /\ Read(i) /\ stored.build = rows[i].build /\ rows[i].build <= plan.build
      BY <1>0, <2>2 DEF TypeInv, TypeOK, Plan, ReadInv, Read
    <2>4. /\ rows[i].build \in Nat \ {0} /\ plan.build \in Nat \ {0} /\ stored.build \in Nat \ {0}
          /\ rows'[i].build = plan.build
      BY <1>3, <2>3, MaxBuildAssumption DEF Row, Build, Updated
    <2>. HIDE DEF onDisk
    <2>5. \/ rows'[i].prev = stored.prev
          \/ rows'[i].prev = stored.path /\ Shown(stored) /\ stored.build # plan.build
      BY <2>2, <2>3, UpsertReplaces
    <2>6. CASE rows'[i].prev = stored.prev
      <3>1. rows'[i].build > 1
        <4>1. stored.build > 1
          BY <1>0, <2>3, <2>6 DEF SnapInv
        <4> QED BY <2>3, <2>4, <4>1
      <3>2. \/ rows[i].prev = stored.prev
            \/ rows[i].build = MaxBuild /\ Copied(i)
        BY <1>0, <2>2, <2>3, <2>6 DEF SnapInv
      <3>3. CASE rows[i].prev = stored.prev
        BY <1>0, <1>1, <2>2, <2>6, <3>1, <3>3 DEF Replaces
      <3>4. CASE rows[i].build = MaxBuild /\ Copied(i)
        BY <1>0, <2>2, <3>1, <3>4, LastBuildStays
      <3> QED BY <3>2, <3>3, <3>4
    <2>7. CASE rows'[i].prev = stored.path /\ Shown(stored) /\ stored.build # plan.build
      <3>. DEFINE p == rows[i].path
      <3>1. Copied(i)
        BY <1>0, <2>2, <2>7, ReadIsCopied
      <3>2. stored.path = Dest[FileOf[i]][stored.build]
        BY <2>3, <2>7 DEF SnapInv
      <3>3. p = rows'[i].prev
        BY <2>3, <2>7, <3>1, <3>2 DEF Copied
      <3>4. Safe(i, p) /\ (OwnNames => Untouched(i, p))
        BY <2>2, <3>1, CopyIsSafe
      <3>5. rows'[i].build > 1
        BY <2>3, <2>4, <2>7
      <3>6. Checked' = Checked /\ \A k \in Id : Target(k)' = Target(k)
        BY <2>2 DEF Checked, Target
      <3>7. Safe(i, rows[i].prev)'
        <4>1. \E v \in Build : disk'[p] = <<FileOf[i], v>>
          BY <2>2, <3>4 DEF Safe
        <4>2. \A k \in Id : xfer'[k].pc = "tidy" => xfer'[k].file.prev # p
          BY <2>2, <3>4 DEF Safe
        <4>3. \A k \in Checked' \ {i} : Target(k)' # p
          BY <3>4, <3>6 DEF Safe, Checked
        <4> QED BY <3>3, <4>1, <4>2, <4>3 DEF Safe
      <3>8. OwnNames => Untouched(i, rows[i].prev)'
        BY <2>2, <3>3, <3>4, <3>6 DEF Untouched
      <3> QED BY <3>5, <3>7, <3>8
    <2> QED BY <2>5, <2>6, <2>7
  <1>4. Alike(rows[i], rows'[i]) \/ Moved(i) \/ (Updated(i) /\ rows' # rows)
    <2>1. Alike(rows[i], rows'[i]) \/ Moved(i) \/ Inserted(i) \/ Updated(i) \/ Removed(i)
      BY <1>0 DEF RowsStep, Alike
    <2>2. ~Inserted(i) /\ ~Removed(i)
      BY <1>0 DEF Inserted, Fresh, Removed
    <2>3. rows' = rows => Alike(rows[i], rows'[i])
      BY DEF Alike
    <2> QED BY <2>1, <2>2, <2>3
  <1> QED BY <1>2, <1>3, <1>4

LEMMA StepSnapInv ==
    ASSUME SharedNamesStay, NamesMoveOn, AllSummed, NobodyElse, FileInv, ArrivedInv, CopyInv,
           OldCopyInv, SnapInv, [Next]_vars, ReadsAlone
    PROVE  SnapInv'
  <1>. DEFINE Known(i) == plan.pc = "upsert" /\ plan.snap[i].prev # NoPath
                          => \/ rows[i].prev = plan.snap[i].prev
                             \/ rows[i].build = MaxBuild /\ Copied(i)
  <1>. SUFFICES ASSUME NEW i \in Id, Read(i)'
                PROVE  /\ plan'.snap[i].prev # NoPath => plan'.snap[i].build > 1
                       /\ Shown(plan'.snap[i])
                          => plan'.snap[i].path = Dest[FileOf[i]][plan'.snap[i].build]
                       /\ Known(i)'
    BY DEF SnapInv
  <1>0. /\ TypeInv /\ ReadInv /\ RowsStep /\ ReadStep
        /\ rows \in [Id -> Row \cup {NoRow}]
    BY RowsFollow, ReadsFollow DEF FileInv, RowInv, TypeInv, TypeOK
  <1>1. CASE /\ Read(i) /\ plan'.snap[i] = plan.snap[i]
             /\ plan'.pc = "upsert" => plan' = plan
    <2>1. /\ plan.snap[i].prev # NoPath => plan.snap[i].build > 1
          /\ Shown(plan.snap[i]) => plan.snap[i].path = Dest[FileOf[i]][plan.snap[i].build]
          /\ Known(i)
      BY <1>1 DEF SnapInv
    <2>2. ASSUME plan'.pc = "upsert", plan'.snap[i].prev # NoPath
          PROVE  \/ rows'[i].prev = plan'.snap[i].prev
                 \/ rows'[i].build = MaxBuild /\ Copied(i)'
      <3>1. plan' = plan /\ plan.at = i /\ rows[i] # NoRow
        BY <1>0, <1>1, <2>2 DEF Read, ReadInv
      <3>2. rows'[i] # NoRow /\ rows'[i].build = rows[i].build
        BY <1>0, <1>1, <3>1 DEF RowsStep, Alike, Moved, Inserted, Updated, Removed
      <3>3. CASE rows[i].build = MaxBuild /\ Copied(i)
        BY <3>1, <3>2, <3>3, LastBuildStays
      <3>4. CASE rows[i].prev = plan.snap[i].prev /\ rows'[i].prev = rows[i].prev
        BY <3>1, <3>4
      <3>5. CASE rows[i].prev = plan.snap[i].prev /\ rows'[i].prev # rows[i].prev
        <4>1. Completes(i)
          BY <1>0, <3>1, <3>2, <3>5, PrevGoesByCompletion
        <4>2. Replaces(i) /\ plan.pc = "upsert"
          BY <2>2, <3>1, <3>5 DEF Replaces
        <4>3. rows[i].build \in Nat /\ rows[i].build <= MaxBuild /\ MaxBuild \in Nat
          BY <3>1, Typed, <1>0, MaxBuildAssumption DEF Build
        <4>4. rows[i].build = MaxBuild
          BY <3>1, <4>1, <4>2, <4>3 DEF ReadsAlone
        <4>5. Copied(i)'
          BY <4>1, CompletedIsCopied
        <4> QED BY <3>2, <4>4, <4>5
      <3> QED BY <2>1, <2>2, <3>1, <3>3, <3>4, <3>5
    <2> QED BY <1>1, <2>1, <2>2
  <1>2. CASE rows' = rows /\ plan'.snap[i] = rows[i] /\ rows[i] # NoRow
    <2>1. rows[i].prev # NoPath => rows[i].build > 1
      BY <1>2 DEF OldCopyInv, Replaces
    <2>2. Shown(rows[i]) => rows[i].path = Dest[FileOf[i]][rows[i].build]
      BY <1>2 DEF Shown, CopyInv, HasCopy, Copied
    <2> QED BY <1>2, <2>1, <2>2
  <1> QED BY <1>0, <1>1, <1>2 DEF ReadStep

\* Where nothing happens no download is recorded.
LEMMA NothingIsAlone ==
    ASSUME FileInv, [ReadsAlone]_vars PROVE ReadsAlone
  <1>. SUFFICES ASSUME UNCHANGED vars, NEW i \in Id, Completes(i) PROVE FALSE
    BY DEF ReadsAlone
  <1>1. xfer[i].pc \in {"complete", "confirm"} /\ Goto(i, AfterComplete(i, TRUE))
    BY DEF Completes, Complete
  <1>2. AfterComplete(i, TRUE) \in {"leave", "tidy"}
    BY DEF AfterComplete
  <1>3. xfer'[i].pc \in {"leave", "tidy"}
    BY <1>1, <1>2 DEF Goto, FileInv, TypeInv, TypeOK, Transfer
  <1>4. xfer' = xfer
    BY DEF vars
  <1> QED BY <1>1, <1>3, <1>4

LEMMA KeptCopyIsThere == OldCopyInv => CopyIsKept
  <1>. SUFFICES ASSUME OldCopyInv, NEW i \in Id, Replaces(i)
                PROVE  \E p \in {rows[i].path, rows[i].prev}, v \in Build :
                          p # NoPath /\ disk[p] = <<FileOf[i], v>>
    BY DEF CopyIsKept, Replaces
  <1>1. CASE Safe(i, rows[i].prev)
    BY <1>1 DEF Safe, Replaces
  <1>2. CASE rows[i].build = MaxBuild /\ Copied(i)
    BY <1>2, FileOfAssumption, DestAssumption, MaxBuildAssumption, NoPathAssumption
       DEF Copied, Build
  <1> QED BY <1>1, <1>2 DEF OldCopyInv

\* As long as a row waits for a newer build of a file that was downloaded, a
\* complete build of it is on disk, in every order of sync, queue, drops, pauses
\* and crashes, unless one of two things happens: a transfer takes back what it
\* renamed over the old copy because it could not record it (download, complete),
\* or a download is recorded between the SELECT and the UPDATE of an upsert
\* (UpsertDesiredFileVerified), which then writes back a prev that is gone.
THEOREM KeptUnlessOvertaken ==
    ASSUME SharedNamesStay, NamesMoveOn, AllSummed, NobodyElse
    PROVE  Spec /\ []NothingTakenBack /\ [][ReadsAlone]_vars => []CopyIsKept
  <1>. DEFINE Inv == OldCopyInv /\ SnapInv
  <1>1. Init => Inv
    BY InitOldCopyInv
  <1>2. /\ FileInv /\ ArrivedInv /\ CopyInv /\ Inv /\ NothingTakenBack
        /\ [Next]_vars /\ [ReadsAlone]_vars
        => Inv'
    <2>1. FileInv /\ [ReadsAlone]_vars => ReadsAlone
      BY NothingIsAlone
    <2> QED BY <2>1, StepOldCopyInv, StepSnapInv
  <1>3. Inv => CopyIsKept
    BY KeptCopyIsThere
  <1> QED BY <1>1, <1>2, <1>3, FilesHold, BytesHold, PTL DEF Spec

\* Where every build has a name of its own, as with the version in it, nothing is
\* taken back from the place of the old copy.
THEOREM KeptUnderOwnNames ==
    ASSUME SharedNamesStay, OwnNames, AllSummed, NobodyElse
    PROVE  Spec /\ [][ReadsAlone]_vars => []CopyIsKept
  <1>. DEFINE Inv == OldCopyInv /\ SnapInv
  <1>0. NamesMoveOn
    BY MaxBuildAssumption DEF OwnNames, NamesMoveOn, Build
  <1>1. Init => Inv
    BY InitOldCopyInv
  <1>2. /\ FileInv /\ ArrivedInv /\ CopyInv /\ Inv /\ [Next]_vars /\ [ReadsAlone]_vars
        => Inv'
    <2>1. FileInv /\ [ReadsAlone]_vars => ReadsAlone
      BY NothingIsAlone
    <2> QED BY <1>0, <2>1, StepOldCopyInv, StepSnapInv
  <1>3. Inv => CopyIsKept
    BY KeptCopyIsThere
  <1>4. Spec => [](ArrivedInv /\ CopyInv)
    BY <1>0, BytesHold
  <1> QED BY <1>1, <1>2, <1>3, <1>4, FilesHold, PTL DEF Spec
=============================================================================
