-------------------------- MODULE DownloaderProofs --------------------------
(***************************************************************************)
(* Theorems about Downloader, for every choice of its constants.           *)
(***************************************************************************)
EXTENDS Downloader, TLAPS

-----------------------------------------------------------------------------
(* The statements on one row keep it a row.                                *)

LEMMA ResetIsRow ==
    ASSUME NEW r \in Row \cup {NoRow}
    PROVE  ResetFile(r) \in Row \cup {NoRow}
  <1>1. CASE r = NoRow
    BY <1>1 DEF ResetFile, Active
  <1>2. CASE r \in Row
    <2>1. [r EXCEPT !.status = "pending", !.attempts = 0, !.waiting = FALSE] \in Row
      BY <1>2 DEF Row, Status
    <2> QED BY <1>2, <2>1 DEF ResetFile
  <1> QED BY <1>1, <1>2

LEMMA RowStatements ==
    ASSUME NEW r \in Row \cup {NoRow}, NEW p \in Path
    PROVE  /\ SetFileInactive(r) \in Row \cup {NoRow}
           /\ SetFileResolved(r, p) \in Row \cup {NoRow}
           /\ Retry(r) \in Row \cup {NoRow}
           /\ GiveUp(r) \in Row \cup {NoRow}
           /\ DeferFile(r) \in Row \cup {NoRow}
           /\ ResetFile(r) \in Row \cup {NoRow}
  <1>1. SetFileInactive(r) \in Row \cup {NoRow}
    BY DEF SetFileInactive, Row, Status
  <1>2. SetFileResolved(r, p) \in Row \cup {NoRow}
    BY DEF SetFileResolved, Row
  <1>3. Retry(r) \in Row \cup {NoRow}
    <2>1. CASE r \in Row
      <3>1. r.attempts + 1 \in Nat
        BY <2>1 DEF Row
      <3>2. [r EXCEPT !.status = "pending", !.attempts = r.attempts + 1,
                      !.waiting = TRUE] \in Row
        BY <2>1, <3>1 DEF Row, Status
      <3> QED BY <2>1, <3>2 DEF Retry
    <2>2. CASE r = NoRow
      BY <2>2 DEF Retry, Active
    <2> QED BY <2>1, <2>2
  <1>4. GiveUp(r) \in Row \cup {NoRow}
    <2>1. CASE r \in Row
      <3>1. r.attempts + 1 \in Nat
        BY <2>1 DEF Row
      <3>2. [r EXCEPT !.status = "error", !.attempts = r.attempts + 1,
                      !.waiting = FALSE] \in Row
        BY <2>1, <3>1 DEF Row, Status
      <3> QED BY <2>1, <3>2 DEF GiveUp
    <2>2. CASE r = NoRow
      BY <2>2 DEF GiveUp, Active
    <2> QED BY <2>1, <2>2
  <1>5. DeferFile(r) \in Row \cup {NoRow}
    BY DEF DeferFile, Active, Row, Status
  <1>6. ResetFile(r) \in Row \cup {NoRow}
    BY ResetIsRow
  <1> QED BY <1>1, <1>2, <1>3, <1>4, <1>5, <1>6

LEMMA CompletedIsRow ==
    ASSUME NEW r \in Row, NEW p \in Path PROVE Completed(r, p) \in Row
  BY DEF Completed, Row, Status

LEMMA FreshIsRow == ASSUME NEW b \in Build PROVE Fresh(b) \in Row
  BY DEF Fresh, Row, Status

LEMMA PlanUpsertType ==
    ASSUME NEW r \in Row, NEW changed \in BOOLEAN, NEW onDisk \in BOOLEAN
    PROVE  /\ PlanUpsert(r, changed, onDisk).status \in Status
           /\ PlanUpsert(r, changed, onDisk).prev \in Path \cup {NoPath}
  BY DEF PlanUpsert, Replaced, Row, Status

LEMMA UpsertIsRow ==
    ASSUME NEW r \in Row, NEW stored \in Row, NEW b \in Build, NEW onDisk \in BOOLEAN
    PROVE  Upsert(r, stored, b, onDisk) \in Row
  <1>1. (stored.build # b) \in BOOLEAN
    OBVIOUS
  <1>. DEFINE u == PlanUpsert(stored, stored.build # b, onDisk)
  <1>2. u.status \in Status /\ u.prev \in Path \cup {NoPath}
    BY <1>1, PlanUpsertType
  <1>. HIDE DEF u
  <1>3. [r EXCEPT !.build = b, !.status = u.status, !.prev = u.prev,
                  !.attempts = IF u.status = "pending" /\ r.status # "pending"
                               THEN 0 ELSE r.attempts,
                  !.waiting = FALSE] \in Row
    BY <1>2 DEF Row
  <1> QED BY <1>3 DEF Upsert, u

-----------------------------------------------------------------------------
(* Types.  TypeOK alone is not inductive: that what a transfer writes is a *)
(* copy, and that its claim is a path, rests on its having been given a    *)
(* row; that an UPDATE leaves a row rests on the planner having read one.  *)

TransferHasRow == \A i \in Running : xfer[i].file \in Row

UpsertHasRow == plan.pc = "upsert" => plan.at \in Id /\ plan.snap[plan.at] \in Row

TypeInv == TypeOK /\ TransferHasRow /\ UpsertHasRow

LEMMA InitTypeInv == Init => TypeInv
  <1>. SUFFICES ASSUME Init PROVE TypeInv
    OBVIOUS
  <1>1. NoTransfer \in Transfer
    BY DEF NoTransfer, Transfer, Pcs
  <1>2. 1 \in Build
    BY MaxBuildAssumption DEF Build
  <1>3. Idle \in Plan
    BY <1>2 DEF Idle, NoPlan, NoSnap, Plan
  <1>4. MaxLimit \in 1..MaxLimit
    BY LimitAssumption
  <1>5. NoSweep \in Sweep
    BY DEF NoSweep, Sweep
  <1>6. TypeOK
    BY <1>1, <1>2, <1>3, <1>4, <1>5 DEF Init, TypeOK, NoSnap
  <1> QED BY <1>6 DEF Init, TypeInv, TransferHasRow, UpsertHasRow, Running, NoTransfer,
                      Idle, NoPlan

\* Where a busy transfer works, and what it fetches.
LEMMA Destination ==
    ASSUME TypeInv, NEW i \in Running
    PROVE  /\ Target(i) \in Path
           /\ Wanted(i) \in Copy
           /\ xfer[i].file \in Row /\ xfer[i].file.build \in Build
  <1>1. i \in Id /\ xfer[i].file \in Row
    BY DEF TypeInv, TransferHasRow, Running
  <1>2. FileOf[i] \in File /\ xfer[i].file.build \in Build
    BY <1>1, FileOfAssumption DEF Row
  <1> QED BY <1>1, <1>2, DestAssumption DEF Target, Wanted, Copy

LEMMA GotoType ==
    ASSUME TypeInv, NEW i \in Running, NEW pc \in Pcs, Goto(i, pc)
    PROVE  xfer' \in [Id -> Transfer] /\ TransferHasRow'
  <1>1. xfer \in [Id -> Transfer] /\ i \in Id
    BY DEF TypeInv, TypeOK, Running
  <1>2. [xfer[i] EXCEPT !.pc = pc] \in Transfer
    BY <1>1 DEF Transfer
  <1>3. xfer' = [xfer EXCEPT ![i] = [xfer[i] EXCEPT !.pc = pc]]
    BY DEF Goto
  <1>4. xfer' \in [Id -> Transfer]
    BY <1>1, <1>2, <1>3
  <1>5. ASSUME NEW j \in Running' PROVE xfer'[j].file \in Row
    <2>1. CASE j = i
      BY <2>1, <1>1, <1>3, Destination DEF Transfer
    <2>2. CASE j # i
      BY <2>2, <1>1, <1>3 DEF Running, TypeInv, TransferHasRow
    <2> QED BY <2>1, <2>2
  <1> QED BY <1>4, <1>5 DEF TransferHasRow

LEMMA FailType ==
    ASSUME TypeInv, NEW i \in Running, NEW kind \in {"retry", "final", "auth"}, Fail(i, kind)
    PROVE  xfer' \in [Id -> Transfer] /\ TransferHasRow'
  <1>1. xfer \in [Id -> Transfer] /\ i \in Id
    BY DEF TypeInv, TypeOK, Running
  <1>. DEFINE t == [xfer[i] EXCEPT !.pc = "fail", !.err = kind]
  <1>2. t \in Transfer /\ t.file = xfer[i].file
    BY <1>1 DEF Transfer, Pcs
  <1>3. xfer' = [xfer EXCEPT ![i] = t]
    BY <1>1 DEF Fail, Transfer
  <1>. HIDE DEF t
  <1>4. xfer' \in [Id -> Transfer]
    BY <1>1, <1>2, <1>3
  <1>5. ASSUME NEW j \in Running' PROVE xfer'[j].file \in Row
    <2>1. CASE j = i
      BY <2>1, <1>1, <1>2, <1>3, Destination
    <2>2. CASE j # i
      BY <2>2, <1>1, <1>3 DEF Running, TypeInv, TransferHasRow
    <2> QED BY <2>1, <2>2
  <1> QED BY <1>4, <1>5 DEF TransferHasRow

LEMMA CancelAllType ==
    ASSUME TypeInv, CancelAll
    PROVE  xfer' \in [Id -> Transfer] /\ TransferHasRow'
  <1>1. ASSUME NEW i \in Id
        PROVE  /\ xfer'[i] \in Transfer
               /\ xfer'[i].pc = xfer[i].pc /\ xfer'[i].file = xfer[i].file
    <2>1. xfer[i] \in Transfer
      BY DEF TypeInv, TypeOK
    <2>2. (xfer[i].cancelled \/ i \in Running) \in BOOLEAN
      BY <2>1 DEF Transfer
    <2>3. xfer'[i] = [xfer[i] EXCEPT !.cancelled = xfer[i].cancelled \/ i \in Running]
      BY DEF CancelAll
    <2> QED BY <2>1, <2>2, <2>3 DEF Transfer
  <1>2. xfer' \in [Id -> Transfer]
    BY <1>1 DEF CancelAll
  <1>3. TransferHasRow'
    BY <1>1 DEF TypeInv, TransferHasRow, Running
  <1> QED BY <1>2, <1>3

LEMMA RunnerAndTransferTypes ==
    ASSUME TypeInv,
           Fill \/ \E i \in Id : StartTransfer(i) \/ TransferStep(i)
    PROVE  TypeInv'
  <1>1. ASSUME Fill PROVE TypeInv'
    BY <1>1 DEF Fill, TypeInv, TypeOK, UpsertHasRow, TransferHasRow, Running, NoSnap, db, fs, conf, look
  <1>2. ASSUME NEW i \in Id, StartTransfer(i) PROVE TypeInv'
    <2>1. picked[i] \in Row
      BY <1>2 DEF StartTransfer, TypeInv, TypeOK
    <2>. DEFINE t == [NoTransfer EXCEPT !.pc = "remote", !.file = picked[i],
                                        !.cancelled = stopping]
    <2>2. t \in Transfer /\ t.file \in Row
      BY <2>1 DEF NoTransfer, Transfer, Pcs, TypeInv, TypeOK
    <2>3. picked' \in [Id -> Row \cup {NoRow}]
      BY <1>2 DEF StartTransfer, NoSnap, TypeInv, TypeOK
    <2>. HIDE DEF t
    <2>4. xfer' = [xfer EXCEPT ![i] = t] \/ xfer' = xfer
      BY <1>2 DEF StartTransfer, t
    <2>5. xfer' \in [Id -> Transfer] /\ TransferHasRow'
      BY <2>2, <2>4 DEF TypeInv, TypeOK, UpsertHasRow, TransferHasRow, Running
    <2> QED BY <1>2, <2>3, <2>5 DEF StartTransfer, TypeInv, TypeOK, UpsertHasRow, db, fs, conf, look
  <1>3. ASSUME NEW i \in Id, Interrupted(i) PROVE TypeInv'
    <2>1. i \in Running /\ Goto(i, "leave") /\ "leave" \in Pcs
      BY <1>3 DEF Interrupted, Running, Pcs
    <2>2. xfer' \in [Id -> Transfer] /\ TransferHasRow'
      BY <2>1, GotoType
    <2> QED BY <1>3, <2>2 DEF Interrupted, PartAfterError, TypeInv, TypeOK, UpsertHasRow, db, fs, conf, look
  <1>4. ASSUME NEW i \in Id, Broken(i) PROVE TypeInv'
    <2>1. i \in Running
      BY <1>4 DEF Broken, Running
    <2>2. PICK kind \in Faults : Fail(i, kind)
      BY <1>4 DEF Broken
    <2>3. xfer' \in [Id -> Transfer] /\ TransferHasRow'
      BY <2>1, <2>2, FailType, FaultAssumption
    <2> QED BY <1>4, <2>3 DEF Broken, PartAfterError, TypeInv, TypeOK, UpsertHasRow, db, fs, conf, look
  <1>5. ASSUME NEW i \in Id, SizeMismatch(i) PROVE TypeInv'
    <2>1. i \in Running /\ Fail(i, "retry")
      BY <1>5 DEF SizeMismatch, Running
    <2>2. xfer' \in [Id -> Transfer] /\ TransferHasRow'
      BY <2>1, FailType
    <2> QED BY <1>5, <2>2 DEF SizeMismatch, TypeInv, TypeOK, UpsertHasRow, db, fs, conf, look
  <1>6. ASSUME NEW i \in Id, Remote(i) PROVE TypeInv'
    <2>1. i \in Running /\ Goto(i, "claim") /\ "claim" \in Pcs
      BY <1>6 DEF Remote, Running, Pcs
    <2>2. xfer' \in [Id -> Transfer] /\ TransferHasRow'
      BY <2>1, GotoType
    <2> QED BY <1>6, <2>2 DEF Remote, TypeInv, TypeOK, UpsertHasRow, db, fs, conf, look
  <1>7. ASSUME NEW i \in Id, ClaimPath(i) PROVE TypeInv'
    <2>1. i \in Running
      BY <1>7 DEF ClaimPath, Running
    <2>2. CASE MayClaim(i)
      <3>. DEFINE t == [xfer[i] EXCEPT !.pc = "owner", !.claim = Target(i)]
      <3>1. t \in Transfer /\ t.file \in Row
        BY <2>1, Destination DEF TypeInv, TypeOK, Transfer, Pcs
      <3>2. xfer' = [xfer EXCEPT ![i] = t]
        BY <1>7, <2>2 DEF ClaimPath, TypeInv, TypeOK, Transfer
      <3>. HIDE DEF t
      <3>3. xfer' \in [Id -> Transfer] /\ TransferHasRow'
        BY <3>1, <3>2 DEF TypeInv, TypeOK, UpsertHasRow, TransferHasRow, Running
      <3> QED BY <1>7, <2>2, <3>3 DEF ClaimPath, TypeInv, TypeOK, UpsertHasRow, db, fs, conf, look
    <2>3. CASE ~MayClaim(i)
      <3>1. xfer' \in [Id -> Transfer] /\ TransferHasRow'
        BY <1>7, <2>1, <2>3, FailType DEF ClaimPath
      <3> QED BY <1>7, <2>3, <3>1 DEF ClaimPath, TypeInv, TypeOK, UpsertHasRow, db, fs, conf, look
    <2> QED BY <2>2, <2>3
  <1>8. ASSUME NEW i \in Id, CheckOwner(i) PROVE TypeInv'
    <2>1. i \in Running /\ "resolve" \in Pcs
      BY <1>8 DEF CheckOwner, Running, Pcs
    <2>2. Fail(i, "final") \/ Goto(i, "resolve")
      BY <1>8 DEF CheckOwner
    <2>3. xfer' \in [Id -> Transfer] /\ TransferHasRow'
      BY <2>1, <2>2, GotoType, FailType
    <2> QED BY <1>8, <2>3 DEF CheckOwner, TypeInv, TypeOK, UpsertHasRow, db, fs, conf, look
  <1>9. ASSUME NEW i \in Id, Resolve(i) PROVE TypeInv'
    <2>1. i \in Running /\ Goto(i, "place") /\ "place" \in Pcs
      BY <1>9 DEF Resolve, Running, Pcs
    <2>2. xfer' \in [Id -> Transfer] /\ TransferHasRow'
      BY <2>1, GotoType
    <2>3. SetFileResolved(rows[i], Target(i)) \in Row \cup {NoRow}
      BY <2>1, Destination, RowStatements DEF TypeInv, TypeOK
    <2> QED BY <1>9, <2>2, <2>3 DEF Resolve, TypeInv, TypeOK, UpsertHasRow, db, fs, conf, look
  <1>10. ASSUME NEW i \in Id, AlreadyPresent(i) PROVE TypeInv'
    <2>1. i \in Running /\ Goto(i, "confirm") /\ "confirm" \in Pcs
      BY <1>10 DEF AlreadyPresent, Running, Pcs
    <2>2. xfer' \in [Id -> Transfer] /\ TransferHasRow'
      BY <2>1, GotoType
    <2> QED BY <1>10, <2>2 DEF AlreadyPresent, TypeInv, TypeOK, UpsertHasRow, db, fs, conf, look
  <1>11. ASSUME NEW i \in Id, OpenPart(i) PROVE TypeInv'
    <2>1. i \in Running /\ Goto(i, "write") /\ "write" \in Pcs
      BY <1>11 DEF OpenPart, Running, Pcs
    <2>2. xfer' \in [Id -> Transfer] /\ TransferHasRow'
      BY <2>1, GotoType
    <2>3. Wanted(i) \in Copy /\ Mixed \in Copy
      BY <2>1, Destination DEF Copy
    <2>4. part' \in [Path -> Copy \cup {NoCopy}]
      BY <1>11, <2>3 DEF OpenPart, TypeInv, TypeOK
    <2> QED BY <1>11, <2>2, <2>4 DEF OpenPart, TypeInv, TypeOK, UpsertHasRow, db, fs, conf, look
  <1>12. ASSUME NEW i \in Id, WritePart(i) PROVE TypeInv'
    <2>1. i \in Running /\ "complete" \in Pcs
      BY <1>12 DEF WritePart, Running, Pcs
    <2>2. Fail(i, "retry") \/ Goto(i, "complete")
      BY <1>12 DEF WritePart
    <2>3. xfer' \in [Id -> Transfer] /\ TransferHasRow'
      BY <2>1, <2>2, GotoType, FailType
    <2>4. Target(i) \in Path
      BY <2>1, Destination
    <2>5. part[Target(i)] \in Copy \cup {NoCopy}
      BY <2>4 DEF TypeInv, TypeOK
    <2>6. disk' \in [Path -> Copy \cup {NoCopy}]
      BY <1>12, <2>5 DEF WritePart, TypeInv, TypeOK
    <2>7. part' \in [Path -> Copy \cup {NoCopy}]
      BY <1>12 DEF WritePart, TypeInv, TypeOK
    <2> QED BY <1>12, <2>3, <2>6, <2>7 DEF WritePart, TypeInv, TypeOK, UpsertHasRow, db, fs, conf, look
  <1>13. ASSUME NEW i \in Id, Complete(i) PROVE TypeInv'
    <2>. DEFINE ok == ~xfer[i].cancelled /\ StillWants(rows[i], xfer[i].file.build)
    <2>1. i \in Running /\ Goto(i, AfterComplete(i, ok)) /\ AfterComplete(i, ok) \in Pcs
      BY <1>13 DEF Complete, Running, Pcs, AfterComplete
    <2>2. xfer' \in [Id -> Transfer] /\ TransferHasRow'
      BY <2>1, GotoType
    <2>3. ok => rows[i] \in Row
      BY DEF StillWants, Active, TypeInv, TypeOK
    <2>4. ok => Completed(rows[i], Target(i)) \in Row
      BY <2>1, <2>3, Destination, CompletedIsRow
    <2>5. rows' = IF ok THEN [rows EXCEPT ![i] = Completed(rows[i], Target(i))] ELSE rows
      BY <1>13 DEF Complete
    <2>. HIDE DEF ok
    <2>6. rows' \in [Id -> Row \cup {NoRow}]
      BY <2>4, <2>5 DEF TypeInv, TypeOK
    <2> QED BY <1>13, <2>2, <2>6 DEF Complete, TypeInv, TypeOK, UpsertHasRow, db, fs, conf, look
  <1>14. ASSUME NEW i \in Id, Discard(i) PROVE TypeInv'
    <2>1. i \in Running /\ Goto(i, "leave") /\ "leave" \in Pcs
      BY <1>14 DEF Discard, Running, Pcs
    <2>2. xfer' \in [Id -> Transfer] /\ TransferHasRow'
      BY <2>1, GotoType
    <2> QED BY <1>14, <2>2 DEF Discard, TypeInv, TypeOK, UpsertHasRow, db, fs, conf, look
  <1>15. ASSUME NEW i \in Id, RemovePrevious(i) PROVE TypeInv'
    <2>1. i \in Running /\ Goto(i, "leave") /\ "leave" \in Pcs
      BY <1>15 DEF RemovePrevious, Running, Pcs
    <2>2. xfer' \in [Id -> Transfer] /\ TransferHasRow'
      BY <2>1, GotoType
    <2> QED BY <1>15, <2>2 DEF RemovePrevious, TypeInv, TypeOK, UpsertHasRow, db, fs, conf, look
  <1>16. ASSUME NEW i \in Id, RecordFailure(i) PROVE TypeInv'
    <2>1. i \in Running /\ Goto(i, "leave") /\ "leave" \in Pcs
      BY <1>16 DEF RecordFailure, Running, Pcs
    <2>2. xfer' \in [Id -> Transfer] /\ TransferHasRow'
      BY <2>1, GotoType
    <2>3. rows[i] \in Row \cup {NoRow} /\ Target(i) \in Path
      BY <2>1, Destination DEF TypeInv, TypeOK
    <2>4. \E r \in Row \cup {NoRow} : rows' = rows \/ rows' = [rows EXCEPT ![i] = r]
      BY <1>16, <2>3, RowStatements DEF RecordFailure
    <2>5. rows' \in [Id -> Row \cup {NoRow}]
      BY <2>4 DEF TypeInv, TypeOK
    <2> QED BY <1>16, <2>2, <2>5 DEF RecordFailure, TypeInv, TypeOK, UpsertHasRow, db, fs, conf, look
  <1>17. ASSUME NEW i \in Id, Leave(i) PROVE TypeInv'
    <2>1. NoTransfer \in Transfer
      BY DEF NoTransfer, Transfer, Pcs
    <2>2. xfer' \in [Id -> Transfer] /\ TransferHasRow'
      BY <1>17, <2>1 DEF Leave, TypeInv, TypeOK, UpsertHasRow, TransferHasRow, Running, NoTransfer
    <2>3. plan' \in Plan /\ UpsertHasRow'
      BY <1>17 DEF Leave, Awaited, TypeInv, TypeOK, UpsertHasRow, Plan
    <2> QED BY <1>17, <2>2, <2>3 DEF Leave, TypeInv, TypeOK, db, fs, conf, look
  <1> QED
    BY <1>1, <1>2, <1>3, <1>4, <1>5, <1>6, <1>7, <1>8, <1>9, <1>10, <1>11, <1>12, <1>13, <1>14, <1>15, <1>16, <1>17 DEF TransferStep

LEMMA PlannerTypes ==
    ASSUME TypeInv,
           \/ \E f \in File : PlanFile(f)
           \/ \E S \in SUBSET Id, mode \in {"unplan", "keep", "delete"} : ListDropped(S, mode)
           \/ PlannerStep
    PROVE  TypeInv'
  <1>1. /\ 1 \in Build /\ Idle \in Plan /\ Idle.pc = "idle"
        /\ \A v \in Build : NoPlan(v) \in Plan /\ NoPlan(v).snap = NoSnap
    BY MaxBuildAssumption DEF Build, Idle, NoPlan, NoSnap, Plan
  <1>2. ASSUME NEW f \in File, PlanFile(f) PROVE TypeInv'
    <2>1. offered[f] \in Build
      BY DEF TypeInv, TypeOK
    <2>2. CASE {i \in Id : FileOf[i] = f /\ rows[i] # NoRow} = {}
      <3>1. Fresh(offered[f]) \in Row
        BY <2>1, FreshIsRow
      <3>2. rows' \in [Id -> Row \cup {NoRow}] /\ unused' \subseteq Id
        BY <1>2, <2>2, <3>1 DEF PlanFile, TypeInv, TypeOK
      <3> QED BY <1>2, <2>2, <3>2
              DEF PlanFile, TypeInv, TypeOK, UpsertHasRow, TransferHasRow, Running, fs, conf, look
    <2>3. CASE {i \in Id : FileOf[i] = f /\ rows[i] # NoRow} # {}
      <3>1. PICK i \in Id :
              /\ rows[i] # NoRow
              /\ plan' = [NoPlan(offered[f]) EXCEPT !.pc = "upsert", !.at = i,
                                                    !.snap[i] = rows[i]]
        BY <1>2, <2>3 DEF PlanFile
      <3>2. rows[i] \in Row
        BY <3>1 DEF TypeInv, TypeOK
      <3>3. [NoSnap EXCEPT ![i] = rows[i]] \in [Id -> Row \cup {NoRow}]
        BY <3>2 DEF NoSnap
      <3>4. plan' \in Plan /\ plan'.at = i /\ plan'.snap[i] = rows[i]
        BY <2>1, <3>1, <3>2, <3>3 DEF NoPlan, NoSnap, Plan
      <3> QED BY <1>2, <2>3, <3>2, <3>4
              DEF PlanFile, TypeInv, TypeOK, UpsertHasRow, TransferHasRow, Running, db, fs, conf, look
    <2> QED BY <2>2, <2>3
  <1>3. ASSUME NEW S \in SUBSET Id, NEW mode \in {"unplan", "keep", "delete"},
               ListDropped(S, mode)
        PROVE  TypeInv'
    <2>1. [i \in Id |-> IF i \in S THEN rows[i] ELSE NoRow] \in [Id -> Row \cup {NoRow}]
      BY DEF TypeInv, TypeOK
    <2>2. plan' \in Plan /\ plan'.pc = "drop"
      BY <1>1, <1>3, <2>1 DEF ListDropped, Plan
    <2> QED BY <1>3, <2>2
            DEF ListDropped, TypeInv, TypeOK, UpsertHasRow, TransferHasRow, Running, db, fs, conf, look
  <1>4. ASSUME UpdateRow PROVE TypeInv'
    <2>. DEFINE i      == plan.at
                stored == plan.snap[i]
                onDisk == seen = "there"
    <2>1. i \in Id /\ stored \in Row /\ plan.build \in Build
      BY <1>4 DEF UpdateRow, TypeInv, TypeOK, UpsertHasRow, Plan
    <2>2. rows[i] # NoRow => Upsert(rows[i], stored, plan.build, onDisk) \in Row
      <3>1. onDisk \in BOOLEAN
        OBVIOUS
      <3>2. rows[i] # NoRow => rows[i] \in Row
        BY <2>1 DEF TypeInv, TypeOK
      <3> QED BY <2>1, <3>1, <3>2, UpsertIsRow
    <2>3. rows' = IF rows[i] = NoRow THEN rows
                  ELSE [rows EXCEPT ![i] = Upsert(rows[i], stored, plan.build, onDisk)]
      BY <1>4 DEF UpdateRow
    <2>4. rows' \in [Id -> Row \cup {NoRow}]
      BY <2>2, <2>3 DEF TypeInv, TypeOK
    <2>5. plan' \in Plan /\ plan'.pc # "upsert"
      BY <1>1, <1>4, <2>1 DEF UpdateRow, TypeInv, TypeOK, Plan
    <2> QED BY <1>4, <2>4, <2>5
            DEF UpdateRow, TypeInv, TypeOK, UpsertHasRow, TransferHasRow, Running, fs, conf, look
  <1>5. ASSUME RowsDropped \/ RemovePart \/ PlanDone PROVE TypeInv'
    <2>1. CASE RowsDropped
      <3>. DEFINE left == {i \in plan.aborts : plan.mode = "unplan" \/ plan.snap[i].status # "done"}
      <3>1. plan' = [plan EXCEPT !.pc = "abort", !.aborts = left] /\ left \subseteq plan.aborts
        BY <2>1 DEF RowsDropped
      <3>. HIDE DEF left
      <3>2. plan \in Plan
        BY DEF TypeInv, TypeOK
      <3>3. plan' \in Plan /\ plan'.pc # "upsert"
        BY <3>1, <3>2 DEF Plan
      <3> QED BY <2>1, <3>3
              DEF RowsDropped, TypeInv, TypeOK, UpsertHasRow, TransferHasRow, Running,
                  db, fs, conf, look
    <2>2. CASE RemovePart
      <3>1. plan' \in Plan /\ plan'.pc # "upsert"
        BY <2>2 DEF RemovePart, TypeInv, TypeOK, Plan
      <3> QED BY <2>2, <3>1
              DEF RemovePart, TypeInv, TypeOK, UpsertHasRow, TransferHasRow, Running,
                  db, fs, conf, look
    <2>3. CASE PlanDone
      BY <1>1, <2>3 DEF PlanDone, TypeInv, TypeOK, UpsertHasRow, TransferHasRow, Running,
                        db, fs, conf, look
    <2> QED BY <1>5, <2>1, <2>2, <2>3
  <1>6. ASSUME NEW i \in Id, DropRow(i) PROVE TypeInv'
    <2>1. SetFileInactive(rows[i]) \in Row \cup {NoRow}
      BY DEF TypeInv, TypeOK, SetFileInactive, Row, Status
    <2>2. rows' \in [Id -> Row \cup {NoRow}]
      BY <1>6, <2>1 DEF DropRow, TypeInv, TypeOK
    <2>3. /\ disk' \in [Path -> Copy \cup {NoCopy}]
          /\ part' \in [Path -> Copy \cup {NoCopy}]
      BY <1>6 DEF DropRow, TypeInv, TypeOK
    <2>4. plan' \in Plan /\ plan'.pc = "drop"
      BY <1>6 DEF DropRow, TypeInv, TypeOK, Plan
    <2> QED BY <1>6, <2>2, <2>3, <2>4
            DEF DropRow, TypeInv, TypeOK, UpsertHasRow, TransferHasRow, Running, conf, look
  <1>7. ASSUME NEW i \in Id, CancelTransfer(i) PROVE TypeInv'
    <2>1. plan' \in Plan /\ plan'.pc # "upsert"
      <3>1. \E pc \in {"wait", "part"} : plan' = [plan EXCEPT !.pc = pc, !.at = i]
        BY <1>7 DEF CancelTransfer
      <3> QED BY <3>1 DEF TypeInv, TypeOK, Plan
    <2>. DEFINE t == [xfer[i] EXCEPT !.cancelled = TRUE]
    <2>2. t \in Transfer /\ t.pc = xfer[i].pc /\ t.file = xfer[i].file
      BY DEF TypeInv, TypeOK, Transfer
    <2>3. xfer' = xfer \/ xfer' = [xfer EXCEPT ![i] = t]
      BY <1>7 DEF CancelTransfer
    <2>. HIDE DEF t
    <2>4. xfer' \in [Id -> Transfer] /\ TransferHasRow'
      <3>1. /\ xfer' \in [Id -> Transfer]
            /\ \A j \in Id : xfer'[j].pc = xfer[j].pc /\ xfer'[j].file = xfer[j].file
        BY <2>2, <2>3 DEF TypeInv, TypeOK
      <3> QED BY <3>1 DEF TypeInv, TransferHasRow, Running
    <2> QED BY <1>7, <2>1, <2>4
            DEF CancelTransfer, TypeInv, TypeOK, UpsertHasRow, db, fs, conf, look
  <1>8. ASSUME LookForCopy PROVE TypeInv'
    BY <1>8 DEF LookForCopy, TypeInv, TypeOK, UpsertHasRow, TransferHasRow, Running,
                db, fs, conf
  <1> QED BY <1>2, <1>3, <1>4, <1>5, <1>6, <1>7, <1>8 DEF PlannerStep

LEMMA SweepTypes == ASSUME TypeInv, SweepStep PROVE TypeInv'
  <1>1. NoSweep \in Sweep
    BY DEF NoSweep, Sweep
  <1>2. CASE ListDone
    <2>. DEFINE found == {<<i, rows[i].path>> :
                            i \in {j \in Id : rows[j] # NoRow /\ rows[j].status = "done"}}
    <2>1. found \in SUBSET (Id \X (Path \cup {NoPath}))
      <3>. SUFFICES ASSUME NEW i \in Id, rows[i] # NoRow
                    PROVE  <<i, rows[i].path>> \in Id \X (Path \cup {NoPath})
        OBVIOUS
      <3>1. rows[i] \in Row
        BY DEF TypeInv, TypeOK
      <3>2. rows[i].path \in Path \cup {NoPath}
        BY <3>1 DEF Row
      <3> QED BY <3>2
    <2>2. sweep' = [NoSweep EXCEPT !.todo = found]
      BY <1>2 DEF ListDone
    <2>. HIDE DEF found
    <2>3. sweep' \in Sweep
      BY <2>1, <2>2 DEF NoSweep, Sweep
    <2> QED BY <1>2, <2>3 DEF ListDone, TypeInv, TypeOK, UpsertHasRow, TransferHasRow,
                              Running, db, fs, conf
  <1>3. CASE LookForFile
    <2>1. PICK e \in sweep.todo :
             sweep' = [todo |-> sweep.todo \ {e},
                       gone |-> IF Missing(e[2]) THEN e[1] ELSE NoId]
      BY <1>3 DEF LookForFile
    <2>2. sweep.todo \subseteq Id \X (Path \cup {NoPath})
      BY DEF TypeInv, TypeOK, Sweep
    <2>3. e[1] \in Id
      BY <2>1, <2>2
    <2>4. sweep' \in Sweep
      BY <2>1, <2>2, <2>3 DEF Sweep
    <2> QED BY <1>3, <2>4 DEF LookForFile, TypeInv, TypeOK, UpsertHasRow, TransferHasRow,
                              Running, db, fs, conf
  <1>4. CASE ResetMissing
    <2>1. sweep.gone \in Id
      BY <1>4 DEF ResetMissing, TypeInv, TypeOK, Sweep
    <2>2. ResetFile(rows[sweep.gone]) \in Row \cup {NoRow}
      BY <2>1, ResetIsRow DEF TypeInv, TypeOK
    <2>3. rows' \in [Id -> Row \cup {NoRow}]
      BY <1>4, <2>2 DEF ResetMissing, TypeInv, TypeOK
    <2>4. sweep' \in Sweep
      BY <1>1, <1>4 DEF ResetMissing, TypeInv, TypeOK, Sweep
    <2> QED BY <1>4, <2>3, <2>4 DEF ResetMissing, TypeInv, TypeOK, UpsertHasRow,
                                    TransferHasRow, Running, fs, conf
  <1> QED BY <1>2, <1>3, <1>4 DEF SweepStep

LEMMA HandlerTypes ==
    ASSUME TypeInv,
           \/ \E p \in BOOLEAN : SetPaused(p)
           \/ \E n \in 0..MaxLimit : SetLimit(n)
           \/ \E i \in Id : RetryFile(i) \/ BackoffOver(i)
           \/ \E p \in Path : Vanish(p)
           \/ \E f \in File : Publish(f)
           \/ Stop \/ Restart \/ Crash
    PROVE  TypeInv'
  <1>1. ASSUME NEW p \in BOOLEAN, SetPaused(p) PROVE TypeInv'
    <2>1. xfer' \in [Id -> Transfer] /\ TransferHasRow'
      BY <1>1, CancelAllType DEF SetPaused, TypeInv, TypeOK, TransferHasRow, Running
    <2> QED BY <1>1, <2>1 DEF SetPaused, TypeInv, TypeOK, UpsertHasRow, db, fs, look
  <1>2. ASSUME NEW n \in 0..MaxLimit, SetLimit(n) PROVE TypeInv'
    <2>1. xfer' \in [Id -> Transfer] /\ TransferHasRow'
      BY <1>2, CancelAllType DEF SetLimit, TypeInv, TypeOK, TransferHasRow, Running
    <2>2. limit' \in 1..MaxLimit
      BY <1>2, LimitAssumption DEF SetLimit, AtLeastOne
    <2> QED BY <1>2, <2>1, <2>2 DEF SetLimit, TypeInv, TypeOK, UpsertHasRow, db, fs, look
  <1>3. ASSUME NEW i \in Id, RetryFile(i) \/ BackoffOver(i) PROVE TypeInv'
    <2>1. ResetFile(rows[i]) \in Row \cup {NoRow}
      BY ResetIsRow DEF TypeInv, TypeOK
    <2>2. BackoffOver(i) => [rows[i] EXCEPT !.waiting = FALSE] \in Row
      BY DEF BackoffOver, TypeInv, TypeOK, Row
    <2>3. \/ rows' = [rows EXCEPT ![i] = ResetFile(rows[i])]
          \/ BackoffOver(i) /\ rows' = [rows EXCEPT ![i] = [rows[i] EXCEPT !.waiting = FALSE]]
      BY <1>3 DEF RetryFile, BackoffOver
    <2>4. rows' \in [Id -> Row \cup {NoRow}]
      BY <2>1, <2>2, <2>3 DEF TypeInv, TypeOK
    <2> QED BY <1>3, <2>4 DEF RetryFile, BackoffOver, TypeInv, TypeOK,
               UpsertHasRow, TransferHasRow, Running, fs, conf, look
  <1>4. ASSUME NEW p \in Path, Vanish(p) PROVE TypeInv'
    BY <1>4 DEF Vanish, TypeInv, TypeOK, UpsertHasRow, TransferHasRow, Running, db, conf, look
  <1>5. ASSUME NEW f \in File, Publish(f) PROVE TypeInv'
    <2>1. offered \in [File -> Build] /\ offered[f] < MaxBuild
      BY <1>5 DEF Publish, TypeInv, TypeOK
    <2>2. offered[f] + 1 \in Build
      BY <2>1, MaxBuildAssumption DEF Build
    <2>3. offered' \in [File -> Build]
      BY <1>5, <2>1, <2>2 DEF Publish
    <2> QED BY <1>5, <2>3
            DEF Publish, TypeInv, TypeOK, UpsertHasRow, TransferHasRow, Running, db, fs, conf, look
  <1>6. ASSUME Stop PROVE TypeInv'
    <2>1. xfer' \in [Id -> Transfer] /\ TransferHasRow'
      BY <1>6, CancelAllType DEF Stop
    <2> QED BY <1>6, <2>1 DEF Stop, TypeInv, TypeOK, UpsertHasRow, db, fs, look
  <1>7. ASSUME Restarted PROVE TypeInv'
    <2>1. NoTransfer \in Transfer /\ NoTransfer.pc = "idle"
      BY DEF NoTransfer, Transfer, Pcs
    <2>2. Idle \in Plan /\ Idle.pc = "idle"
      BY MaxBuildAssumption DEF Idle, NoPlan, NoSnap, Plan, Build
    <2>3. xfer' \in [Id -> Transfer] /\ TransferHasRow'
      BY <1>7, <2>1 DEF Restarted, TransferHasRow, Running
    <2>4. NoSweep \in Sweep
      BY DEF NoSweep, Sweep
    <2> QED BY <1>7, <2>2, <2>3, <2>4
            DEF Restarted, TypeInv, TypeOK, UpsertHasRow, NoSnap, db, fs, look
  <1> QED BY <1>1, <1>2, <1>3, <1>4, <1>5, <1>6, <1>7 DEF Restart, Crash

LEMMA StepTypeInv == TypeInv /\ [Next]_vars => TypeInv'
  <1>1. TypeInv /\ Next => TypeInv'
    BY RunnerAndTransferTypes, PlannerTypes, SweepTypes, HandlerTypes DEF Next
  <1>2. TypeInv /\ UNCHANGED vars => TypeInv'
    BY DEF TypeInv, TypeOK, UpsertHasRow, TransferHasRow, Running, vars
  <1> QED BY <1>1, <1>2

\* Every variable keeps its type: in particular the limit is never 0, which
\* would stall the queue for good (Configure).
THEOREM TypeCorrect == Spec => []TypeOK
  <1>1. TypeInv => TypeOK
    BY DEF TypeInv
  <1> QED BY InitTypeInv, StepTypeInv, <1>1, PTL DEF Spec

-----------------------------------------------------------------------------
(* What a step can do to the transfers, the claims and the two flags that  *)
(* stop the queue.  The invariants about them only look at these cases.    *)

\* Row i keeps everything but its pc (and its error).
SameBut(i) == /\ xfer'[i].file = xfer[i].file /\ xfer'[i].claim = xfer[i].claim
              /\ xfer'[i].cancelled = xfer[i].cancelled
OthersStay(i) == \A j \in Id \ {i} : xfer'[j] = xfer[j]

Quiet     == UNCHANGED <<xfer, claimed>> /\ (paused' => paused) /\ (stopping' => stopping)
Starts(i) == /\ CanStart(i) /\ OthersStay(i)
             /\ xfer'[i].pc = "remote" /\ xfer'[i].claim = NoPath
             /\ xfer'[i].cancelled = stopping
             /\ UNCHANGED <<claimed, paused, stopping>>
Moves(i)  == /\ i \in Running /\ i \in Running' /\ (i \in Placing' => i \in Placing)
             /\ SameBut(i) /\ OthersStay(i) /\ UNCHANGED <<claimed, paused, stopping>>
Claims(i) == /\ xfer[i].pc = "claim" /\ MayClaim(i)
             /\ xfer' = [xfer EXCEPT ![i].pc = "owner", ![i].claim = Target(i)]
             /\ claimed' = [claimed EXCEPT ![Target(i)] = i]
             /\ UNCHANGED <<paused, stopping>>
Leaves(i) == /\ xfer' = [xfer EXCEPT ![i] = NoTransfer]
             /\ claimed' = IF xfer[i].claim = NoPath THEN claimed
                           ELSE [claimed EXCEPT ![xfer[i].claim] = NoId]
             /\ UNCHANGED <<paused, stopping>>
Cancels   == /\ \A i \in Id : /\ xfer'[i].pc = xfer[i].pc
                              /\ xfer'[i].file = xfer[i].file
                              /\ xfer'[i].claim = xfer[i].claim
                              /\ xfer[i].cancelled => xfer'[i].cancelled
             /\ \/ UNCHANGED <<paused, stopping>>
                \/ \A i \in Running : xfer'[i].cancelled
             /\ UNCHANGED claimed

LEMMA GotoMoves ==
    ASSUME TypeInv, NEW i \in Running, NEW pc \in Pcs \ {"idle"},
           Goto(i, pc) \/ \E kind \in {"retry", "final", "auth"} : pc = "fail" /\ Fail(i, kind),
           pc \in {"claim", "fail", "leave"} \/ i \in Placing,
           UNCHANGED <<claimed, paused, stopping>>
    PROVE  Moves(i)
  <1>1. /\ xfer \in [Id -> Transfer] /\ i \in Id
    BY DEF TypeInv, TypeOK, Running
  <1>2. xfer'[i].pc = pc /\ SameBut(i) /\ OthersStay(i)
    <2>1. CASE Goto(i, pc)
      BY <1>1, <2>1 DEF Goto, SameBut, OthersStay, Transfer
    <2>2. CASE \E kind \in {"retry", "final", "auth"} : pc = "fail" /\ Fail(i, kind)
      BY <1>1, <2>2 DEF Fail, SameBut, OthersStay, Transfer
    <2> QED BY <2>1, <2>2
  <1> QED BY <1>1, <1>2 DEF Moves, Running, Placing

LEMMA TransferSteps ==
    ASSUME TypeInv, NEW i \in Id, TransferStep(i)
    PROVE  Moves(i) \/ Claims(i) \/ Leaves(i)
  <1>. USE DEF conf
  <1>1. CASE Interrupted(i)
    BY <1>1, GotoMoves DEF Interrupted, Running, Pcs
  <1>2. CASE Broken(i)
    BY <1>2, GotoMoves, FaultAssumption DEF Broken, Running, Pcs
  <1>3. CASE SizeMismatch(i)
    BY <1>3, GotoMoves DEF SizeMismatch, Running, Pcs
  <1>4. CASE Remote(i)
    BY <1>4, GotoMoves DEF Remote, Running, Pcs
  <1>5. CASE ClaimPath(i)
    <2>1. CASE MayClaim(i)
      BY <1>5, <2>1 DEF ClaimPath, Claims
    <2>2. CASE ~MayClaim(i)
      BY <1>5, <2>2, GotoMoves DEF ClaimPath, Running, Pcs
    <2> QED BY <2>1, <2>2
  <1>6. CASE CheckOwner(i)
    BY <1>6, GotoMoves DEF CheckOwner, Running, Placing, Pcs
  <1>7. CASE Resolve(i)
    BY <1>7, GotoMoves DEF Resolve, Running, Placing, Pcs
  <1>8. CASE AlreadyPresent(i)
    BY <1>8, GotoMoves DEF AlreadyPresent, Running, Placing, Pcs
  <1>9. CASE OpenPart(i)
    BY <1>9, GotoMoves DEF OpenPart, Running, Placing, Pcs
  <1>10. CASE WritePart(i)
    BY <1>10, GotoMoves DEF WritePart, Running, Placing, Pcs
  <1>11. CASE Complete(i)
    <2>1. PICK ok \in BOOLEAN : Goto(i, AfterComplete(i, ok))
      BY <1>11 DEF Complete, StillWants, Active
    <2>2. AfterComplete(i, ok) \in Pcs \ {"idle"}
      BY DEF AfterComplete, Pcs
    <2>3. i \in Running /\ i \in Placing /\ UNCHANGED <<claimed, paused, stopping>>
      BY <1>11 DEF Complete, Running, Placing
    <2> QED BY <2>1, <2>2, <2>3, GotoMoves
  <1>12. CASE Discard(i)
    BY <1>12, GotoMoves DEF Discard, Running, Pcs
  <1>13. CASE RemovePrevious(i)
    BY <1>13, GotoMoves DEF RemovePrevious, Running, Pcs
  <1>14. CASE RecordFailure(i)
    BY <1>14, GotoMoves DEF RecordFailure, Running, Pcs
  <1>15. CASE Leave(i)
    BY <1>15 DEF Leave, Leaves
  <1> QED BY <1>1, <1>2, <1>3, <1>4, <1>5, <1>6, <1>7, <1>8, <1>9, <1>10, <1>11, <1>12,
             <1>13, <1>14, <1>15 DEF TransferStep

LEMMA CancelAllCancels ==
    ASSUME TypeInv, CancelAll, UNCHANGED claimed PROVE Cancels
  <1>1. ASSUME NEW i \in Id
        PROVE  /\ xfer'[i].pc = xfer[i].pc /\ xfer'[i].file = xfer[i].file
               /\ xfer'[i].claim = xfer[i].claim
               /\ xfer'[i].cancelled = (xfer[i].cancelled \/ i \in Running)
    <2>1. xfer[i] \in Transfer
      BY DEF TypeInv, TypeOK
    <2>2. xfer'[i] = [xfer[i] EXCEPT !.cancelled = xfer[i].cancelled \/ i \in Running]
      BY DEF CancelAll
    <2> QED BY <2>1, <2>2 DEF Transfer
  <1>2. Running \subseteq Id
    BY DEF Running
  <1> QED BY <1>1, <1>2 DEF Cancels

LEMMA ManagerSteps ==
    ASSUME TypeInv, [Next]_vars
    PROVE  \/ Quiet \/ Cancels \/ Restarted
           \/ \E i \in Id : Starts(i) \/ Moves(i) \/ Claims(i) \/ Leaves(i)
  <1>. USE DEF conf
  <1>1. ASSUME NEW i \in Id, StartTransfer(i) PROVE Quiet \/ Starts(i)
    <2>1. CASE CanStart(i) /\ xfer' # xfer
      <3>1. xfer' = [xfer EXCEPT ![i] = [NoTransfer EXCEPT !.pc = "remote",
                                                           !.file = picked[i],
                                                           !.cancelled = stopping]]
        BY <1>1, <2>1 DEF StartTransfer
      <3>2. /\ xfer'[i].pc = "remote" /\ xfer'[i].claim = NoPath
            /\ xfer'[i].cancelled = stopping /\ OthersStay(i)
        BY <3>1 DEF NoTransfer, OthersStay, TypeInv, TypeOK
      <3> QED BY <1>1, <2>1, <3>2 DEF StartTransfer, Starts
    <2>2. CASE xfer' = xfer
      BY <1>1, <2>2 DEF StartTransfer, Quiet
    <2> QED BY <1>1, <2>1, <2>2 DEF StartTransfer
  <1>2. ASSUME PlannerStep PROVE Quiet \/ Cancels
    <2>1. ASSUME NEW i \in Id, CancelTransfer(i) PROVE Quiet \/ Cancels
      <3>1. CASE i \in Running
        <4>. DEFINE t == [xfer[i] EXCEPT !.cancelled = TRUE]
        <4>1. /\ t.pc = xfer[i].pc /\ t.file = xfer[i].file /\ t.claim = xfer[i].claim
              /\ t.cancelled
          BY DEF TypeInv, TypeOK, Transfer
        <4>2. xfer' = [xfer EXCEPT ![i] = t]
          BY <2>1, <3>1 DEF CancelTransfer
        <4>. HIDE DEF t
        <4>3. \A j \in Id : xfer'[j] = IF j = i THEN t ELSE xfer[j]
          BY <4>2 DEF TypeInv, TypeOK
        <4> QED BY <2>1, <4>1, <4>3 DEF CancelTransfer, Cancels
      <3>2. CASE i \notin Running
        BY <2>1, <3>2 DEF CancelTransfer, Quiet
      <3> QED BY <3>1, <3>2
    <2>2. ASSUME NEW i \in Id, DropRow(i) PROVE Quiet
      BY <2>2 DEF DropRow, Quiet
    <2>3. CASE LookForCopy \/ UpdateRow \/ RowsDropped \/ RemovePart \/ PlanDone
      BY <2>3 DEF LookForCopy, UpdateRow, RowsDropped, RemovePart, PlanDone, Quiet
    <2> QED BY <1>2, <2>1, <2>2, <2>3 DEF PlannerStep
  <1>3. ASSUME NEW p \in BOOLEAN, SetPaused(p) PROVE Quiet \/ Cancels
    BY <1>3, CancelAllCancels DEF SetPaused, Quiet
  <1>4. ASSUME NEW n \in 0..MaxLimit, SetLimit(n) PROVE Quiet \/ Cancels
    BY <1>4, CancelAllCancels DEF SetLimit, Quiet
  <1>5. ASSUME Stop PROVE Cancels
    BY <1>5, CancelAllCancels DEF Stop
  <1>6. UNCHANGED <<xfer, claimed, paused, stopping>> => Quiet
    BY DEF Quiet
  <1>7. ASSUME NEW i \in Id, RetryFile(i) \/ BackoffOver(i) PROVE Quiet
    BY <1>6, <1>7 DEF RetryFile, BackoffOver
  <1>8. ASSUME \/ \E p \in Path : Vanish(p)
               \/ \E f \in File : PlanFile(f) \/ Publish(f)
        PROVE  Quiet
    <2>1. UNCHANGED <<xfer, claimed, conf>>
      BY <1>8 DEF Vanish, PlanFile, Publish
    <2> QED BY <1>6, <2>1
  <1>9. ASSUME NEW S \in SUBSET Id, NEW mode \in {"unplan", "keep", "delete"},
               ListDropped(S, mode)
        PROVE  Quiet
    BY <1>9 DEF ListDropped, Quiet
  <1>10. Fill \/ UNCHANGED vars => Quiet
    BY DEF Fill, vars, Quiet
  <1>11. SweepStep => Quiet
    BY <1>6 DEF SweepStep, ListDone, LookForFile, ResetMissing
  <1> QED BY <1>1, <1>2, <1>3, <1>4, <1>5, <1>6, <1>7, <1>8, <1>9, <1>10, <1>11, TransferSteps
          DEF Next, Restart, Crash

-----------------------------------------------------------------------------
(* The claims.  That targets differ is not inductive: it follows from each *)
(* transfer that works on a destination being the one registered for it.   *)

ClaimHeld(i) == xfer[i].claim # NoPath => claimed[xfer[i].claim] = i
ClaimInv == \A i \in Id : ClaimHeld(i) /\ (i \in Placing => xfer[i].claim = Target(i))

LEMMA ClaimsApart == TypeInv /\ ClaimInv => ClaimsHoldApart
  <1>. SUFFICES ASSUME TypeInv, ClaimInv, NEW i \in Placing, NEW j \in Placing,
                       Target(i) = Target(j)
                PROVE  i = j
    BY DEF ClaimsHoldApart
  <1>1. i \in Id /\ j \in Id /\ i \in Running
    BY DEF Placing, Running
  <1>2. xfer[i].claim = Target(i) /\ xfer[j].claim = Target(i) /\ Target(i) # NoPath
    BY <1>1, Destination, NoPathAssumption DEF ClaimInv
  <1> QED BY <1>1, <1>2 DEF ClaimInv, ClaimHeld

LEMMA InitClaimInv == Init => ClaimInv
  <1>1. Init => xfer = [i \in Id |-> NoTransfer]
    BY DEF Init
  <1> QED BY <1>1 DEF ClaimInv, ClaimHeld, Placing, NoTransfer

LEMMA StepClaimInv == TypeInv /\ ClaimInv /\ [Next]_vars => ClaimInv'
  <1>. SUFFICES ASSUME TypeInv, ClaimInv, [Next]_vars PROVE ClaimInv'
    OBVIOUS
  <1>0. xfer \in [Id -> Transfer] /\ claimed \in [Path -> Id \cup {NoId}]
    BY DEF TypeInv, TypeOK
  <1>1. CASE Quiet
    BY <1>1 DEF Quiet, ClaimInv, ClaimHeld, Placing, Target
  <1>2. CASE Cancels
    BY <1>2 DEF Cancels, ClaimInv, ClaimHeld, Placing, Target
  <1>3. CASE Restarted
    BY <1>3 DEF Restarted, ClaimInv, ClaimHeld, Placing, NoTransfer
  <1>4. ASSUME NEW i \in Id, Starts(i) PROVE ClaimInv'
    BY <1>4 DEF Starts, OthersStay, ClaimInv, ClaimHeld, Placing, Target
  <1>5. ASSUME NEW i \in Id, Moves(i) PROVE ClaimInv'
    BY <1>5 DEF Moves, SameBut, OthersStay, ClaimInv, ClaimHeld, Placing, Target
  <1>6. ASSUME NEW i \in Id, Claims(i) PROVE ClaimInv'
    <2>1. Target(i) \in Path /\ Target(i) # NoPath
      BY <1>6, Destination, NoPathAssumption DEF Claims, Running
    <2>2. /\ xfer'[i].claim = Target(i) /\ xfer'[i].file = xfer[i].file
          /\ \A j \in Id \ {i} : xfer'[j] = xfer[j]
      BY <1>0, <1>6 DEF Claims, Transfer
    <2>3. \A p \in Path : claimed'[p] = IF p = Target(i) THEN i ELSE claimed[p]
      BY <1>0, <1>6 DEF Claims
    <2>4. (ClaimHeld(i) /\ (i \in Placing => xfer[i].claim = Target(i)))'
      BY <2>1, <2>2, <2>3 DEF ClaimHeld, Target
    <2>5. ASSUME NEW j \in Id \ {i}
          PROVE  (ClaimHeld(j) /\ (j \in Placing => xfer[j].claim = Target(j)))'
      <3>1. xfer[j].claim \in Path => xfer[j].claim # Target(i)
        BY <1>6, <2>1, NoPathAssumption, NoIdAssumption DEF Claims, MayClaim, ClaimInv, ClaimHeld
      <3>2. xfer[j].claim \in Path \cup {NoPath}
        BY <1>0 DEF Transfer
      <3> QED BY <2>2, <2>3, <3>1, <3>2 DEF ClaimInv, ClaimHeld, Placing, Target
    <2> QED BY <2>4, <2>5 DEF ClaimInv
  <1>7. ASSUME NEW i \in Id, Leaves(i) PROVE ClaimInv'
    <2>1. xfer'[i] = NoTransfer /\ \A j \in Id \ {i} : xfer'[j] = xfer[j]
      BY <1>0, <1>7 DEF Leaves
    <2>2. (ClaimHeld(i) /\ (i \in Placing => xfer[i].claim = Target(i)))'
      BY <2>1 DEF ClaimHeld, Placing, NoTransfer
    <2>3. ASSUME NEW j \in Id \ {i}
          PROVE  (ClaimHeld(j) /\ (j \in Placing => xfer[j].claim = Target(j)))'
      <3>1. xfer[j].claim \in Path \cup {NoPath} /\ xfer[i].claim \in Path \cup {NoPath}
        BY <1>0 DEF Transfer
      <3>2. xfer[j].claim # NoPath => claimed'[xfer[j].claim] = claimed[xfer[j].claim]
        BY <1>0, <1>7, <3>1 DEF Leaves, ClaimInv, ClaimHeld
      <3> QED BY <2>1, <3>2 DEF ClaimInv, ClaimHeld, Placing, Target
    <2> QED BY <2>2, <2>3 DEF ClaimInv
  <1> QED BY <1>1, <1>2, <1>3, <1>4, <1>5, <1>6, <1>7, ManagerSteps

\* No two transfers ever work on one destination (claimPath and the release in
\* startTransfer), however many files, paths and transfers there are.
THEOREM TransfersApart == Spec => []ClaimsHoldApart
  <1>1. Init => TypeInv /\ ClaimInv
    BY InitTypeInv, InitClaimInv
  <1>2. TypeInv /\ ClaimInv /\ [Next]_vars => (TypeInv /\ ClaimInv)'
    BY StepTypeInv, StepClaimInv
  <1> QED BY <1>1, <1>2, ClaimsApart, PTL DEF Spec

-----------------------------------------------------------------------------
(* The pause and the stop.                                                 *)

LEMMA StepPause == TypeInv /\ PauseIsNotLost /\ [Next]_vars => PauseIsNotLost'
  <1>. SUFFICES ASSUME TypeInv, PauseIsNotLost, [Next]_vars PROVE PauseIsNotLost'
    OBVIOUS
  <1>0. xfer \in [Id -> Transfer]
    BY DEF TypeInv, TypeOK
  <1>1. CASE Quiet
    BY <1>1 DEF Quiet, PauseIsNotLost, Running
  <1>2. CASE Cancels
    BY <1>2 DEF Cancels, PauseIsNotLost, Running
  <1>3. CASE Restarted
    BY <1>3 DEF Restarted, PauseIsNotLost, Running, NoTransfer
  <1>4. ASSUME NEW i \in Id, Starts(i) PROVE PauseIsNotLost'
    <2>1. CASE stopping
      BY <1>4, <2>1 DEF Starts, OthersStay, CanStart, PauseIsNotLost, Running
    <2>2. CASE ~stopping
      BY <1>4, <2>2 DEF Starts, CanStart, PauseIsNotLost
    <2> QED BY <2>1, <2>2
  <1>5. ASSUME NEW i \in Id, Moves(i) PROVE PauseIsNotLost'
    BY <1>5 DEF Moves, SameBut, OthersStay, PauseIsNotLost, Running
  <1>6. ASSUME NEW i \in Id, Claims(i) PROVE PauseIsNotLost'
    <2>1. /\ i \in Running /\ xfer'[i].cancelled = xfer[i].cancelled
          /\ \A j \in Id \ {i} : xfer'[j] = xfer[j]
      BY <1>0, <1>6 DEF Claims, Transfer, Running
    <2> QED BY <1>6, <2>1 DEF Claims, PauseIsNotLost, Running
  <1>7. ASSUME NEW i \in Id, Leaves(i) PROVE PauseIsNotLost'
    BY <1>0, <1>7 DEF Leaves, PauseIsNotLost, Running, NoTransfer
  <1> QED BY <1>1, <1>2, <1>3, <1>4, <1>5, <1>6, <1>7, ManagerSteps

\* A pause or a shutdown reaches every transfer, also one that is started from
\* a queue that was read before it (Configure, Run, startTransfer).
THEOREM PauseReaches == Spec => []PauseIsNotLost
  <1>1. Init => TypeInv /\ PauseIsNotLost
    BY InitTypeInv DEF Init, PauseIsNotLost
  <1>2. TypeInv /\ PauseIsNotLost /\ [Next]_vars => (TypeInv /\ PauseIsNotLost)'
    BY StepTypeInv, StepPause
  <1> QED BY <1>1, <1>2, PTL DEF Spec
=============================================================================
