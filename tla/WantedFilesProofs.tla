-------------------------- MODULE WantedFilesProofs --------------------------
(***************************************************************************)
(* Downloader implements WantedFiles, for every choice of the constants    *)
(* that meets the hypotheses.                                              *)
(***************************************************************************)
EXTENDS FilesOnDiskProofs

\* Only failed files are queued again by hand, and not any file.
FailedOnly == "retry any" \notin Ops

\* No check is about to queue a file that it missed, and that has been downloaded
\* again since, or recorded under the name of its new build.
NoStaleCheck ==
    \A i \in Id : sweep.gone = i /\ rows[i] # NoRow /\ rows[i].status = "done"
                  => rows[i].path = NoPath \/ disk[rows[i].path] = NoCopy

\* The row of a file that is there is presented, or kept for later, and no
\* transfer is about to start for it or still to end in a failure.
QuietInv ==
    \A i \in Id : HasCopy(i) =>
        /\ rows[i].status = "done" \/ (rows[i].status = "inactive" /\ rows[i].prev = NoPath)
        /\ picked[i] = NoRow
        /\ xfer[i].pc \in {"idle", "leave", "tidy"}

\* A row is dropped, or taken up again, by the planner alone.
KindInv ==
    \A i \in Id : Read(i) =>
        /\ plan.snap[i].status = "inactive" <=> rows[i].status = "inactive"
        /\ rows[i].status = "inactive" => /\ plan.pc = "upsert"
                                          /\ rows[i].prev = plan.snap[i].prev

-----------------------------------------------------------------------------
(* Rows that are presented or kept.                                        *)

\* What WantedFiles calls wanted, shown and kept, from the row alone.
Said(r) ==
    IF r = NoRow THEN Promise!State(0, 0, 0)
    ELSE Promise!State(IF Active(r) THEN r.build ELSE 0,
                       IF r.status = "done" THEN r.build ELSE 0,
                       IF Reactivated(r) /\ r.prev = NoPath THEN r.build ELSE 0)

KeptInv == FileInv /\ ArrivedInv /\ CopyInv /\ QuietInv /\ KindInv

\* A copy that is there is a copy.
LEMMA CopyIsThere ==
    ASSUME FileInv, CopyInv, NEW i \in Id, HasCopy(i)
    PROVE  /\ rows[i].path # NoPath /\ disk[rows[i].path] \notin {NoCopy, Mixed}
           /\ disk[rows[i].path][2] = rows[i].build
  <1>1. /\ rows[i] # NoRow /\ rows[i].path = Dest[FileOf[i]][rows[i].build]
        /\ disk[rows[i].path] = <<FileOf[i], rows[i].build>>
    BY DEF HasCopy, CopyInv, Copied
  <1>2. FileOf[i] \in File /\ rows[i].build \in Build /\ rows[i].path \in Path
    BY <1>1, Typed DEF FileInv
  <1>3. <<FileOf[i], rows[i].build>> \notin {NoCopy, Mixed}
    BY <1>2, MixedAssumption, NoCopyAssumption DEF Copy
  <1> QED BY <1>1, <1>2, <1>3, NoPathAssumption

LEMMA SaidIsPromised ==
    ASSUME FileInv, CopyInv, NEW i \in Id
    PROVE  Promised(rows[i]) = Said(rows[i])
  <1>1. CASE rows[i] = NoRow
    BY <1>1 DEF Promised, Said, Promise!State
  <1>2. CASE rows[i] # NoRow
    <2>1. rows[i].status = "done" => BuildAt(rows[i].path) = rows[i].build
      <3>1. rows[i].status = "done" => HasCopy(i)
        BY <1>2 DEF HasCopy
      <3> QED BY <3>1, CopyIsThere DEF BuildAt
    <2>2. Reactivated(rows[i]) /\ rows[i].prev = NoPath => BuildAt(rows[i].path) = rows[i].build
      <3>1. Reactivated(rows[i]) /\ rows[i].prev = NoPath => HasCopy(i)
        BY <1>2 DEF HasCopy, Reactivated
      <3> QED BY <3>1, CopyIsThere DEF BuildAt
    <2> QED BY <1>2, <2>1, <2>2 DEF Promised, Said, Promise!State
  <1> QED BY <1>1, <1>2

\* Under QuietInv neither a failure nor a handler finds a reason to write the
\* status of a row whose copy is there.
LEMMA NoExcuse ==
    ASSUME FailedOnly, NoStaleCheck, FileInv, CopyInv, QuietInv, NEW i \in Id, HasCopy(i)
    PROVE  ~Excused(i)
  <1>1. rows[i].path # NoPath /\ disk[rows[i].path] # NoCopy
    BY CopyIsThere
  <1>2. /\ rows[i].status = "done" \/ rows[i].status = "inactive"
        /\ xfer[i].pc \in {"idle", "leave", "tidy"}
    BY DEF QuietInv
  <1>3. ~(sweep.gone = i /\ Active(rows[i]))
    BY <1>1, <1>2 DEF NoStaleCheck, Active
  <1> QED BY <1>2, <1>3 DEF Excused, FailedOnly

\* The planner reads a row in the state it is in, and keeps what it has read.
LEMMA KindsFollow ==
    ASSUME FileInv, KindInv, [Next]_vars, NEW i \in Id, Read(i)'
    PROVE  /\ plan'.snap[i].status = "inactive" <=> rows'[i].status = "inactive"
           /\ rows'[i].status = "inactive" => /\ plan'.pc = "upsert"
                                              /\ rows'[i].prev = plan'.snap[i].prev
  <1>. DEFINE Kind == /\ plan'.snap[i].status = "inactive" <=> rows'[i].status = "inactive"
                      /\ rows'[i].status = "inactive"
                         => plan'.pc = "upsert" /\ rows'[i].prev = plan'.snap[i].prev
  <1>0. /\ TypeInv /\ ReadInv /\ rows \in [Id -> Row \cup {NoRow}]
        /\ plan \in Plan
    BY DEF FileInv, RowInv, TypeInv, TypeOK
  <1>1. ASSUME plan' = plan, rows[i] # NoRow
                             => /\ rows'[i].status = "inactive" <=> rows[i].status = "inactive"
                                /\ rows[i].status = "inactive" => rows'[i].prev = rows[i].prev
        PROVE  Kind
    <2>1. Read(i)
      BY <1>1 DEF Read
    <2> QED BY <1>0, <1>1, <2>1 DEF KindInv, ReadInv
  <1>2. CASE Calm
    BY <1>1, <1>2 DEF Calm, Read
  <1>3. CASE Fill \/ \E k \in Id : Begins(k)
    BY <1>1, <1>3 DEF Fill, Begins, db
  <1>4. ASSUME NEW k \in Id, Marks(k) PROVE Kind
    <2>1. CASE k # i
      BY <1>0, <1>1, <1>4, <2>1 DEF Marks
    <2>2. CASE k = i
      BY <1>1, <1>4, <2>2 DEF Marks, Marked
    <2> QED BY <2>1, <2>2
  <1>5. ASSUME NEW k \in Id, Works(k) PROVE Kind
    <2>1. plan' = plan
      BY <1>5 DEF Works, CheckOwner, Resolve, AlreadyPresent, OpenPart, WritePart, Complete,
                  Discard, RemovePrevious
    <2>2. CASE rows'[i] = rows[i]
      BY <1>1, <2>1, <2>2
    <2>3. CASE rows'[i] # rows[i] /\ Resolve(k)
      <3>1. rows'[i] = SetFileResolved(rows[i], Target(i)) /\ rows[i] # NoRow
        BY <1>0, <2>3 DEF Resolve, SetFileResolved
      <3>2. rows'[i].prev = rows[i].prev /\ rows'[i].status = rows[i].status
        BY <1>0, <3>1 DEF SetFileResolved, Row
      <3> QED BY <1>1, <2>1, <3>2
    <2>4. CASE rows'[i] # rows[i] /\ Complete(k)
      <3>1. rows'[i] = Completed(rows[i], Target(i)) /\ Active(rows[i])
        BY <1>0, <2>4 DEF Complete, StillWants
      <3>2. rows'[i].status = "done" /\ rows[i].status # "inactive"
        BY <1>0, <3>1 DEF Completed, Row, Active
      <3> QED BY <1>1, <2>1, <3>2
    <2>5. CASE rows'[i] # rows[i] /\ ~Resolve(k) /\ ~Complete(k)
      BY <1>5, <2>5 DEF Works, CheckOwner, AlreadyPresent, OpenPart, WritePart, Discard,
                        RemovePrevious, db
    <2> QED BY <2>2, <2>3, <2>4, <2>5
  <1>6. ASSUME NEW f \in File, PlanFile(f) PROVE Kind
    <2>1. CASE plan' = plan
      <3>1. plan.pc = "idle"
        BY <1>6 DEF PlanFile
      <3> QED BY <2>1, <3>1 DEF Read
    <2>2. CASE plan' # plan
      <3>1. rows' = rows
        BY <1>6, <2>2 DEF PlanFile, db
      <3>2. PICK k \in Id : plan' = [NoPlan(offered[f]) EXCEPT !.pc = "upsert", !.at = k,
                                                              !.snap[k] = rows[k]]
        BY <1>6, <2>2 DEF PlanFile
      <3>3. plan'.pc = "upsert" /\ plan'.at = k /\ plan'.snap[k] = rows[k]
        BY <3>2 DEF NoPlan, NoSnap
      <3> QED BY <3>1, <3>3 DEF Read
    <2> QED BY <2>1, <2>2
  <1>7. ASSUME UpdateRow PROVE Kind
    <2>1. \/ plan' = Idle
          \/ \E k : plan' = [plan EXCEPT !.pc = "abort", !.aborts = {k}, !.at = NoId]
      BY <1>7 DEF UpdateRow
    <2>2. Idle.pc = "idle"
      BY DEF Idle, NoPlan
    <2>3. plan'.pc \notin {"upsert", "drop"}
      BY <1>0, <2>1, <2>2 DEF Plan
    <2> QED BY <2>3 DEF Read
  <1>8. ASSUME NEW S \in SUBSET Id, NEW mode \in {"unplan", "keep", "delete"},
               ListDropped(S, mode)
        PROVE  Kind
    <2>1. /\ plan'.pc = "drop" /\ plan'.todo = S /\ rows' = rows
          /\ \A k \in S : plan'.snap[k] = rows[k] /\ rows[k].status # "inactive"
      BY <1>8 DEF ListDropped, Idle, NoPlan, db, Active
    <2> QED BY <2>1 DEF Read
  <1>9. ASSUME NEW k \in Id, DropRow(k) PROVE Kind
    <2>1. /\ plan.pc = "drop" /\ k \in plan.todo /\ plan'.pc = "drop"
          /\ plan'.todo = plan.todo \ {k} /\ plan'.snap = plan.snap
      BY <1>9, <1>0 DEF DropRow, Plan
    <2>2. k # i /\ Read(i)
      BY <2>1 DEF Read
    <2>3. rows'[i] = rows[i]
      BY <1>0, <1>9, <2>2 DEF DropRow
    <2> QED BY <2>1, <2>2, <2>3 DEF KindInv
  <1> QED BY <1>0, <1>2, <1>3, <1>4, <1>5, <1>6, <1>7, <1>8, <1>9, FileSteps DEF Plans

LEMMA StepKindInv == FileInv /\ KindInv /\ [Next]_vars => KindInv'
  BY KindsFollow DEF KindInv

\* While the planner has yet to decide on a row whose copy is there, the row's
\* status stays.
LEMMA StatusStays ==
    ASSUME FailedOnly, NoStaleCheck, KeptInv, [Next]_vars, NEW i \in Id, HasCopy(i), Read(i)'
    PROVE  rows'[i].status = rows[i].status /\ rows'[i].prev = rows[i].prev
  <1>0. /\ TypeInv /\ ReadInv /\ rows \in [Id -> Row \cup {NoRow}] /\ plan \in Plan
        /\ rows[i] # NoRow
        /\ xfer[i].pc \in {"idle", "leave", "tidy"}
    BY DEF KeptInv, FileInv, RowInv, TypeInv, TypeOK, HasCopy, QuietInv
  <1>1. CASE rows'[i] = rows[i]
    BY <1>1
  <1>2. CASE rows'[i] # rows[i]
    <2>1. ~(Calm \/ Fill \/ \E k \in Id : Begins(k))
      BY <1>2 DEF Calm, Fill, Begins, db
    <2>2. ASSUME NEW k \in Id, Marks(k) PROVE rows'[i].status = rows[i].status
                                            /\ rows'[i].prev = rows[i].prev
      <3>1. k = i
        BY <1>0, <1>2, <2>2 DEF Marks
      <3>2. ~Excused(i)
        BY NoExcuse DEF KeptInv
      <3> QED BY <1>0, <2>2, <3>1, <3>2 DEF Marks, Marked
    <2>3. ASSUME NEW k \in Id, Works(k) PROVE FALSE
      <3>1. CASE Resolve(k) \/ Complete(k)
        <4>1. k = i
          BY <1>0, <1>2, <3>1 DEF Resolve, Complete
        <4> QED BY <1>0, <3>1, <4>1 DEF Resolve, Complete
      <3>2. CASE ~Resolve(k) /\ ~Complete(k)
        BY <1>2, <2>3, <3>2 DEF Works, CheckOwner, AlreadyPresent, OpenPart, WritePart, Discard,
                                RemovePrevious, db
      <3> QED BY <3>1, <3>2
    <2>4. ASSUME NEW f \in File, PlanFile(f) PROVE FALSE
      <3>1. plan.pc = "idle" /\ (rows' # rows => plan' = plan)
        BY <2>4 DEF PlanFile, db
      <3> QED BY <1>2, <3>1 DEF Read
    <2>5. ~UpdateRow
      <3>1. ASSUME UpdateRow PROVE plan'.pc \notin {"upsert", "drop"}
        <4>1. \/ plan' = Idle
              \/ \E k : plan' = [plan EXCEPT !.pc = "abort", !.aborts = {k}, !.at = NoId]
          BY <3>1 DEF UpdateRow
        <4>2. Idle.pc = "idle"
          BY DEF Idle, NoPlan
        <4> QED BY <1>0, <4>1, <4>2 DEF Plan
      <3> QED BY <3>1 DEF Read
    <2>6. ASSUME NEW S \in SUBSET Id, NEW mode \in {"unplan", "keep", "delete"},
                 ListDropped(S, mode)
          PROVE  FALSE
      BY <1>2, <2>6 DEF ListDropped, db
    <2>7. ASSUME NEW k \in Id, DropRow(k) PROVE FALSE
      <3>1. k = i
        BY <1>0, <1>2, <2>7 DEF DropRow
      <3>2. plan'.pc = "drop" /\ i \notin plan'.todo
        BY <1>0, <2>7, <3>1 DEF DropRow, Plan
      <3> QED BY <3>2 DEF Read
    <2> QED BY <1>0, <2>1, <2>2, <2>3, <2>4, <2>5, <2>6, <2>7, FileSteps DEF Plans
  <1> QED BY <1>1, <1>2

LEMMA StepQuietInv ==
    ASSUME FailedOnly, NoStaleCheck, KeptInv, [Next]_vars PROVE QuietInv'
  <1>. SUFFICES ASSUME NEW i \in Id, HasCopy(i)'
                PROVE  /\ \/ rows'[i].status = "done"
                          \/ rows'[i].status = "inactive" /\ rows'[i].prev = NoPath
                       /\ picked'[i] = NoRow
                       /\ xfer'[i].pc \in {"idle", "leave", "tidy"}
    BY DEF QuietInv
  <1>0. /\ TypeInv /\ PickedInv /\ HandsStep /\ rows \in [Id -> Row \cup {NoRow}]
    BY HandsFollow DEF KeptInv, FileInv, RowInv, TypeInv, TypeOK
  <1>1. CASE Completes(i)
    <2>1. /\ xfer[i].pc \in {"complete", "confirm"} /\ rows[i] # NoRow
          /\ rows' = [rows EXCEPT ![i] = Completed(rows[i], Target(i))]
          /\ Goto(i, AfterComplete(i, TRUE)) /\ picked' = picked
      BY <1>1 DEF Completes, Complete, StillWants, Active
    <2>2. rows'[i].status = "done"
      BY <1>0, <2>1 DEF Completed, Row
    <2>3. AfterComplete(i, TRUE) \in {"leave", "tidy"}
      BY DEF AfterComplete
    <2>4. xfer'[i].pc \in {"leave", "tidy"}
      BY <1>0, <2>1, <2>3 DEF Goto, TypeInv, TypeOK, Transfer
    <2>5. picked'[i] = NoRow
      BY <1>0, <2>1 DEF PickedInv
    <2> QED BY <2>2, <2>4, <2>5
  <1>2. CASE HasCopy(i)
    <2>1. /\ rows[i].status = "done" \/ (rows[i].status = "inactive" /\ rows[i].prev = NoPath)
          /\ picked[i] = NoRow /\ xfer[i].pc \in {"idle", "leave", "tidy"}
      BY <1>2 DEF KeptInv, QuietInv
    <2>2. picked'[i] = NoRow
      BY <1>0, <2>1 DEF HandsStep, Due
    <2>3. xfer'[i].pc \in {"idle", "leave", "tidy"}
      <3>1. CASE Calm
        BY <2>1, <3>1 DEF Calm
      <3>2. CASE Fill \/ Plans
        BY <2>1, <3>2 DEF Fill, Plans, PlanFile, UpdateRow, ListDropped, DropRow
      <3>3. ASSUME NEW k \in Id, Begins(k) PROVE xfer'[i] = xfer[i]
        BY <2>1, <3>3 DEF Begins
      <3>4. ASSUME NEW k \in Id, Marks(k) PROVE xfer'[i].pc \in {xfer[i].pc, "leave"}
        BY <3>4 DEF Marks, Advances
      <3>5. ASSUME NEW k \in Id, Works(k) PROVE xfer'[i].pc \in {xfer[i].pc, "leave"}
        <4>1. CASE k # i
          BY <3>5, <4>1 DEF Works, Advances
        <4>2. CASE k = i
          <5>1. ~(\/ CheckOwner(i) \/ Resolve(i) \/ AlreadyPresent(i) \/ OpenPart(i)
                  \/ WritePart(i) \/ Complete(i))
            BY <2>1 DEF CheckOwner, Resolve, AlreadyPresent, OpenPart, WritePart, Complete
          <5> QED BY <3>5, <4>2, <5>1 DEF Works, Advances
        <4> QED BY <4>1, <4>2
      <3> QED BY <1>0, <2>1, <3>1, <3>2, <3>3, <3>4, <3>5, FileSteps
    <2>4. CASE Read(i)'
      BY <1>2, <2>1, <2>2, <2>3, <2>4, StatusStays
    <2>5. CASE ~Read(i)'
      BY <2>2, <2>3, <2>5 DEF HasCopy
    <2> QED BY <2>4, <2>5
  <1> QED BY <1>1, <1>2, HadCopy DEF KeptInv

LEMMA KeptHolds ==
    ASSUME SharedNamesStay, NamesMoveOn, AllSummed, NobodyElse, FailedOnly
    PROVE  Spec /\ []NoStaleCheck => []KeptInv
  <1>1. Init => QuietInv /\ KindInv
    BY DEF Init, QuietInv, HasCopy, KindInv, Read, Idle, NoPlan
  <1>2. KeptInv /\ NoStaleCheck /\ [Next]_vars => QuietInv' /\ KindInv'
    BY StepQuietInv, StepKindInv DEF KeptInv
  <1>3. KeptInv <=> FileInv /\ ArrivedInv /\ CopyInv /\ QuietInv /\ KindInv
    BY DEF KeptInv
  <1> QED BY <1>1, <1>2, <1>3, FilesHold, BytesHold, PTL DEF Spec

-----------------------------------------------------------------------------
(* The refinement, step by step.                                           *)

\* The state of WantedFiles that a state of Downloader stands for.
Pledged == [f \in File |-> Promised(RowOf(f))]

Stated ==
    \A f \in File :
        /\ Pledged[f] = Said(RowOf(f))
        /\ \A i \in Id : FileOf[i] = f /\ rows[i] # NoRow => RowOf(f) = rows[i]
        /\ (\A i \in Id : FileOf[i] = f => rows[i] = NoRow) => RowOf(f) = NoRow

LEMMA PledgesStated == FileInv /\ CopyInv => Stated /\ OneRow
  <1>. SUFFICES ASSUME FileInv, CopyInv PROVE Stated /\ OneRow
    OBVIOUS
  <1>0. OneRow
    BY DEF FileInv, RowInv
  <1>1. ASSUME NEW f \in File, NEW i \in Id, FileOf[i] = f, rows[i] # NoRow
        PROVE  RowOf(f) = rows[i]
    <2>1. {j \in Id : FileOf[j] = f /\ rows[j] # NoRow} = {i}
      BY <1>0, <1>1 DEF OneRow
    <2> QED BY <2>1 DEF RowOf
  <1>2. ASSUME NEW f \in File, \A i \in Id : FileOf[i] = f => rows[i] = NoRow
        PROVE  RowOf(f) = NoRow
    <2>1. {j \in Id : FileOf[j] = f /\ rows[j] # NoRow} = {}
      BY <1>2
    <2> QED BY <2>1 DEF RowOf
  <1>3. ASSUME NEW f \in File PROVE Pledged[f] = Said(RowOf(f))
    <2>1. CASE \A i \in Id : FileOf[i] = f => rows[i] = NoRow
      BY <1>2, <2>1 DEF Pledged, Promised, Said, Promise!State
    <2>2. ASSUME NEW i \in Id, FileOf[i] = f, rows[i] # NoRow
          PROVE  Pledged[f] = Said(RowOf(f))
      BY <1>1, <2>2, SaidIsPromised DEF Pledged
    <2> QED BY <2>1, <2>2
  <1> QED BY <1>0, <1>1, <1>2, <1>3 DEF Stated

LEMMA NothingPledged ==
    ASSUME Stated, Stated', rows' = rows PROVE Pledged' = Pledged
  <1>1. \A f \in File : RowOf(f)' = RowOf(f)
    BY DEF RowOf
  <1>2. \A f \in File : Pledged'[f] = Pledged[f]
    BY <1>1 DEF Stated
  <1>3. /\ Pledged = [f \in File |-> Pledged[f]]
        /\ Pledged' = [f \in File |-> Pledged'[f]]
    BY DEF Pledged
  <1> QED BY <1>2, <1>3

\* A step that writes one row changes what is promised for its file.
LEMMA OnePledged ==
    ASSUME Stated, Stated', OneRow, NEW i \in Id,
           \A j \in Id \ {i} : rows'[j] = rows[j],
           rows[i] # NoRow \/ \A j \in Id : FileOf[j] = FileOf[i] => rows[j] = NoRow
    PROVE  /\ FileOf[i] \in File /\ Pledged[FileOf[i]] = Said(rows[i])
           /\ Pledged' = [Pledged EXCEPT ![FileOf[i]] = Said(rows'[i])]
  <1>. DEFINE f == FileOf[i]
  <1>0. f \in File
    BY FileOfAssumption
  <1>1. RowOf(f) = rows[i] /\ Pledged[f] = Said(RowOf(f))
    BY <1>0 DEF Stated
  <1>2. RowOf(f)' = rows'[i] /\ Pledged'[f] = Said(RowOf(f)')
    <2>1. CASE rows'[i] # NoRow
      BY <1>0, <2>1 DEF Stated
    <2>2. CASE rows'[i] = NoRow
      <3>1. \A j \in Id : FileOf[j] = f => rows'[j] = NoRow
        BY <2>2 DEF OneRow
      <3> QED BY <1>0, <2>2, <3>1 DEF Stated
    <2> QED BY <2>1, <2>2
  <1>3. ASSUME NEW g \in File \ {f} PROVE Pledged'[g] = Pledged[g]
    <2>1. CASE \A j \in Id : FileOf[j] = g => rows[j] = NoRow
      <3>1. RowOf(g) = NoRow /\ RowOf(g)' = NoRow
        BY <1>3, <2>1 DEF Stated
      <3> QED BY <3>1 DEF Stated
    <2>2. ASSUME NEW j \in Id, FileOf[j] = g, rows[j] # NoRow
          PROVE  Pledged'[g] = Pledged[g]
      <3>1. rows'[j] = rows[j]
        BY <1>3, <2>2
      <3>2. RowOf(g) = rows[j] /\ RowOf(g)' = rows[j]
        BY <1>3, <2>2, <3>1 DEF Stated
      <3> QED BY <3>2 DEF Stated
    <2> QED BY <2>1, <2>2
  <1>4. /\ Pledged = [g \in File |-> Pledged[g]]
        /\ Pledged' = [g \in File |-> Pledged'[g]]
    BY DEF Pledged
  <1> QED BY <1>0, <1>1, <1>2, <1>3, <1>4

LEMMA AskStep ==
    ASSUME NEW f \in File, NEW b \in Build, Pledged[f].want # 0 => b > Pledged[f].want,
           Pledged' = [Pledged EXCEPT ![f] = Promise!State(b, 0, 0)]
    PROVE  Promise!Next
  <1>1. Promise!Ask(f, b)
    BY DEF Promise!Ask, Promise!Becomes, Promise!Wanted, Pledged
  <1> QED BY <1>1 DEF Promise!Next

LEMMA DeliverStep ==
    ASSUME NEW f \in File, Pledged[f].want # 0, Pledged[f].shown = 0,
           Pledged' = [Pledged EXCEPT ![f] = Promise!State(Pledged[f].want,
                                                           Pledged[f].want, 0)]
    PROVE  Promise!Next
  <1>1. Promise!Deliver(f)
    BY DEF Promise!Deliver, Promise!Becomes, Promise!Wanted, Pledged
  <1> QED BY <1>1 DEF Promise!Next

LEMMA RequeueStep ==
    ASSUME NEW f \in File, Pledged[f].shown # 0,
           Pledged' = [Pledged EXCEPT ![f] = Promise!State(Pledged[f].want, 0, 0)]
    PROVE  Promise!Next
  <1>1. Promise!Requeue(f)
    BY DEF Promise!Requeue, Promise!Becomes, Pledged
  <1> QED BY <1>1 DEF Promise!Next

LEMMA DropStep ==
    ASSUME NEW f \in File, Pledged[f].want # 0, NEW k \in {Pledged[f].shown, 0},
           Pledged' = [Pledged EXCEPT ![f] = Promise!State(0, 0, k)]
    PROVE  Promise!Next
  <1>1. Promise!Drop(f)
    BY DEF Promise!Drop, Promise!Becomes, Promise!Wanted, Pledged
  <1> QED BY <1>1 DEF Promise!Next

LEMMA ReadoptStep ==
    ASSUME NEW f \in File, Pledged[f].kept # 0,
           Pledged' = [Pledged EXCEPT ![f] = Promise!State(Pledged[f].kept,
                                                           Pledged[f].kept, 0)]
    PROVE  Promise!Next
  <1>1. Promise!Readopt(f)
    BY DEF Promise!Readopt, Promise!Becomes, Pledged
  <1> QED BY <1>1 DEF Promise!Next

\* What is said of a row, by its status.
LEMMA SaidOf ==
    ASSUME NEW r \in Row
    PROVE  /\ r.build \in Nat \ {0} /\ r.build \in Build /\ r # NoRow
           /\ r.status \in {"pending", "error"} => Said(r) = Promise!State(r.build, 0, 0)
           /\ r.status = "done" => Said(r) = Promise!State(r.build, r.build, 0)
           /\ r.status = "inactive"
              => Said(r) = Promise!State(0, 0, IF r.prev = NoPath THEN r.build ELSE 0)
           /\ r.status \in {"pending", "error", "done", "inactive"}
  <1>1. r.build \in Build /\ r # NoRow /\ r.status \in Status
    BY NoRowAssumption DEF Row
  <1>2. r.build \in Nat \ {0}
    BY <1>1, MaxBuildAssumption DEF Build
  <1>3. r.status = "inactive"
        => Said(r) = Promise!State(0, 0, IF r.prev = NoPath THEN r.build ELSE 0)
    BY <1>1 DEF Said, Active, Reactivated
  <1>4. r.status = "done" => Said(r) = Promise!State(r.build, r.build, 0)
    BY <1>1 DEF Said, Active, Reactivated
  <1>5. r.status \in {"pending", "error"} => Said(r) = Promise!State(r.build, 0, 0)
    BY <1>1 DEF Said, Active, Reactivated
  <1> QED BY <1>1, <1>2, <1>3, <1>4, <1>5 DEF Status

LEMMA StatesParts ==
    ASSUME NEW w, NEW s, NEW k
    PROVE  /\ Promise!State(w, s, k).want = w /\ Promise!State(w, s, k).shown = s
           /\ Promise!State(w, s, k).kept = k
  BY DEF Promise!State
\* How a row may change: not at all as far as the promise goes; asked for;
\* delivered; queued again; dropped; taken back.
Queued(r) == r # NoRow /\ r.status \in {"pending", "error"}
Turns(r, s) ==
    \/ Said(s) = Said(r)
    \/ Queued(s) /\ (Active(r) => s.build >= r.build)
    \/ Active(r) /\ s # NoRow /\ s.status = "done" /\ s.build = r.build
    \/ /\ Active(r)
       /\ \/ s = NoRow
          \/ s.status = "inactive" /\ s.prev # NoPath
          \/ s.status = "inactive" /\ s.build = r.build /\ r.status = "done"
    \/ /\ r # NoRow /\ r.status = "inactive" /\ r.prev = NoPath
       /\ s # NoRow /\ s.status = "done" /\ s.build = r.build

LEMMA TurnIsStep ==
    ASSUME Stated, Stated', OneRow, NEW i \in Id,
           \A j \in Id \ {i} : rows'[j] = rows[j],
           rows[i] # NoRow \/ \A j \in Id : FileOf[j] = FileOf[i] => rows[j] = NoRow,
           rows[i] \in Row \cup {NoRow}, rows'[i] \in Row \cup {NoRow},
           Turns(rows[i], rows'[i])
    PROVE  Promise!Next \/ Pledged' = Pledged
  <1>. DEFINE f == FileOf[i]
              r == rows[i]
              s == rows'[i]
  <1>0. /\ f \in File /\ Pledged[f] = Said(r)
        /\ Pledged' = [Pledged EXCEPT ![f] = Said(s)]
    BY OnePledged
  <1>. HIDE DEF f
  <1>1. CASE Said(s) = Said(r)
    <2>1. Pledged' = [Pledged EXCEPT ![f] = Pledged[f]]
      BY <1>0, <1>1
    <2> QED BY <2>1 DEF Pledged
  <1>2. CASE Queued(s) /\ (Active(r) => s.build >= r.build)
    <2>1. s \in Row /\ Said(s) = Promise!State(s.build, 0, 0) /\ s.build \in Nat /\ s.build \in Build
      BY <1>2, SaidOf DEF Queued
    <2>2. CASE ~Active(r)
      <3>1. Said(r).want = 0
        BY <2>2, StatesParts DEF Said
      <3> QED BY <1>0, <2>1, <3>1, AskStep
    <2>3. CASE Active(r)
      <3>1. /\ r \in Row /\ r.build \in Nat \ {0} /\ r.status \in {"pending", "error", "done"}
            /\ s.build >= r.build
        BY <1>2, <2>3, SaidOf DEF Active
      <3>2. Said(r).want = r.build
        BY <3>1, SaidOf, StatesParts
      <3>3. CASE s.build > r.build
        BY <1>0, <2>1, <3>2, <3>3, AskStep
      <3>4. CASE s.build = r.build /\ r.status = "done"
        <4>1. Said(r).shown # 0
          BY <3>1, <3>4, SaidOf, StatesParts
        <4> QED BY <1>0, <2>1, <3>2, <3>4, <4>1, RequeueStep
      <3>5. CASE s.build = r.build /\ r.status # "done"
        <4>1. Said(s) = Said(r)
          BY <2>1, <3>1, <3>5, SaidOf
        <4> QED BY <1>1, <4>1
      <3> QED BY <2>1, <3>1, <3>3, <3>4, <3>5
    <2> QED BY <2>2, <2>3
  <1>3. CASE Active(r) /\ s # NoRow /\ s.status = "done" /\ s.build = r.build
    <2>1. /\ r \in Row /\ r.build \in Nat \ {0} /\ r.status \in {"pending", "error", "done"}
          /\ Said(s) = Promise!State(r.build, r.build, 0)
      BY <1>3, SaidOf DEF Active
    <2>2. CASE r.status = "done"
      <3>1. Said(s) = Said(r)
        BY <2>1, <2>2, SaidOf
      <3> QED BY <1>1, <3>1
    <2>3. CASE r.status # "done"
      <3>1. Said(r).want = r.build /\ Said(r).shown = 0
        BY <2>1, <2>3, SaidOf, StatesParts
      <3> QED BY <1>0, <2>1, <3>1, DeliverStep
    <2> QED BY <2>2, <2>3
  <1>4. CASE /\ Active(r)
             /\ \/ s = NoRow
                \/ s.status = "inactive" /\ s.prev # NoPath
                \/ s.status = "inactive" /\ s.build = r.build /\ r.status = "done"
    <2>1. /\ r \in Row /\ r.build \in Nat \ {0} /\ r.status \in {"pending", "error", "done"}
          /\ Said(r).want = r.build
          /\ r.status = "done" => Said(r).shown = r.build
      BY <1>4, SaidOf, StatesParts DEF Active
    <2>2. CASE s = NoRow
      <3>1. Said(s) = Promise!State(0, 0, 0)
        BY <2>2 DEF Said
      <3> QED BY <1>0, <2>1, <3>1, DropStep
    <2>3. CASE s # NoRow /\ s.status = "inactive" /\ s.prev # NoPath
      <3>1. Said(s) = Promise!State(0, 0, 0)
        BY <2>3, SaidOf
      <3> QED BY <1>0, <2>1, <3>1, DropStep
    <2>4. CASE s # NoRow /\ s.status = "inactive" /\ s.build = r.build /\ r.status = "done"
      <3>1. Said(s) = Promise!State(0, 0, IF s.prev = NoPath THEN s.build ELSE 0)
        BY <2>4, SaidOf
      <3>2. (IF s.prev = NoPath THEN s.build ELSE 0) \in {Pledged[f].shown, 0}
        BY <1>0, <2>1, <2>4
      <3> QED BY <1>0, <2>1, <3>1, <3>2, DropStep
    <2> QED BY <1>4, <2>2, <2>3, <2>4
  <1>5. CASE /\ r # NoRow /\ r.status = "inactive" /\ r.prev = NoPath
             /\ s # NoRow /\ s.status = "done" /\ s.build = r.build
    <2>1. /\ r.build \in Nat \ {0} /\ Said(s) = Promise!State(r.build, r.build, 0)
          /\ Said(r).kept = r.build
      BY <1>5, SaidOf, StatesParts
    <2> QED BY <1>0, <2>1, ReadoptStep
  <1> QED BY <1>1, <1>2, <1>3, <1>4, <1>5 DEF Turns

\* Every step changes no row, or one row as the promise has it.
LEMMA RowsTurn ==
    ASSUME FailedOnly, KeptInv, [Next]_vars
    PROVE  \/ rows' = rows
           \/ \E i \in Id :
                 /\ Turns(rows[i], rows'[i])
                 /\ \A j \in Id \ {i} : rows'[j] = rows[j]
                 /\ \/ rows[i] # NoRow
                    \/ \A j \in Id : FileOf[j] = FileOf[i] => rows[j] = NoRow
  <1>. DEFINE Turned(i) == /\ Turns(rows[i], rows'[i])
                           /\ \A j \in Id \ {i} : rows'[j] = rows[j]
                           /\ \/ rows[i] # NoRow
                              \/ \A j \in Id : FileOf[j] = FileOf[i] => rows[j] = NoRow
  <1>0. /\ TypeInv /\ ReadInv /\ KindInv /\ QuietInv
        /\ rows \in [Id -> Row \cup {NoRow}] /\ rows' \in [Id -> Row \cup {NoRow}]
        /\ plan \in Plan
    BY StepTypeInv DEF KeptInv, FileInv, RowInv, TypeInv, TypeOK
  <1>1. ASSUME NEW k \in Id, Marks(k) PROVE Turned(k) \/ rows' = rows
    <2>1. /\ Marked(rows[k], rows'[k]) /\ \A j \in Id \ {k} : rows'[j] = rows[j]
          /\ rows' = [rows EXCEPT ![k] = rows'[k]]
      BY <1>0, <1>1 DEF Marks
    <2>2. CASE rows[k] = NoRow
      <3>1. rows'[k] = rows[k]
        BY <2>1, <2>2 DEF Marked
      <3> QED BY <1>0, <2>1, <3>1
    <2>3. CASE rows[k] # NoRow
      <3>1. /\ rows[k] \in Row /\ rows'[k] \in Row /\ rows'[k] # NoRow
            /\ rows'[k].build = rows[k].build /\ rows'[k].prev = rows[k].prev
            /\ rows[k].build \in Nat
        BY <1>0, <2>1, <2>3, SaidOf DEF Marked
      <3>2. CASE rows'[k].status = rows[k].status
        <4>1. Said(rows'[k]) = Said(rows[k])
          BY <3>1, <3>2, <2>3 DEF Said, Active, Reactivated
        <4> QED BY <2>1, <2>3, <4>1 DEF Turns
      <3>3. CASE rows'[k].status \in {"pending", "error"}
        <4>1. Queued(rows'[k]) /\ rows'[k].build >= rows[k].build
          BY <3>1, <3>3 DEF Queued
        <4> QED BY <2>1, <2>3, <4>1 DEF Turns
      <3> QED BY <2>1, <2>3, <3>2, <3>3 DEF Marked
    <2> QED BY <2>2, <2>3
  <1>2. ASSUME NEW k \in Id, Works(k) PROVE Turned(k) \/ rows' = rows
    <2>1. CASE Resolve(k)
      <3>1. /\ rows'[k] = SetFileResolved(rows[k], Target(k))
            /\ \A j \in Id \ {k} : rows'[j] = rows[j]
        BY <1>0, <2>1 DEF Resolve
      <3>2. CASE rows[k] = NoRow
        BY <1>0, <3>1, <3>2 DEF SetFileResolved
      <3>3. CASE rows[k] # NoRow
        <4>1. /\ rows[k] \in Row /\ rows'[k] = [rows[k] EXCEPT !.path = Target(k)]
          BY <1>0, <3>1, <3>3 DEF SetFileResolved
        <4>2. /\ rows'[k].build = rows[k].build /\ rows'[k].prev = rows[k].prev
              /\ rows'[k].status = rows[k].status
          BY <4>1 DEF Row
        <4>3. rows'[k] # NoRow
          <5>1. k \in Running
            BY <2>1 DEF Resolve, Running
          <5>2. [rows[k] EXCEPT !.path = Target(k)] \in Row
            BY <1>0, <4>1, <5>1, Destination DEF Row
          <5> QED BY <4>1, <5>2, NoRowAssumption
        <4>4. Said(rows'[k]) = Said(rows[k])
          BY <3>3, <4>2, <4>3 DEF Said, Active, Reactivated
        <4> QED BY <3>1, <3>3, <4>4 DEF Turns
      <3> QED BY <3>2, <3>3
    <2>2. CASE Complete(k) /\ rows' # rows
      <3>1. /\ Active(rows[k]) /\ rows'[k] = Completed(rows[k], Target(k))
            /\ \A j \in Id \ {k} : rows'[j] = rows[j]
        BY <1>0, <2>2 DEF Complete, StillWants
      <3>2. rows[k] # NoRow /\ rows[k] \in Row
        BY <1>0, <3>1 DEF Active
      <3>3. rows'[k].status = "done" /\ rows'[k].build = rows[k].build
        BY <3>1, <3>2 DEF Completed, Row
      <3>4. rows'[k] # NoRow
        <4>1. k \in Running
          BY <2>2 DEF Complete, Running
        <4> QED BY <1>0, <3>1, <3>2, <4>1, Destination, CompletedIsRow, NoRowAssumption
      <3> QED BY <3>1, <3>2, <3>3, <3>4 DEF Turns
    <2>3. CASE ~Resolve(k) /\ ~Complete(k)
      BY <1>2, <2>3 DEF Works, CheckOwner, AlreadyPresent, OpenPart, WritePart, Discard,
                        RemovePrevious, db
    <2> QED BY <2>1, <2>2, <2>3
  <1>3. ASSUME NEW f \in File, PlanFile(f), rows' # rows PROVE \E k \in Id : Turned(k)
    <2>1. PICK k \in Id : FileOf[k] = f /\ rows' = [rows EXCEPT ![k] = Fresh(offered[f])]
      BY <1>0, <1>3 DEF PlanFile, db, TypeInv, TypeOK
    <2>2. \A j \in Id : FileOf[j] = f => rows[j] = NoRow
      BY <1>3 DEF PlanFile, db
    <2>3. rows'[k] = Fresh(offered[f]) /\ \A j \in Id \ {k} : rows'[j] = rows[j]
      BY <1>0, <2>1
    <2>4. rows'[k] # NoRow
      <3>1. offered[f] \in Build
        BY <1>0 DEF TypeInv, TypeOK
      <3>2. Fresh(offered[f]) \in Row
        BY <3>1 DEF Fresh, Row, Status
      <3> QED BY <2>3, <3>2, NoRowAssumption
    <2>5. Queued(rows'[k]) /\ ~Active(rows[k])
      BY <2>1, <2>2, <2>3, <2>4 DEF Queued, Fresh, Active
    <2> QED BY <2>1, <2>2, <2>3, <2>5 DEF Turns
  <1>4. ASSUME UpdateRow, rows' # rows PROVE Turned(plan.at)
    <2>. DEFINE i == plan.at
                stored == plan.snap[i]
                onDisk == seen = "there"
    <2>1. /\ i \in Id /\ plan.pc = "upsert" /\ rows[i] # NoRow /\ stored \in Row
          /\ rows' = [rows EXCEPT ![i] = Upsert(rows[i], stored, plan.build, onDisk)]
      BY <1>0, <1>4 DEF UpdateRow, TypeInv, UpsertHasRow
    <2>2. /\ rows'[i] = Upsert(rows[i], stored, plan.build, onDisk)
          /\ \A j \in Id \ {i} : rows'[j] = rows[j]
          /\ rows[i] \in Row /\ plan.build \in Build /\ onDisk \in BOOLEAN /\ Read(i)
      BY <1>0, <2>1 DEF Plan, Read
    <2>. HIDE DEF onDisk
    <2>3. /\ rows'[i] # NoRow /\ rows'[i].build = plan.build
      BY <2>1, <2>2, UpsertWrites
    <2>4. /\ rows'[i].status # "inactive"
          /\ rows'[i].status = "done"
             => /\ stored.build = plan.build
                /\ \/ stored.status = "done"
                   \/ stored.status = "inactive" /\ stored.prev = NoPath
      BY <2>1, <2>2, UpsertShows
    <2>5. /\ stored.build = rows[i].build /\ rows[i].build <= plan.build
          /\ stored.status = "inactive" <=> rows[i].status = "inactive"
          /\ rows[i].status = "inactive" => rows[i].prev = stored.prev
      BY <1>0, <2>1, <2>2 DEF ReadInv, KindInv
    <2>6. /\ rows'[i] \in Row /\ rows[i].build \in Nat /\ plan.build \in Nat
          /\ rows'[i].status \in {"pending", "error", "done", "inactive"}
      BY <1>0, <2>2, <2>3, SaidOf, MaxBuildAssumption DEF Build
    <2>7. CASE rows'[i].status # "done"
      BY <2>1, <2>2, <2>3, <2>4, <2>5, <2>6, <2>7 DEF Turns, Queued
    <2>8. CASE rows'[i].status = "done" /\ rows[i].status = "inactive"
      BY <2>1, <2>2, <2>3, <2>4, <2>5, <2>8 DEF Turns
    <2>9. CASE rows'[i].status = "done" /\ rows[i].status # "inactive"
      BY <2>1, <2>2, <2>3, <2>4, <2>5, <2>9 DEF Turns, Active
    <2> QED BY <2>7, <2>8, <2>9
  <1>5. ASSUME NEW k \in Id, DropRow(k) PROVE Turned(k)
    <2>. DEFINE f == plan.snap[k]
    <2>1. /\ plan.pc = "drop" /\ k \in plan.todo /\ Read(k)
          /\ \A j \in Id \ {k} : rows'[j] = rows[j]
      BY <1>0, <1>5 DEF DropRow, Read
    <2>2. /\ rows[k] # NoRow /\ f # NoRow /\ f.build = rows[k].build
          /\ rows[k].status # "inactive"
      BY <1>0, <2>1 DEF ReadInv, KindInv
    <2>3. Active(rows[k]) /\ rows[k] \in Row
      BY <1>0, <2>2 DEF Active
    <2>4. CASE rows'[k] = NoRow
      BY <2>1, <2>2, <2>3, <2>4 DEF Turns
    <2>5. CASE rows'[k] # NoRow
      <3>1. /\ rows'[k] = SetFileInactive(rows[k])
            /\ KeepsRow(f) \/ DownloadedPath(f) # NoPath
        BY <1>0, <1>5, <2>5 DEF DropRow
      <3>2. /\ rows'[k].build = rows[k].build /\ rows'[k].prev = rows[k].prev
            /\ rows'[k].status = "inactive"
        BY <2>2, <2>3, <3>1 DEF SetFileInactive, Row
      <3>3. f.status = "done" \/ f.prev # NoPath
        BY <3>1 DEF KeepsRow, DownloadedPath
      <3>4. rows[k].prev = NoPath => rows[k].status = "done"
        <4>1. rows[k].prev = NoPath => HasCopy(k)
          BY <2>1, <2>2, <3>3 DEF HasCopy
        <4> QED BY <1>0, <2>2, <4>1 DEF QuietInv
      <3> QED BY <2>1, <2>2, <2>3, <3>2, <3>4 DEF Turns
    <2> QED BY <2>4, <2>5
  <1>6. CASE rows' = rows
    BY <1>6
  <1>7. CASE rows' # rows
    <2>1. ~(\/ Calm \/ Fill \/ \E k \in Id : Begins(k)
            \/ \E S \in SUBSET Id, mode \in {"unplan", "keep", "delete"} : ListDropped(S, mode))
      BY <1>7 DEF Calm, Fill, Begins, ListDropped, db
    <2>2. UpdateRow => plan.at \in Id
      BY <1>0 DEF UpdateRow, TypeInv, UpsertHasRow
    <2>3. \E i \in Id : Turned(i)
      BY <1>0, <1>1, <1>2, <1>3, <1>4, <1>5, <1>7, <2>1, <2>2, FileSteps DEF Plans
    <2> QED BY <2>3
  <1> QED BY <1>6, <1>7

\* Sync, queue and disk together keep the promise of WantedFiles: whatever is
\* presented as downloaded is the build that is wanted at that moment, however
\* the steps of the transfers, the planner, the handlers and a crash fall.  Left
\* out is that a downloaded file is queued again although it is there, by hand
\* (ResetFile) or by a check that a download has overtaken (MarkMissingDone).
\* That is also a step the promise has, but a drop that read the row before it
\* keeps a copy that is no longer presented.
THEOREM PromiseHolds ==
    ASSUME SharedNamesStay, NamesMoveOn, AllSummed, NobodyElse, FailedOnly
    PROVE  Spec /\ []NoStaleCheck => PromiseIsKept
  <1>1. Init => Promise!Init
    <2>1. Init => Pledged = [f \in File |-> Promise!State(0, 0, 0)]
      <3>1. Init => \A f \in File : RowOf(f) = NoRow
        BY DEF Init, RowOf
      <3> QED BY <3>1 DEF Pledged, Promised, Promise!State
    <2> QED BY <2>1 DEF Promise!Init, Pledged
  <1>2. KeptInv' => Stated'
    <2>1. KeptInv => Stated
      BY PledgesStated DEF KeptInv
    <2> QED BY <2>1, PTL
  <1>3. KeptInv /\ KeptInv' /\ [Next]_vars => [Promise!Next]_Pledged
    <2>. SUFFICES ASSUME KeptInv, KeptInv', [Next]_vars
                  PROVE  Promise!Next \/ Pledged' = Pledged
      OBVIOUS
    <2>1. Stated /\ OneRow
      BY PledgesStated DEF KeptInv
    <2>2. Stated'
      BY <1>2
    <2>3. rows \in [Id -> Row \cup {NoRow}] /\ rows' \in [Id -> Row \cup {NoRow}]
      BY DEF KeptInv, FileInv, TypeInv, TypeOK
    <2> QED BY <2>1, <2>2, <2>3, RowsTurn, TurnIsStep, NothingPledged
  <1>4. Spec /\ []NoStaleCheck => []KeptInv
    BY KeptHolds
  <1> QED BY <1>1, <1>4, <1>3, PTL DEF Spec, PromiseIsKept, Promise!Spec, Pledged
==============================================================================
