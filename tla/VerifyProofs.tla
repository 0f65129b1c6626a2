---------------------------- MODULE VerifyProofs ----------------------------
(***************************************************************************)
(* What Verify promises for any number of games that claim and return at   *)
(* once, proved with TLAPS: the budget of rolling checks is kept by a bare *)
(* atomic counter, without a lock around "take one, look, give it back";   *)
(* and no copy is fetched again without a reason.                          *)
(***************************************************************************)
EXTENDS Verify, FiniteSetTheorems, TLAPS

\* The data: nothing is newer than what GOG released, and a sync handles only
\* the files of its game, whose metadata it has read.
DataInv ==
    /\ released \in 0..MaxRelease /\ troubles \in 0..MaxTrouble
    /\ content \in [Files -> 1..(released + 1)]
    /\ meta \in [Files -> 1..(released + 1)]
    /\ build \in [Games -> [Platforms -> 1..(released + 1)]]
    /\ row \in [Files -> FileRow]
    /\ recorded \in [Games -> [Platforms -> BuildRow]]
    /\ mounted \in BOOLEAN
    /\ volume \in [Files -> Version] /\ mountpoint \in [Files -> Version]

WorkInv ==
    /\ worker \in [Games -> Working \cup {Free}]
    /\ \A g \in Games : worker[g] # Free =>
         /\ worker[g].todo \subseteq FilesOf(g)
         /\ \A f \in FilesOf(g) : worker[g].seen[f] # None
         /\ worker[g].pc \notin {"builds", "file"} => worker[g].file \in FilesOf(g)

\* The games whose claim was refused and not yet given back.
Refused == {g \in Games : worker[g].pc = "return"}

\* Who claims, belongs to a full sync that waits for it; and the counter is
\* what the budget has left, less the refused claims, of which there are none
\* before the budget is spent.
FullInv ==
    /\ full \in [on: BOOLEAN, left: SUBSET Games]
    /\ full.left # {} => full.on
    /\ \A g \in Games : worker[g] # Free /\ worker[g].rolling => g \in full.left
    /\ \A g \in Games : worker[g].pc \in {"claim", "return"} => worker[g].rolling

CountInv ==
    /\ granted \in 0..VerifyBudget
    /\ rollingLeft \in (-Cardinality(Games))..VerifyBudget
    /\ full.on => rollingLeft = VerifyBudget - granted - Cardinality(Refused)
    /\ Refused # {} => granted = VerifyBudget

IInv == DataInv /\ WorkInv /\ FullInv /\ CountInv

LEMMA InvImpliesTypeOK == IInv => TypeOK
<1> SUFFICES ASSUME IInv PROVE TypeOK
  OBVIOUS
<1>1. 1..(released + 1) \subseteq Version \ {None}
  BY VerifyAssumption DEF IInv, DataInv, Version, None
<1>2. content \in [Files -> Version \ {None}] /\ meta \in [Files -> Version \ {None}]
  BY <1>1 DEF IInv, DataInv
<1>3. build \in [Games -> [Platforms -> Version \ {None}]]
  <2> DEFINE N == 1..(released + 1)
             V == Version \ {None}
  <2>1. build \in [Games -> [Platforms -> N]]
    BY DEF IInv, DataInv
  <2>2. N \subseteq V
    BY <1>1
  <2> HIDE DEF N, V
  <2>3. \A g \in Games : build[g] \in [Platforms -> V]
    BY <2>1, <2>2
  <2>4. build \in [Games -> [Platforms -> V]]
    BY <2>1, <2>3
  <2>5. QED BY <2>4 DEF V
<1>4. QED
  BY <1>2, <1>3 DEF IInv, DataInv, WorkInv, FullInv, CountInv, TypeOK

LEMMA RefusedFinite == IsFiniteSet(Refused) /\ Cardinality(Refused) \in Nat
<1>1. Refused \in SUBSET Games
  BY DEF Refused
<1>2. IsFiniteSet(Refused)
  BY <1>1, FS_Subset, VerifyAssumption
<1>3. QED BY <1>2, FS_CardinalityType

-----------------------------------------------------------------------------
LEMMA InitInv == Init => IInv
<1> SUFFICES ASSUME Init PROVE IInv
  OBVIOUS
<1> USE VerifyAssumption
<1>1. DataInv
  <2>1. row \in [Files -> FileRow]
    BY DEF Init, FileRow, Status, Version, None
  <2>2. recorded \in [Games -> [Platforms -> BuildRow]]
    BY DEF Init, BuildRow, Version, None
  <2>3. QED BY <2>1, <2>2 DEF Init, DataInv, Version, None
<1>2. WorkInv
  BY DEF Init, WorkInv
<1>3. FullInv
  BY DEF Init, FullInv, Free, Idle
<1>4. CountInv
  <2>1. Refused = {}
    BY DEF Init, Refused, Free
  <2>2. Cardinality(Games) \in Nat
    BY FS_CardinalityType
  <2>3. full.on = FALSE
    BY DEF Init, Idle
  <2>4. QED BY <2>1, <2>2, <2>3 DEF Init, CountInv
<1>5. QED BY <1>1, <1>2, <1>3, <1>4 DEF IInv

-----------------------------------------------------------------------------
(* The data.                                                               *)

LEMMA GoesCounts ==
    ASSUME DataInv, NEW kind, Goes(kind)
    PROVE  troubles' \in 0..MaxTrouble
BY VerifyAssumption DEF DataInv, Goes

LEMMA FreshAge == 0 \in 0..VerifyInterval
BY VerifyAssumption

LEMMA PublishData ==
    ASSUME DataInv, NEW f \in Files, Publish(f)
    PROVE  DataInv'
<1> USE VerifyAssumption
<1>1. PICK bytes \in 0..1, version \in 0..1,
           rebuilt \in SUBSET {o \in Platforms : <<GameOf[f], o>> \in Built} :
         /\ bytes + version > 0 \/ rebuilt # {}
         /\ content' = [content EXCEPT ![f] = @ + bytes]
         /\ meta' = [meta EXCEPT ![f] = @ + version]
         /\ build' = [build EXCEPT ![GameOf[f]] =
                        [o \in Platforms |-> @[o] + IF o \in rebuilt THEN 1 ELSE 0]]
  BY DEF Publish
<1>2. released' = released + 1 /\ released' \in 0..MaxRelease
  BY DEF Publish, DataInv
<1>3. content' \in [Files -> 1..(released' + 1)]
  <2>1. content \in [Files -> 1..(released + 1)] /\ released \in Nat
    BY DEF DataInv
  <2>2. \A e \in Files : content'[e] \in 1..(released' + 1)
    BY <1>1, <1>2, <2>1
  <2>3. QED BY <1>1, <2>1, <2>2
<1>4. meta' \in [Files -> 1..(released' + 1)]
  <2>1. meta \in [Files -> 1..(released + 1)] /\ released \in Nat
    BY DEF DataInv
  <2>2. \A e \in Files : meta'[e] \in 1..(released' + 1)
    BY <1>1, <1>2, <2>1
  <2>3. QED BY <1>1, <2>1, <2>2
<1>5. build' \in [Games -> [Platforms -> 1..(released' + 1)]]
  <2>1. build \in [Games -> [Platforms -> 1..(released + 1)]] /\ released \in Nat
    BY DEF DataInv
  <2>2. \A g \in Games : build'[g] \in [Platforms -> 1..(released' + 1)]
    <3> SUFFICES ASSUME NEW g \in Games
                 PROVE  build'[g] \in [Platforms -> 1..(released' + 1)]
      OBVIOUS
    <3>1. CASE g = GameOf[f]
      <4>1. build'[g] = [o \in Platforms |-> build[g][o] + IF o \in rebuilt THEN 1 ELSE 0]
        BY <1>1, <2>1, <3>1
      <4>2. \A o \in Platforms : build[g][o] \in 1..(released + 1)
        BY <2>1
      <4>3. \A o \in Platforms : (build[g][o] + IF o \in rebuilt THEN 1 ELSE 0) \in 1..(released' + 1)
        BY <1>2, <2>1, <4>2
      <4>4. QED BY <4>1, <4>3
    <3>2. CASE g # GameOf[f]
      <4>1. build'[g] = build[g]
        BY <1>1, <2>1, <3>2
      <4>2. 1..(released + 1) \subseteq 1..(released' + 1)
        BY <1>2, <2>1
      <4>3. build[g] \in [Platforms -> 1..(released + 1)]
        BY <2>1
      <4>4. QED BY <4>1, <4>2, <4>3
    <3>3. QED BY <3>1, <3>2
  <2>3. DOMAIN build' = Games /\ build' = [g \in Games |-> build'[g]]
    BY <1>1, <2>1
  <2>4. QED BY <2>2, <2>3
<1>6. QED BY <1>2, <1>3, <1>4, <1>5 DEF Publish, DataInv, disk

\* Remote and disk stay, or a file is written; rows and builds keep their types.
LEMMA DownloadData ==
    ASSUME DataInv, NEW f \in Files, Download(f)
    PROVE  DataInv'
<1> USE VerifyAssumption
<1>1. PICK sum \in {IF f \in Summed THEN content[f] ELSE None, None} :
         /\ IF sum = None /\ f \in Summed THEN Goes("request") ELSE UNCHANGED troubles
         /\ row' = [row EXCEPT ![f] = [@ EXCEPT !.status = "done", !.md5 = sum, !.age = 0]]
  BY DEF Download
<1>2. content[f] \in Version
  BY DEF DataInv, Version
<1>3. sum \in Version
  BY <1>1, <1>2 DEF Version, None
<1>4. row' \in [Files -> FileRow]
  <2>1. row \in [Files -> FileRow] /\ row[f] \in FileRow
    BY DEF DataInv
  <2>2. [row[f] EXCEPT !.status = "done", !.md5 = sum, !.age = 0] \in FileRow
    BY <1>3, <2>1, FreshAge DEF FileRow, Status
  <2>3. QED BY <1>1, <2>1, <2>2
<1>5. volume' \in [Files -> Version] /\ mountpoint' \in [Files -> Version]
  BY <1>2 DEF Download, DataInv
<1>6. troubles' \in 0..MaxTrouble
  BY <1>1, GoesCounts DEF DataInv
<1>7. QED BY <1>4, <1>5, <1>6 DEF Download, DataInv, remote

LEMMA CheckedRows ==
    ASSUME DataInv
    PROVE  /\ AfterCheck(row) \in [Files -> FileRow]
           /\ Aged(row) \in [Files -> FileRow]
           /\ Aged(AfterCheck(row)) \in [Files -> FileRow]
<1> USE VerifyAssumption
<1>1. ASSUME NEW r \in [Files -> FileRow]
      PROVE  AfterCheck(r) \in [Files -> FileRow] /\ Aged(r) \in [Files -> FileRow]
  BY DEF AfterCheck, Aged, FileRow, Status
<1>2. row \in [Files -> FileRow]
  BY DEF DataInv
<1>3. QED BY <1>1, <1>2

LEMMA StartFullData ==
    ASSUME DataInv, StartFull
    PROVE  DataInv'
<1>1. row' \in [Files -> FileRow]
  BY CheckedRows DEF StartFull
<1>2. recorded' \in [Games -> [Platforms -> BuildRow]]
  BY DEF StartFull, DataInv, BuildRow
<1>3. QED BY <1>1, <1>2 DEF StartFull, DataInv, remote, disk

LEMMA CheckBuildData ==
    ASSUME DataInv, NEW g \in Games, NEW o \in Platforms, CheckBuild(g, o)
    PROVE  DataInv'
<1> USE VerifyAssumption
<1>1. troubles' \in 0..MaxTrouble
  BY GoesCounts DEF CheckBuild, DataInv
<1>2. build[g][o] \in Version
  BY DEF DataInv, Version
<1>3. recorded' \in [Games -> [Platforms -> BuildRow]]
  <2>1. recorded \in [Games -> [Platforms -> BuildRow]]
    BY DEF DataInv
  <2>2. [build |-> build[g][o], recent |-> TRUE] \in BuildRow
    BY <1>2 DEF BuildRow
  <2>3. [recorded[g] EXCEPT ![o] = [build |-> build[g][o], recent |-> TRUE]]
          \in [Platforms -> BuildRow]
    BY <2>1, <2>2
  <2>4. \/ recorded' = recorded
        \/ recorded' = [recorded EXCEPT ![g] =
             [@ EXCEPT ![o] = [build |-> build[g][o], recent |-> TRUE]]]
    BY DEF CheckBuild
  <2>5. QED BY <2>1, <2>3, <2>4
<1>4. QED BY <1>1, <1>3 DEF CheckBuild, DataInv, remote, disk

LEMMA AskData ==
    ASSUME DataInv, WorkInv, NEW g \in Games, Ask(g)
    PROVE  DataInv'
<1> USE VerifyAssumption
<1>1. troubles' \in 0..MaxTrouble
  BY GoesCounts DEF Ask, DataInv
<1>2. Verified(worker[g].file, TRUE) \in [Files -> FileRow]
  <2>1. row \in [Files -> FileRow]
    BY DEF DataInv
  <2>2. \A f \in Files : [row[f] EXCEPT !.age = 0] \in FileRow
    BY <2>1, FreshAge DEF FileRow
  <2>3. Verified(worker[g].file, TRUE)
          = [row EXCEPT ![worker[g].file] = [@ EXCEPT !.age = 0]]
    BY DEF Verified
  <2>4. worker[g].file \in Files
    BY DEF Ask, WorkInv, FilesOf, Free
  <2>5. QED BY <2>1, <2>2, <2>3, <2>4
<1>. row' \in {row, Verified(worker[g].file, TRUE)}
  BY DEF Ask, Verified
<1>3. QED BY <1>1, <1>2 DEF Ask, DataInv, remote, disk

LEMMA StoreData ==
    ASSUME DataInv, WorkInv, NEW g \in Games, Store(g)
    PROVE  DataInv'
<1>1. worker[g] \in Working /\ worker[g].file \in FilesOf(g)
  BY DEF Store, WorkInv, Free
<1>2. worker[g].seen[worker[g].file] \in Version \ {None}
  BY <1>1 DEF WorkInv, Working, FilesOf, Store, Free
<1>3. Planned(worker[g]) \in {"pending", "done"}
  BY DEF Planned
<1>4. row' \in [Files -> FileRow]
  BY <1>2, <1>3 DEF Store, DataInv, FileRow, Status
<1>5. QED BY <1>4 DEF Store, DataInv, remote, disk

LEMMA DropData ==
    ASSUME DataInv, NEW f \in Files, Drop(f)
    PROVE  DataInv'
<1>1. troubles' \in 0..MaxTrouble
  BY GoesCounts DEF Drop
<1>2. row' \in [Files -> FileRow]
  <2>1. row \in [Files -> FileRow] /\ row[f] \in FileRow
    BY DEF DataInv
  <2>2. [row[f] EXCEPT !.status = "inactive"] \in FileRow
    BY <2>1 DEF FileRow, Status
  <2>3. row' = [row EXCEPT ![f] = [row[f] EXCEPT !.status = "inactive"]]
    BY DEF Drop
  <2>4. QED BY <2>1, <2>2, <2>3
<1>3. QED BY <1>1, <1>2 DEF Drop, DataInv, remote, disk

\* Every step keeps the data.
LEMMA DataKept == IInv /\ [Next]_vars => DataInv'
<1> SUFFICES ASSUME IInv, [Next]_vars PROVE DataInv'
  OBVIOUS
<1>0. DataInv /\ WorkInv
  BY DEF IInv
<1> USE VerifyAssumption
<1>1. ASSUME NEW f \in Files, Publish(f) \/ Download(f) \/ Drop(f) PROVE DataInv'
  BY <1>0, <1>1, PublishData, DownloadData, DropData
<1>2. CASE StartFull
  BY <1>0, <1>2, StartFullData
<1>3. CASE FinishFull
  BY <1>0, <1>3, CheckedRows DEF FinishFull, DataInv, remote, disk
<1>4. CASE Cancel \/ Stop \/ Mount \/ Unmount
  <2>1. troubles' \in 0..MaxTrouble
    BY <1>0, <1>4, GoesCounts DEF Cancel, Stop, Mount, Unmount, DataInv
  <2>2. QED BY <1>0, <1>4, <2>1 DEF Cancel, Stop, Mount, Unmount, DataInv, remote, disk
<1>5. ASSUME NEW g \in Games,
             StartGame(g) \/ SyncGame(g) \/ NextFile(g) \/ Claim(g) \/ ReturnClaim(g) \/ EndGame(g)
      PROVE  DataInv'
  <2>1. troubles' \in 0..MaxTrouble
    BY <1>0, <1>5, GoesCounts
    DEF StartGame, SyncGame, NextFile, Claim, ReturnClaim, EndGame, DataInv
  <2>2. UNCHANGED <<remote, row, recorded, disk>>
    BY <1>5 DEF StartGame, SyncGame, NextFile, Claim, ReturnClaim, EndGame
  <2>3. QED BY <1>0, <2>1, <2>2 DEF DataInv, remote, disk
<1>6. ASSUME NEW g \in Games, NEW o \in Platforms, CheckBuild(g, o) PROVE DataInv'
  BY <1>0, <1>6, CheckBuildData
<1>7. ASSUME NEW g \in Games, Ask(g) \/ Store(g) PROVE DataInv'
  BY <1>0, <1>7, AskData, StoreData
<1>8. CASE UNCHANGED vars
  BY <1>0, <1>8 DEF vars, remote, disk, DataInv
<1>9. QED
  BY <1>1, <1>2, <1>3, <1>4, <1>5, <1>6, <1>7, <1>8 DEF Next, Game

-----------------------------------------------------------------------------
(* The syncs of games.  A step is one of these: no sync moves, all of them *)
(* end, or one takes another record.                                       *)

Moves(g, w) == worker' = [worker EXCEPT ![g] = w]

\* What a sync of g may hold.
Proper(g, w) ==
    w = Free \/ /\ w \in Working /\ w.todo \subseteq FilesOf(g)
                /\ \A f \in FilesOf(g) : w.seen[f] # None
                /\ w.pc \notin {"builds", "file"} => w.file \in FilesOf(g)

LEMMA ProperIsFine ==
    ASSUME WorkInv, NEW g \in Games, NEW w, Proper(g, w), Moves(g, w)
    PROVE  WorkInv'
<1>1. w \in Working \cup {Free}
  BY DEF Proper
<1>2. worker' \in [Games -> Working \cup {Free}]
  BY <1>1 DEF Moves, WorkInv
<1>3. \A h \in Games : worker'[h] = IF h = g THEN w ELSE worker[h]
  BY DEF Moves, WorkInv
<1>4. QED BY <1>2, <1>3 DEF WorkInv, Proper, FilesOf

LEMMA IsProper ==
    ASSUME WorkInv, NEW g \in Games, worker[g] # Free
    PROVE  Proper(g, worker[g])
BY DEF WorkInv, Proper

LEMMA FreeIsNoStep == Free.pc = "free" /\ \A w \in Working : w # Free /\ w.pc # "free"
<1>1. \A w \in Working : w.pc # "free"
  BY DEF Working
<1>2. QED BY <1>1 DEF Free

LEMMA BegunProper ==
    ASSUME DataInv, NEW g \in Games, NEW rolling \in BOOLEAN
    PROVE  Proper(g, Begun(g, rolling)) /\ Begun(g, rolling).pc \in {"builds", "file"}
           /\ Begun(g, rolling).rolling = rolling
<1> USE VerifyAssumption
<1>1. AnyFile \in Files
  BY DEF AnyFile
<1>2. \A f \in Files : meta[f] \in Version /\ meta[f] # None
  BY DEF DataInv, Version, None
<1>3. [f \in Files |-> IF GameOf[f] = g THEN meta[f] ELSE None] \in [Files -> Version]
  BY <1>2 DEF Version, None
<1>4. NoFile \in Stored
  BY DEF NoFile, Stored, Status, Version, None
<1>5. FilesOf(g) \subseteq Files
  BY DEF FilesOf
<1>6. Begun(g, rolling) \in Working
  BY <1>1, <1>3, <1>4, <1>5 DEF Begun, Working
<1>7. QED BY <1>2, <1>6 DEF Proper, Begun, FilesOf

\* A sync goes on with fewer files to do and the metadata it has read.
LEMMA GoesOnProper ==
    ASSUME NEW g \in Games, NEW w \in Working, Proper(g, w), NEW v \in Working,
           v.todo \subseteq w.todo, v.seen = w.seen,
           v.pc \in {"builds", "file"} \/ v.file \in FilesOf(g)
    PROVE  Proper(g, v)
BY FreeIsNoStep DEF Proper

LEMMA StepOfSync ==
    ASSUME DataInv, WorkInv, NEW g \in Games,
           \/ StartGame(g) \/ SyncGame(g) \/ NextFile(g) \/ Claim(g) \/ ReturnClaim(g)
           \/ Ask(g) \/ Store(g) \/ EndGame(g) \/ \E o \in Platforms : CheckBuild(g, o)
    PROVE  UNCHANGED worker \/ \E w : Proper(g, w) /\ Moves(g, w)
<1>1. ASSUME worker[g].pc # "free"
      PROVE  worker[g] \in Working /\ Proper(g, worker[g])
  BY <1>1, IsProper DEF WorkInv, Free
<1>2. CASE StartGame(g) \/ SyncGame(g)
  BY <1>2, BegunProper DEF StartGame, SyncGame, Moves
<1>3. CASE Claim(g)
  <2>1. worker[g] \in Working /\ Proper(g, worker[g]) /\ worker[g].file \in FilesOf(g)
    BY <1>1, <1>3 DEF Claim, Proper, Free
  <2>2. \A pc \in {"return", "ask"} : Proper(g, [worker[g] EXCEPT !.pc = pc])
    BY <2>1 DEF Proper, Working, Free
  <2>3. QED BY <1>3, <2>2 DEF Claim, Moves
<1>4. CASE ReturnClaim(g)
  <2>1. worker[g] \in Working /\ Proper(g, worker[g]) /\ worker[g].file \in FilesOf(g)
    BY <1>1, <1>4 DEF ReturnClaim, Proper, Free
  <2>2. Proper(g, [worker[g] EXCEPT !.pc = "store"])
    BY <2>1 DEF Proper, Working, Free
  <2>3. QED BY <1>4, <2>2 DEF ReturnClaim, Moves
<1>5. CASE EndGame(g)
  BY <1>5 DEF EndGame, Proper, Moves
<1>6. CASE Store(g)
  <2> DEFINE w == [worker[g] EXCEPT !.pc = "file", !.file = AnyFile,
                                   !.stored = NoFile, !.changed = FALSE]
  <2>1. worker[g] \in Working /\ Proper(g, worker[g])
    BY <1>1, <1>6 DEF Store
  <2>2. AnyFile \in Files /\ NoFile \in Stored
    BY VerifyAssumption DEF AnyFile, NoFile, Stored, Status, Version, None
  <2>3. Proper(g, w)
    <3>1. w \in Working
      BY <2>1, <2>2 DEF Working
    <3>2. w.todo = worker[g].todo /\ w.seen = worker[g].seen /\ w.pc = "file"
      BY <2>1 DEF Working
    <3>3. QED BY <2>1, <3>1, <3>2, GoesOnProper
  <2>4. worker' = [worker EXCEPT ![g] = w]
    BY <1>6 DEF Store
  <2>5. QED BY <2>3, <2>4 DEF Moves
<1>7. CASE Ask(g)
  <2> DEFINE w == worker[g]
             sum == IF w.file \in Summed THEN content[w.file] ELSE None
             now == Changed(sum, w.stored.md5, w.stored.hint)
             with(t) == [w.stored EXCEPT !.told = t]
             next(t, c) == [w EXCEPT !.pc = "store", !.changed = c, !.stored = with(t)]
             told == IF sum = None THEN "nothing" ELSE "sum"
  <2>1. w \in Working /\ Proper(g, w) /\ w.file \in FilesOf(g) /\ w.stored \in Stored
    BY <1>1, <1>7 DEF Ask, Proper, Working, Free
  <2>2. now \in BOOLEAN /\ w.stored.hint \in BOOLEAN
    BY <2>1 DEF Changed, Stored
  <2>3. \A t \in {"nothing", "sum"} : with(t) \in Stored
    BY <2>1 DEF Stored
  <2>4. told \in {"nothing", "sum"}
    OBVIOUS
  <2>5. Moves(g, next(told, now)) \/ Moves(g, next("nothing", w.stored.hint))
    BY <1>7, <2>1 DEF Ask, Moves, Working
  <2> HIDE DEF now, sum, with, told
  <2>6. ASSUME NEW t \in {"nothing", "sum"}, NEW c \in BOOLEAN
        PROVE  Proper(g, next(t, c))
    <3>1. next(t, c) \in Working
      BY <2>1, <2>3 DEF Working
    <3>2. /\ next(t, c).todo = w.todo /\ next(t, c).seen = w.seen
          /\ next(t, c).file = w.file
      BY <2>1 DEF Working
    <3> HIDE DEF next
    <3>3. QED BY <2>1, <3>1, <3>2, GoesOnProper
  <2>7. Proper(g, next(told, now)) /\ Proper(g, next("nothing", w.stored.hint))
    BY <2>2, <2>4, <2>6
  <2> HIDE DEF next
  <2>8. QED BY <2>5, <2>7
<1>8. CASE NextFile(g)
  <2> DEFINE w == worker[g]
             pcOf(f, hint) ==
               LET mayAsk == /\ row[f].md5 # None /\ row[f].status # "pending"
                             /\ row[f].status = "inactive" => Exists(f)
               IN  IF mayAsk /\ (hint \/ Suspected(w, f)) THEN "ask"
                   ELSE IF mayAsk /\ w.rolling /\ IsDue(f) THEN "claim" ELSE "store"
             storedOf(f, hint) == [status |-> row[f].status, md5 |-> row[f].md5,
                                   onDisk |-> Exists(f), hint |-> hint, told |-> "unasked"]
             next(f, hint) == [w EXCEPT !.file = f, !.todo = @ \ {f}, !.changed = hint,
                                        !.stored = storedOf(f, hint), !.pc = pcOf(f, hint)]
  <2>1. PICK f \in w.todo : Moves(g, next(f, w.seen[f] # row[f].meta))
    BY <1>8 DEF NextFile, Moves
  <2>2. w \in Working /\ Proper(g, w) /\ f \in FilesOf(g) /\ f \in Files
    <3>1. w \in Working /\ Proper(g, w)
      BY <1>1, <1>8 DEF NextFile
    <3>2. w.todo \subseteq FilesOf(g)
      BY <3>1, FreeIsNoStep DEF Proper
    <3>3. QED BY <2>1, <3>1, <3>2 DEF FilesOf
  <2>3. \A hint \in BOOLEAN : storedOf(f, hint) \in Stored
    BY <2>2 DEF DataInv, FileRow, Stored, Exists
  <2>4. \A hint : pcOf(f, hint) \in {"ask", "claim", "store"}
    OBVIOUS
  <2> HIDE DEF storedOf, pcOf
  <2>5. ASSUME NEW hint \in BOOLEAN
        PROVE  Proper(g, next(f, hint))
    <3>1. next(f, hint) \in Working
      BY <2>2, <2>3, <2>4 DEF Working
    <3>2. /\ next(f, hint).todo \subseteq w.todo /\ next(f, hint).seen = w.seen
          /\ next(f, hint).file = f
      BY <2>2 DEF Working
    <3> HIDE DEF next
    <3>3. QED BY <2>2, <3>1, <3>2, GoesOnProper
  <2>6. QED BY <2>1, <2>5
<1>9. ASSUME NEW o \in Platforms, CheckBuild(g, o)
      PROVE  \E w : Proper(g, w) /\ Moves(g, w)
  <2> DEFINE w == worker[g]
             rest == w.asks \ {o}
             next(s) == [w EXCEPT !.asks = rest,
                                  !.pc = IF rest = {} THEN "file" ELSE "builds",
                                  !.suspect = s]
  <2>1. w \in Working /\ Proper(g, w)
    BY <1>1, <1>9 DEF CheckBuild
  <2>2. ASSUME NEW s \in SUBSET Platforms
        PROVE  Proper(g, next(s))
    <3>1. next(s) \in Working
      BY <2>1 DEF Working
    <3>2. /\ next(s).todo = w.todo /\ next(s).seen = w.seen
          /\ next(s).pc \in {"builds", "file"}
      BY <2>1 DEF Working
    <3> HIDE DEF next
    <3>3. QED BY <2>1, <3>1, <3>2, GoesOnProper
  <2>3. \E s \in SUBSET Platforms : Moves(g, next(s))
    <3>1. w.suspect \in SUBSET Platforms /\ w.suspect \cup {o} \in SUBSET Platforms
      BY <2>1 DEF Working
    <3>2. Moves(g, next(w.suspect)) \/ Moves(g, next(w.suspect \cup {o}))
      BY <1>9, <2>1 DEF CheckBuild, Moves, Working
    <3>3. QED BY <3>1, <3>2
  <2>4. QED BY <2>2, <2>3
<1>10. QED BY <1>2, <1>3, <1>4, <1>5, <1>6, <1>7, <1>8, <1>9

\* A stop: the full sync ends, and with it at least the games it was about.
Halted ==
    \E G \in SUBSET Games :
        Ended(G) /\ \A g \in Games : worker[g] # Free /\ worker[g].rolling => g \in G

LEMMA StopsHalt ==
    ASSUME Cancel \/ Stop \/ \E f \in Files : Drop(f)
    PROVE  Halted /\ UNCHANGED <<rollingLeft, granted>>
<1>1. CASE Cancel
  <2> DEFINE G == {g \in Games : worker[g] # Free /\ worker[g].rolling}
  <2>1. G \in SUBSET Games /\ Ended(G)
    BY <1>1 DEF Cancel
  <2>2. \A g \in Games : worker[g] # Free /\ worker[g].rolling => g \in G
    OBVIOUS
  <2> HIDE DEF G
  <2>3. Halted
    BY <2>1, <2>2 DEF Halted
  <2>4. QED BY <1>1, <2>3 DEF Cancel
<1>2. CASE Stop \/ \E f \in Files : Drop(f)
  <2>1. Ended(Games) /\ UNCHANGED <<rollingLeft, granted>>
    BY <1>2 DEF Stop, Drop
  <2>2. QED BY <2>1 DEF Halted
<1>3. QED BY <1>1, <1>2

\* Whoever still works then, works alone.
LEMMA AfterHalt ==
    ASSUME WorkInv, Halted
    PROVE  /\ full' = Idle /\ WorkInv'
           /\ \A g \in Games :
                 worker'[g] = Free \/ (worker'[g] = worker[g] /\ ~worker[g].rolling)
<1>1. PICK G \in SUBSET Games :
        Ended(G) /\ \A g \in Games : worker[g] # Free /\ worker[g].rolling => g \in G
  BY DEF Halted
<1>2. \A g \in Games : worker'[g] = IF g \in G THEN Free ELSE worker[g]
  BY <1>1 DEF Ended
<1>3. worker' \in [Games -> Working \cup {Free}]
  BY <1>1, <1>2 DEF Ended, WorkInv
<1>4. \A g \in Games : worker'[g] # Free => worker'[g] = worker[g]
  BY <1>2
<1>5. WorkInv'
  BY <1>3, <1>4 DEF WorkInv, FilesOf
<1>6. ASSUME NEW g \in Games
      PROVE  worker'[g] = Free \/ (worker'[g] = worker[g] /\ ~worker[g].rolling)
  <2>1. CASE g \in G
    BY <1>2, <2>1
  <2>2. CASE g \notin G
    <3>1. worker'[g] = worker[g]
      BY <1>2, <2>2
    <3>2. ~(worker[g] # Free /\ worker[g].rolling)
      BY <1>1, <2>2
    <3>3. QED BY <3>1, <3>2
  <2>3. QED BY <2>1, <2>2
<1>7. full' = Idle
  BY <1>1 DEF Ended
<1>8. QED BY <1>5, <1>6, <1>7

LEMMA WorkKept == IInv /\ [Next]_vars => WorkInv'
<1> SUFFICES ASSUME DataInv, WorkInv, [Next]_vars PROVE WorkInv'
  BY DEF IInv
<1>1. ASSUME NEW g \in Games, Game(g) \/ SyncGame(g) PROVE WorkInv'
  <2>1. UNCHANGED worker \/ \E w : Proper(g, w) /\ Moves(g, w)
    BY <1>1, StepOfSync DEF Game
  <2>2. QED BY <2>1, ProperIsFine DEF WorkInv, FilesOf
<1>2. CASE Cancel \/ Stop \/ \E f \in Files : Drop(f)
  BY <1>2, StopsHalt, AfterHalt
<1>3. CASE UNCHANGED worker
  BY <1>3 DEF WorkInv
<1>4. QED
  BY <1>1, <1>2, <1>3
  DEF Next, Publish, Download, StartFull, FinishFull, Mount, Unmount, vars

-----------------------------------------------------------------------------
(* The full sync waits for the games that claim.                           *)

\* A sync under way takes a record that claims no more than it may.
GoesOn(g, w) ==
    /\ Moves(g, w) /\ worker[g] \in Working /\ w \in Working
    /\ w.rolling = worker[g].rolling
    /\ w.pc \in {"claim", "return"} => w.rolling

LEMMA GoesOnFull ==
    ASSUME WorkInv, FullInv, NEW g \in Games, NEW w, GoesOn(g, w), full' = full
    PROVE  FullInv'
<1>1. \A h \in Games : worker'[h] = IF h = g THEN w ELSE worker[h]
  BY DEF GoesOn, Moves, WorkInv
<1>2. worker[g] # Free /\ w # Free
  BY FreeIsNoStep DEF GoesOn
<1>3. QED BY <1>1, <1>2 DEF FullInv, GoesOn

LEMMA SyncGoesOn ==
    ASSUME WorkInv, FullInv, NEW g \in Games,
           \/ NextFile(g) \/ Claim(g) \/ ReturnClaim(g) \/ Ask(g) \/ Store(g)
           \/ \E o \in Platforms : CheckBuild(g, o),
           WorkInv'
    PROVE  /\ \E w : GoesOn(g, w) /\ full' = full
           /\ worker'[g].pc \in {"return"} => Claim(g)
           /\ worker[g].pc \in {"return"} => ReturnClaim(g)
<1>1. worker[g].pc # "free" /\ worker[g] \in Working
  <2>1. worker[g].pc # "free"
    BY DEF NextFile, Claim, ReturnClaim, Ask, Store, CheckBuild
  <2>2. QED BY <2>1 DEF WorkInv, Free
<1>2. full' = full
  BY DEF NextFile, Claim, ReturnClaim, Ask, Store, CheckBuild
<1>3. worker'[g] \in Working \cup {Free}
  BY DEF WorkInv
<1>4. CASE NextFile(g)
  <2> DEFINE w == worker[g]
             pcOf(f, hint) ==
               LET mayAsk == /\ row[f].md5 # None /\ row[f].status # "pending"
                             /\ row[f].status = "inactive" => Exists(f)
               IN  IF mayAsk /\ (hint \/ Suspected(w, f)) THEN "ask"
                   ELSE IF mayAsk /\ w.rolling /\ IsDue(f) THEN "claim" ELSE "store"
             storedOf(f, hint) == [status |-> row[f].status, md5 |-> row[f].md5,
                                   onDisk |-> Exists(f), hint |-> hint, told |-> "unasked"]
             next(f, hint) == [w EXCEPT !.file = f, !.todo = @ \ {f}, !.changed = hint,
                                        !.stored = storedOf(f, hint), !.pc = pcOf(f, hint)]
  <2>1. PICK f \in w.todo : Moves(g, next(f, w.seen[f] # row[f].meta))
    BY <1>4 DEF NextFile, Moves
  <2>2. w.rolling \in BOOLEAN
    BY <1>1 DEF Working
  <2>3. \A hint : pcOf(f, hint) \in {"ask", "claim", "store"}
    OBVIOUS
  <2>4. \A hint : pcOf(f, hint) = "claim" => w.rolling
    BY <2>2
  <2> HIDE DEF pcOf, storedOf
  <2>5. ASSUME NEW hint
        PROVE  next(f, hint).rolling = w.rolling /\ next(f, hint).pc = pcOf(f, hint)
    BY <1>1 DEF Working
  <2> DEFINE v == next(f, w.seen[f] # row[f].meta)
  <2>6. worker'[g] = v /\ v.rolling = w.rolling /\ v.pc \in {"ask", "claim", "store"}
        /\ (v.pc = "claim" => w.rolling)
    BY <2>1, <2>3, <2>4, <2>5 DEF Moves, WorkInv
  <2> HIDE DEF next, v
  <2>7. v \in Working
    BY <1>3, <2>6 DEF Free
  <2>8. worker[g].pc = "file"
    BY <1>4 DEF NextFile
  <2>9. GoesOn(g, v)
    BY <1>1, <2>1, <2>6, <2>7 DEF GoesOn, v
  <2>10. QED BY <1>2, <2>6, <2>8, <2>9
<1>5. CASE Claim(g)
  <2>1. worker[g].rolling /\ worker[g].pc = "claim"
    BY <1>5 DEF Claim, FullInv
  <2>2. worker' = [worker EXCEPT ![g] = worker'[g]]
    BY <1>5 DEF Claim, WorkInv
  <2>3. worker'[g].rolling = worker[g].rolling /\ worker'[g].pc \in {"return", "ask"}
    BY <1>1, <1>5 DEF Claim, WorkInv, Working
  <2>4. worker'[g] \in Working
    BY <1>3, <2>3 DEF Free
  <2>5. QED BY <1>1, <1>2, <1>5, <2>1, <2>2, <2>3, <2>4 DEF GoesOn, Moves
<1>6. CASE ReturnClaim(g) \/ Ask(g) \/ Store(g)
  <2> DEFINE w == worker[g]
             returned == [w EXCEPT !.pc = "store"]
             sum == IF w.file \in Summed THEN content[w.file] ELSE None
             now == Changed(sum, w.stored.md5, w.stored.hint)
             asked(t, c) == [w EXCEPT !.pc = "store", !.changed = c,
                                      !.stored = [@ EXCEPT !.told = t]]
             answered == asked(IF sum = None THEN "nothing" ELSE "sum", now)
             failed == asked("nothing", w.stored.hint)
             through == [w EXCEPT !.pc = "file", !.file = AnyFile,
                                  !.stored = NoFile, !.changed = FALSE]
  <2>1. PICK v \in {returned, answered, failed, through} : Moves(g, v)
    <3>1. CASE ReturnClaim(g)
      BY <3>1 DEF ReturnClaim, Moves
    <3>2. CASE Ask(g)
      BY <1>1, <3>2 DEF Ask, Moves, Working
    <3>3. CASE Store(g)
      BY <3>3 DEF Store, Moves
    <3>4. QED BY <1>6, <3>1, <3>2, <3>3
  <2>2. v.rolling = w.rolling /\ v.pc \in {"store", "file"}
    <3>1. CASE v = returned
      BY <1>1, <3>1 DEF Working
    <3>2. CASE v = answered
      BY <1>1, <3>2 DEF Working
    <3>3. CASE v = failed
      BY <1>1, <3>3 DEF Working
    <3>4. CASE v = through
      BY <1>1, <3>4 DEF Working
    <3>5. QED BY <2>1, <3>1, <3>2, <3>3, <3>4
  <2> HIDE DEF returned, answered, failed, through
  <2>3. worker'[g] = v /\ v \in Working
    BY <1>3, <2>1, <2>2 DEF Moves, WorkInv, Free
  <2>4. worker[g].pc = "return" => ReturnClaim(g)
    BY <1>6 DEF Ask, Store
  <2>5. GoesOn(g, v)
    BY <1>1, <2>1, <2>2, <2>3 DEF GoesOn
  <2>6. QED BY <1>2, <2>2, <2>3, <2>4, <2>5
<1>7. ASSUME NEW o \in Platforms, CheckBuild(g, o)
      PROVE  /\ \E w : GoesOn(g, w)
             /\ worker'[g].pc # "return" /\ worker[g].pc # "return"
  <2> DEFINE w == worker[g]
             rest == w.asks \ {o}
             next(s) == [w EXCEPT !.asks = rest,
                                  !.pc = IF rest = {} THEN "file" ELSE "builds",
                                  !.suspect = s]
  <2>1. PICK s : Moves(g, next(s))
    <3>1. Moves(g, next(w.suspect)) \/ Moves(g, next(w.suspect \cup {o}))
      BY <1>1, <1>7 DEF CheckBuild, Moves, Working
    <3>2. QED BY <3>1
  <2>2. next(s).rolling = w.rolling /\ next(s).pc \in {"builds", "file"}
    BY <1>1 DEF Working
  <2> DEFINE v == next(s)
  <2> HIDE DEF next, v
  <2>3. v.rolling = w.rolling /\ v.pc \in {"builds", "file"} /\ Moves(g, v)
    BY <2>1, <2>2 DEF v
  <2>4. worker'[g] = v /\ v \in Working
    BY <1>3, <2>3 DEF Moves, WorkInv, Free
  <2>5. worker[g].pc = "builds"
    BY <1>7 DEF CheckBuild
  <2>6. GoesOn(g, v)
    BY <1>1, <2>3, <2>4 DEF GoesOn
  <2>7. QED BY <2>3, <2>4, <2>5, <2>6
<1>8. QED BY <1>2, <1>4, <1>5, <1>6, <1>7

LEMMA FullKept == IInv /\ [Next]_vars => FullInv'
<1> SUFFICES ASSUME IInv, [Next]_vars PROVE FullInv'
  OBVIOUS
<1>0. DataInv /\ WorkInv /\ FullInv /\ WorkInv'
  BY WorkKept DEF IInv
<1>1. ASSUME NEW g \in Games, StartGame(g) PROVE FullInv'
  <2>1. CASE worker' = [worker EXCEPT ![g] = Begun(g, TRUE)] /\ full' = full
    <3>1. \A h \in Games : worker'[h] = IF h = g THEN Begun(g, TRUE) ELSE worker[h]
      BY <1>0, <2>1 DEF WorkInv
    <3>2. g \in full.left /\ Begun(g, TRUE).pc \notin {"claim", "return"}
      BY <1>0, <1>1, BegunProper DEF StartGame
    <3>3. QED BY <1>0, <2>1, <3>1, <3>2 DEF FullInv
  <2>2. CASE worker' = worker /\ full' = [full EXCEPT !.left = @ \ {g}]
    <3>1. /\ full' \in [on: BOOLEAN, left: SUBSET Games]
          /\ full'.on = full.on /\ full'.left = full.left \ {g}
      BY <1>0, <2>2 DEF FullInv
    <3>2. worker[g] = Free
      BY <1>1 DEF StartGame
    <3>3. QED BY <1>0, <2>2, <3>1, <3>2 DEF FullInv
  <2>3. QED BY <1>1, <2>1, <2>2 DEF StartGame
<1>2. ASSUME NEW g \in Games, SyncGame(g) PROVE FullInv'
  <2>1. \A h \in Games : worker'[h] = IF h = g THEN Begun(g, FALSE) ELSE worker[h]
    BY <1>0, <1>2 DEF SyncGame, WorkInv
  <2>2. ~Begun(g, FALSE).rolling /\ Begun(g, FALSE).pc \notin {"claim", "return"}
    BY <1>0, BegunProper
  <2>3. QED BY <1>0, <1>2, <2>1, <2>2 DEF FullInv, SyncGame
<1>3. ASSUME NEW g \in Games,
             \/ NextFile(g) \/ Claim(g) \/ ReturnClaim(g) \/ Ask(g) \/ Store(g)
             \/ \E o \in Platforms : CheckBuild(g, o)
      PROVE  FullInv'
  BY <1>0, <1>3, SyncGoesOn, GoesOnFull
<1>4. ASSUME NEW g \in Games, EndGame(g) PROVE FullInv'
  <2>1. \A h \in Games : worker'[h] = IF h = g THEN Free ELSE worker[h]
    BY <1>0, <1>4 DEF EndGame, WorkInv
  <2>2. /\ full' \in [on: BOOLEAN, left: SUBSET Games]
        /\ full'.on = full.on
        /\ full.left \ {g} \subseteq full'.left /\ full'.left \subseteq full.left
    BY <1>0, <1>4 DEF EndGame, FullInv
  <2>3. QED BY <1>0, <2>1, <2>2, FreeIsNoStep DEF FullInv
<1>5. CASE StartFull
  <2>1. \A g \in Games : ~(worker[g] # Free /\ worker[g].rolling)
    BY <1>0, <1>5 DEF StartFull, FullInv
  <2>2. full' = full \/ full' = [on |-> TRUE, left |-> Games]
    BY <1>5 DEF StartFull
  <2>3. worker' = worker
    BY <1>5 DEF StartFull
  <2>4. CASE full' = full
    BY <1>0, <2>3, <2>4 DEF FullInv
  <2>5. CASE full' = [on |-> TRUE, left |-> Games]
    <3>1. /\ full' \in [on: BOOLEAN, left: SUBSET Games]
          /\ full'.on = TRUE /\ full'.left = Games
      BY <2>5
    <3>2. QED BY <1>0, <2>3, <3>1 DEF FullInv
  <2>6. QED BY <2>2, <2>4, <2>5
<1>6. CASE FinishFull
  BY <1>0, <1>6 DEF FinishFull, FullInv, Idle
<1>7. CASE Cancel \/ Stop \/ \E f \in Files : Drop(f)
  <2>1. /\ full' = Idle
        /\ \A g \in Games :
              worker'[g] = Free \/ (worker'[g] = worker[g] /\ ~worker[g].rolling)
    BY <1>0, <1>7, StopsHalt, AfterHalt
  <2>2. QED BY <1>0, <2>1, FreeIsNoStep DEF FullInv, Idle
<1>8. CASE UNCHANGED <<full, worker>>
  BY <1>0, <1>8 DEF FullInv
<1>9. QED
  BY <1>1, <1>2, <1>3, <1>4, <1>5, <1>6, <1>7, <1>8
  DEF Next, Game, Publish, Download, Mount, Unmount, vars

-----------------------------------------------------------------------------
(* The budget.                                                             *)

\* A step that neither refuses a claim nor gives one back.
Quiet == /\ Refused' = Refused /\ full'.on = full.on
         /\ UNCHANGED <<rollingLeft, granted>>

LEMMA QuietKeeps == ASSUME CountInv, Quiet PROVE CountInv'
BY DEF CountInv, Quiet

LEMMA GameIsQuiet ==
    ASSUME DataInv, WorkInv, FullInv, WorkInv', NEW g \in Games,
           \/ StartGame(g) \/ SyncGame(g) \/ NextFile(g) \/ Ask(g) \/ Store(g) \/ EndGame(g)
           \/ \E o \in Platforms : CheckBuild(g, o)
    PROVE  Quiet
<1>1. worker[g].pc # "return"
  BY FreeIsNoStep DEF StartGame, SyncGame, NextFile, Ask, Store, EndGame, CheckBuild
<1>2. worker'[g].pc # "return"
  <2>1. CASE StartGame(g) \/ SyncGame(g)
    BY <2>1, BegunProper, FreeIsNoStep DEF StartGame, SyncGame, WorkInv
  <2>2. CASE EndGame(g)
    BY <2>2, FreeIsNoStep DEF EndGame, WorkInv
  <2>3. CASE ~(StartGame(g) \/ SyncGame(g) \/ EndGame(g))
    <3>1. worker'[g].pc = "return" => Claim(g)
      BY <2>3, SyncGoesOn
    <3>2. worker[g].pc # "claim"
      BY <2>3 DEF NextFile, Ask, Store, CheckBuild
    <3>3. QED BY <3>1, <3>2 DEF Claim
  <2>4. QED BY <2>1, <2>2, <2>3
<1>3. \A h \in Games : h # g => worker'[h] = worker[h]
  BY DEF StartGame, SyncGame, NextFile, Ask, Store, EndGame, CheckBuild, WorkInv
<1>4. Refused' = Refused
  BY <1>1, <1>2, <1>3 DEF Refused
<1>5. full'.on = full.on
  BY DEF StartGame, SyncGame, NextFile, Ask, Store, EndGame, CheckBuild, FullInv
<1>6. UNCHANGED <<rollingLeft, granted>>
  BY DEF StartGame, SyncGame, NextFile, Ask, Store, EndGame, CheckBuild
<1>7. QED BY <1>4, <1>5, <1>6 DEF Quiet

\* A claim is granted before anyone is refused; one that is refused finds the
\* budget spent.
LEMMA ClaimCounts ==
    ASSUME WorkInv, FullInv, CountInv, NEW g \in Games, Claim(g)
    PROVE  CountInv'
<1> DEFINE n == Cardinality(Refused)
<1>1. n \in Nat /\ IsFiniteSet(Refused) /\ (n = 0 <=> Refused = {})
  BY RefusedFinite, FS_EmptySet
<1>2. full.on /\ full' = full
  BY FreeIsNoStep DEF Claim, FullInv, WorkInv
<1>3. /\ granted \in Nat /\ granted <= VerifyBudget /\ VerifyBudget \in Nat
      /\ rollingLeft = VerifyBudget - granted - n
      /\ n > 0 => granted = VerifyBudget
  BY <1>1, <1>2, VerifyAssumption DEF CountInv
<1>4. rollingLeft' = rollingLeft - 1
  BY DEF Claim, Claimed
<1>5. worker[g].pc = "claim" /\ g \notin Refused
  BY DEF Claim, Refused
<1>6. Cardinality(Games) \in Nat /\ n + 1 <= Cardinality(Games)
  <2>1. IsFiniteSet(Games) /\ Cardinality(Games) \in Nat
    BY VerifyAssumption, FS_CardinalityType
  <2>2. Refused \cup {g} \in SUBSET Games
    BY DEF Refused
  <2>3. Cardinality(Refused \cup {g}) = n + 1
    BY <1>1, <1>5, FS_AddElement
  <2>4. Cardinality(Refused \cup {g}) <= Cardinality(Games)
    BY <2>1, <2>2, FS_Subset
  <2>5. QED BY <2>1, <2>3, <2>4
<1>7. CASE rollingLeft' < 0
  <2>1. granted' = granted /\ worker' = [worker EXCEPT ![g] = [@ EXCEPT !.pc = "return"]]
    BY <1>7 DEF Claim
  <2>2. worker[g] \in Working
    BY <1>5 DEF WorkInv, Free
  <2>3. Refused' = Refused \cup {g}
    BY <2>1, <2>2 DEF Refused, WorkInv, Working
  <2>4. Cardinality(Refused') = n + 1
    BY <1>1, <1>5, <2>3, FS_AddElement
  <2> HIDE DEF n
  <2>5. granted = VerifyBudget
    BY <1>1, <1>3, <1>4, <1>7
  <2>6. rollingLeft' = VerifyBudget - granted - (n + 1)
    BY <1>1, <1>3, <1>4
  <2>7. rollingLeft' \in (-Cardinality(Games))..VerifyBudget
    BY <1>1, <1>3, <1>6, <2>5, <2>6
  <2>8. QED BY <1>2, <1>3, <2>1, <2>4, <2>5, <2>6, <2>7 DEF CountInv
<1>8. CASE ~(rollingLeft' < 0)
  <2>1. granted' = granted + 1 /\ worker' = [worker EXCEPT ![g] = [@ EXCEPT !.pc = "ask"]]
    BY <1>8 DEF Claim
  <2>2. worker[g] \in Working
    BY <1>5 DEF WorkInv, Free
  <2>3. Refused' = Refused
    BY <1>5, <2>1, <2>2 DEF Refused, WorkInv, Working
  <2>4. Refused = {} /\ n = 0
    <3> HIDE DEF n
    <3>1. n = 0
      BY <1>1, <1>3, <1>4, <1>8
    <3>2. QED BY <1>1, <3>1
  <2> HIDE DEF n
  <2>5. /\ granted' \in 0..VerifyBudget /\ rollingLeft' = VerifyBudget - granted'
        /\ rollingLeft' \in (-Cardinality(Games))..VerifyBudget
    BY <1>3, <1>4, <1>6, <1>8, <2>1, <2>4
  <2>6. Cardinality(Refused') = 0 /\ Refused' = {}
    BY <2>3, <2>4 DEF n
  <2>7. rollingLeft' = VerifyBudget - granted' - Cardinality(Refused')
    BY <1>3, <2>1, <2>5, <2>6
  <2>8. QED BY <1>2, <2>5, <2>6, <2>7 DEF CountInv
<1>9. QED BY <1>7, <1>8

LEMMA ReturnCounts ==
    ASSUME WorkInv, FullInv, CountInv, NEW g \in Games, ReturnClaim(g)
    PROVE  CountInv'
<1> DEFINE n == Cardinality(Refused)
<1>1. n \in Nat /\ IsFiniteSet(Refused)
  BY RefusedFinite
<1>2. g \in Refused /\ worker[g] \in Working
  BY DEF ReturnClaim, Refused, WorkInv, Free
<1>3. full.on /\ full' = full
  BY <1>2, FreeIsNoStep DEF ReturnClaim, FullInv
<1>4. /\ granted = VerifyBudget /\ granted' = granted /\ VerifyBudget \in Nat
      /\ rollingLeft = VerifyBudget - granted - n /\ rollingLeft' = rollingLeft + 1
  BY <1>2, <1>3, VerifyAssumption DEF CountInv, ReturnClaim
<1>5. Refused' = Refused \ {g}
  BY <1>2 DEF ReturnClaim, Refused, WorkInv, Working
<1>6. Cardinality(Refused') = n - 1 /\ Cardinality(Refused') \in Nat
  BY <1>1, <1>2, <1>5, FS_RemoveElement, FS_CardinalityType
<1>7. Cardinality(Games) \in Nat /\ n <= Cardinality(Games)
  <2>1. Refused \in SUBSET Games
    BY DEF Refused
  <2>2. QED BY <2>1, VerifyAssumption, FS_Subset, FS_CardinalityType
<1> HIDE DEF n
<1>8. /\ rollingLeft' = VerifyBudget - granted' - Cardinality(Refused')
      /\ rollingLeft' \in (-Cardinality(Games))..VerifyBudget
  BY <1>1, <1>4, <1>6, <1>7
<1>9. QED BY <1>3, <1>4, <1>8 DEF CountInv

LEMMA CountKept == IInv /\ [Next]_vars => CountInv'
<1> SUFFICES ASSUME IInv, [Next]_vars PROVE CountInv'
  OBVIOUS
<1>0. DataInv /\ WorkInv /\ FullInv /\ CountInv /\ WorkInv'
  BY WorkKept DEF IInv
<1>1. ASSUME NEW g \in Games, Game(g) \/ SyncGame(g) PROVE CountInv'
  BY <1>0, <1>1, GameIsQuiet, QuietKeeps, ClaimCounts, ReturnCounts DEF Game
<1>2. CASE StartFull
  <2>1. Refused' = Refused
    BY <1>2 DEF StartFull, Refused
  <2>2. CASE UNCHANGED <<full, rollingLeft, granted>>
    BY <1>0, <2>1, <2>2, QuietKeeps DEF Quiet
  <2>3. CASE rollingLeft' = Budget /\ granted' = 0
    <3>1. Refused = {}
      BY <1>0, <1>2, FreeIsNoStep DEF Refused, StartFull, FullInv
    <3>2. Cardinality(Refused') = 0 /\ Cardinality(Games) \in Nat
      BY <2>1, <3>1, FS_EmptySet, FS_CardinalityType, VerifyAssumption
    <3>3. VerifyBudget \in Nat
      BY VerifyAssumption
    <3>4. QED BY <2>1, <2>3, <3>1, <3>2, <3>3 DEF CountInv, Budget
  <2>4. QED BY <1>2, <2>2, <2>3 DEF StartFull
<1>3. CASE FinishFull
  <2>1. Refused' = Refused
    BY <1>3 DEF FinishFull, Refused
  <2>2. QED BY <1>0, <1>3, <2>1 DEF FinishFull, Idle, CountInv
<1>4. CASE Cancel \/ Stop \/ \E f \in Files : Drop(f)
  <2>1. /\ full' = Idle /\ UNCHANGED <<rollingLeft, granted>>
        /\ \A g \in Games :
              worker'[g] = Free \/ (worker'[g] = worker[g] /\ ~worker[g].rolling)
    BY <1>0, <1>4, StopsHalt, AfterHalt
  <2>2. Refused' = {}
    BY <1>0, <2>1, FreeIsNoStep DEF Refused, FullInv
  <2>3. QED BY <1>0, <2>1, <2>2 DEF Idle, CountInv
<1>5. CASE UNCHANGED <<full, rollingLeft, granted, worker>>
  <2>1. Refused' = Refused
    BY <1>5 DEF Refused
  <2>2. QED BY <1>0, <1>5, <2>1, QuietKeeps DEF Quiet
<1>6. QED
  BY <1>1, <1>2, <1>3, <1>4, <1>5 DEF Next, Publish, Download, Mount, Unmount, vars

-----------------------------------------------------------------------------
THEOREM Invariant == Spec => []IInv
<1>1. IInv /\ [Next]_vars => IInv'
  BY DataKept, WorkKept, FullKept, CountKept DEF IInv
<1>2. QED BY InitInv, <1>1, PTL DEF Spec

\* Every variable keeps its type: the counter below zero by at most the games
\* that claim at once.
THEOREM TypeCorrect == Spec => []TypeOK
BY Invariant, InvImpliesTypeOK, PTL

\* A full sync spends its budget and not one more, and refuses nobody before it
\* is spent, for every number of games that claim side by side.
THEOREM BudgetKept == Spec => []BudgetIsSpentFirst
<1>1. IInv => BudgetIsSpentFirst
  <2> SUFFICES ASSUME IInv PROVE BudgetIsSpentFirst
    OBVIOUS
  <2>1. granted <= VerifyBudget
    BY VerifyAssumption DEF IInv, CountInv
  <2>2. \A g \in Games : worker[g].pc = "return" => granted = VerifyBudget
    BY DEF IInv, CountInv, Refused
  <2>3. QED BY <2>1, <2>2 DEF BudgetIsSpentFirst
<1>2. QED BY Invariant, <1>1, PTL
-----------------------------------------------------------------------------
(* Copies are fetched again for a reason.                                  *)

\* What an upsert knows of its file: nothing yet before GOG was asked, and what
\* gets by without asking is not taken to have changed, unless there was nothing
\* to compare; where GOG told another checksum, the one that was read is older
\* than what GOG offers, and stays so.
Knows(w) ==
    /\ w.pc \in {"claim", "return", "ask"} =>
         w.stored.told = "unasked" /\ w.stored.md5 <= content[w.file]
    /\ w.pc \in {"claim", "return"} => ~w.changed
    /\ w.pc = "store" /\ w.changed =>
         /\ w.stored.told = "unasked" => NothingToCompare(w.stored)
         /\ w.stored.told = "sum" => w.stored.md5 < content[w.file]

\* GOG never goes back to bytes it offered before, so a row's checksum is never
\* ahead of them.
EarnedInv ==
    /\ \A f \in Files : row[f].md5 <= content[f]
    /\ \A g \in Games : worker[g] # Free => Knows(worker[g])

\* The files' bytes only become newer.
LEMMA ContentGrows ==
    ASSUME DataInv, [Next]_vars, NEW f \in Files
    PROVE  content[f] \in Nat /\ content'[f] \in Nat /\ content[f] <= content'[f]
<1>1. content \in [Files -> 1..(released + 1)] /\ released \in Nat
  BY VerifyAssumption DEF DataInv
<1>2. ASSUME NEW e \in Files, Publish(e)
      PROVE  content'[f] \in Nat /\ content[f] <= content'[f]
  <2>1. PICK bytes \in 0..1 : content' = [content EXCEPT ![e] = @ + bytes]
    BY <1>2 DEF Publish
  <2>2. content'[f] = IF f = e THEN content[f] + bytes ELSE content[f]
    BY <1>1, <2>1
  <2>3. content[f] \in Nat /\ bytes \in Nat
    BY <1>1
  <2>4. QED BY <2>2, <2>3
<1>3. (\E e \in Files : Publish(e)) \/ content' = content
  <2>1. ASSUME NEW g \in Games, Game(g) \/ SyncGame(g) PROVE content' = content
    BY <2>1 DEF Game, SyncGame, StartGame, NextFile, Claim, ReturnClaim, Ask, Store,
       EndGame, CheckBuild, remote
  <2>2. ASSUME NEW e \in Files, Download(e) \/ Drop(e) PROVE content' = content
    BY <2>2 DEF Download, Drop, remote
  <2>3. CASE StartFull \/ FinishFull \/ Cancel \/ Stop \/ Mount \/ Unmount
    BY <2>3 DEF StartFull, FinishFull, Cancel, Stop, Mount, Unmount, remote
  <2>4. CASE UNCHANGED vars
    BY <2>4 DEF vars, remote
  <2>5. QED BY <2>1, <2>2, <2>3, <2>4 DEF Next
<1>4. QED BY <1>1, <1>2, <1>3

\* A checksum in a row is one GOG published.
LEMMA RowsNotAhead ==
    ASSUME DataInv, EarnedInv, [Next]_vars, WorkInv, NEW f \in Files
    PROVE  row'[f].md5 <= content'[f]
<1>0. /\ row \in [Files -> FileRow] /\ row[f].md5 \in Nat
      /\ row[f].md5 <= content[f] /\ content[f] \in Nat /\ content'[f] \in Nat
      /\ content[f] <= content'[f]
  BY ContentGrows, VerifyAssumption DEF DataInv, EarnedInv, FileRow, Version
<1>1. CASE row'[f].md5 = row[f].md5
  BY <1>0, <1>1
<1>2. ASSUME NEW e \in Files, Download(e)
      PROVE  row'[f].md5 <= content'[f]
  <2>1. PICK sum \in {content[e], None} :
             row' = [row EXCEPT ![e] = [@ EXCEPT !.status = "done", !.md5 = sum, !.age = 0]]
    BY <1>2 DEF Download
  <2>2. row'[f].md5 = IF f = e THEN sum ELSE row[f].md5
    BY <1>0, <2>1 DEF FileRow
  <2>3. QED BY <1>0, <2>1, <2>2 DEF None
<1>3. CASE ~\E e \in Files : Download(e)
  <2>1. CASE StartFull
    <3>1. row' \in {Aged(row), Aged(AfterCheck(row))}
      BY <2>1 DEF StartFull
    <3>2. Aged(row)[f].md5 = row[f].md5
      BY <1>0 DEF Aged, FileRow
    <3>3. AfterCheck(row)[f].md5 = row[f].md5 /\ AfterCheck(row)[f] \in FileRow
      BY <1>0 DEF AfterCheck, FileRow, Status
    <3>4. Aged(AfterCheck(row))[f].md5 = row[f].md5
      BY <3>3 DEF Aged, FileRow
    <3>5. QED BY <1>1, <3>1, <3>2, <3>4
  <2>2. CASE FinishFull
    BY <1>0, <1>1, <2>2 DEF FinishFull, AfterCheck, FileRow
  <2>3. ASSUME NEW g \in Games, Ask(g) PROVE row'[f].md5 = row[f].md5
    <3>1. row' = row \/ row' = [row EXCEPT ![worker[g].file] = [@ EXCEPT !.age = 0]]
      BY <2>3 DEF Ask, Verified
    <3>2. QED BY <1>0, <3>1 DEF FileRow
  <2>4. ASSUME NEW g \in Games, Store(g) PROVE row'[f].md5 = row[f].md5
    <3>1. \E status, m : row' = [row EXCEPT ![worker[g].file] =
                                     [@ EXCEPT !.status = status, !.meta = m]]
      BY <2>4 DEF Store
    <3>2. QED BY <1>0, <3>1 DEF FileRow
  <2>5. CASE UNCHANGED row
    BY <1>1, <2>5
  <2>6. ASSUME NEW e \in Files, Drop(e) PROVE row'[f].md5 = row[f].md5
    BY <1>0, <2>6 DEF Drop, FileRow
  <2>7. QED
    BY <1>1, <1>3, <2>1, <2>2, <2>3, <2>4, <2>5, <2>6
    DEF Next, Game, Publish, SyncGame, StartGame, NextFile, Claim, ReturnClaim,
        EndGame, CheckBuild, Cancel, Stop, Mount, Unmount, vars
<1>4. QED BY <1>2, <1>3

\* Who knows something, still does when GOG publishes.
LEMMA KnowledgeLasts ==
    ASSUME DataInv, WorkInv, EarnedInv, [Next]_vars, NEW g \in Games,
           worker[g] # Free, worker'[g] = worker[g]
    PROVE  Knows(worker[g])'
<1>1. Knows(worker[g]) /\ worker[g] \in Working
  BY DEF EarnedInv, WorkInv
<1>2. worker[g].file \in Files /\ worker[g].stored.md5 \in Nat
  BY <1>1, VerifyAssumption DEF Working, Stored, Version
<1>3. /\ content[worker[g].file] \in Nat /\ content'[worker[g].file] \in Nat
      /\ content[worker[g].file] <= content'[worker[g].file]
  BY <1>2, ContentGrows
<1>4. QED BY <1>1, <1>2, <1>3 DEF Knows

\* What the steps of a sync learn.
LEMMA SyncLearns ==
    ASSUME DataInv, WorkInv, FullInv, EarnedInv, WorkInv', NEW g \in Games,
           \/ NextFile(g) \/ Claim(g) \/ ReturnClaim(g) \/ Ask(g) \/ Store(g)
           \/ \E o \in Platforms : CheckBuild(g, o)
    PROVE  Knows(worker[g])'
<1>0. content' = content
  BY DEF NextFile, Claim, ReturnClaim, Ask, Store, CheckBuild, remote
<1>1. worker[g] \in Working /\ worker[g] # Free /\ Knows(worker[g])
  <2>1. worker[g].pc # "free"
    BY DEF NextFile, Claim, ReturnClaim, Ask, Store, CheckBuild
  <2>2. QED BY <2>1 DEF WorkInv, EarnedInv, Free
<1>2. worker[g].file \in Files /\ worker[g].stored \in Stored /\ worker[g].stored.md5 \in Nat
  BY <1>1, VerifyAssumption DEF Working, Stored, Version
<1>3. content[worker[g].file] \in Nat
  BY <1>2 DEF DataInv
<1>4. CASE NextFile(g)
  <2> DEFINE w == worker[g]
             pcOf(f, hint) ==
               LET mayAsk == /\ row[f].md5 # None /\ row[f].status # "pending"
                             /\ row[f].status = "inactive" => Exists(f)
               IN  IF mayAsk /\ (hint \/ Suspected(w, f)) THEN "ask"
                   ELSE IF mayAsk /\ w.rolling /\ IsDue(f) THEN "claim" ELSE "store"
             storedOf(f, hint) == [status |-> row[f].status, md5 |-> row[f].md5,
                                   onDisk |-> Exists(f), hint |-> hint, told |-> "unasked"]
             next(f, hint) == [w EXCEPT !.file = f, !.todo = @ \ {f}, !.changed = hint,
                                        !.stored = storedOf(f, hint), !.pc = pcOf(f, hint)]
  <2>1. PICK f \in w.todo : worker' = [worker EXCEPT ![g] = next(f, w.seen[f] # row[f].meta)]
    BY <1>4 DEF NextFile
  <2>2. f \in Files /\ row[f].md5 <= content[f]
    BY <1>1, <2>1 DEF EarnedInv, Working
  <2> DEFINE h == w.seen[f] # row[f].meta
  <2>3. /\ storedOf(f, h).status = row[f].status /\ storedOf(f, h).md5 = row[f].md5
        /\ storedOf(f, h).told = "unasked" /\ storedOf(f, h).onDisk = Exists(f)
    OBVIOUS
  <2>4. /\ pcOf(f, h) \in {"ask", "claim", "store"}
        /\ pcOf(f, h) = "claim" => ~h
        /\ pcOf(f, h) = "store" /\ h => NothingToCompare(storedOf(f, h))
    <3>1. row[f].status \in Status
      BY <2>2 DEF DataInv, FileRow
    <3>2. QED BY <3>1 DEF NothingToCompare, Status
  <2> HIDE DEF pcOf, storedOf, h
  <2>5. /\ next(f, h).file = f /\ next(f, h).pc = pcOf(f, h)
        /\ next(f, h).stored = storedOf(f, h) /\ next(f, h).changed = h
    BY <1>1 DEF Working
  <2>6. worker'[g] = next(f, h)
    BY <2>1 DEF WorkInv, h
  <2> HIDE DEF next
  <2>7. /\ worker'[g].file = f /\ worker'[g].pc = pcOf(f, h)
        /\ worker'[g].stored = storedOf(f, h) /\ worker'[g].changed = h
        /\ worker'[g].stored.md5 = row[f].md5 /\ worker'[g].stored.told = "unasked"
    BY <2>3, <2>5, <2>6
  <2>8. QED BY <1>0, <2>2, <2>4, <2>7 DEF Knows
<1>5. CASE Claim(g) \/ ReturnClaim(g)
  <2>1. \E pc \in {"return", "ask", "store"} : worker' = [worker EXCEPT ![g] = [@ EXCEPT !.pc = pc]]
    BY <1>5 DEF Claim, ReturnClaim
  <2>2. /\ worker'[g].stored = worker[g].stored /\ worker'[g].file = worker[g].file
        /\ worker'[g].changed = worker[g].changed
        /\ worker'[g].pc \in {"return", "ask", "store"}
    BY <1>1, <2>1 DEF WorkInv, Working
  <2>3. worker[g].pc \in {"claim", "return"}
    BY <1>5 DEF Claim, ReturnClaim
  <2>4. QED BY <1>0, <1>1, <2>2, <2>3 DEF Knows
<1>6. CASE Ask(g)
  <2> DEFINE w == worker[g]
             sum == IF w.file \in Summed THEN content[w.file] ELSE None
             now == Changed(sum, w.stored.md5, w.stored.hint)
             told == IF sum = None THEN "nothing" ELSE "sum"
             with(t) == [w.stored EXCEPT !.told = t]
             next(t, c) == [w EXCEPT !.pc = "store", !.changed = c, !.stored = with(t)]
  <2>1. \/ worker' = [worker EXCEPT ![g] = next(told, now)]
        \/ worker' = [worker EXCEPT ![g] = next("nothing", w.stored.hint)]
    BY <1>1, <1>6 DEF Ask, Working
  <2>2. w.stored.md5 <= content[w.file]
    BY <1>1, <1>6 DEF Ask, Knows
  <2>3. /\ told \in {"nothing", "sum"}
        /\ told = "sum" /\ now => w.stored.md5 < content[w.file]
    BY <1>2, <1>3, <2>2 DEF Changed, None
  <2>4. ASSUME NEW t
        PROVE  with(t).md5 = w.stored.md5 /\ with(t).told = t
    BY <1>2 DEF Stored
  <2> HIDE DEF with, now, sum, told
  <2>5. ASSUME NEW t, NEW c
        PROVE  /\ next(t, c).stored = with(t) /\ next(t, c).changed = c
               /\ next(t, c).file = w.file /\ next(t, c).pc = "store"
    BY <1>1 DEF Working
  <2> HIDE DEF next
  <2>6. worker'[g] = next(told, now) \/ worker'[g] = next("nothing", w.stored.hint)
    BY <2>1 DEF WorkInv
  <2>7. CASE worker'[g] = next(told, now)
    BY <1>0, <2>3, <2>4, <2>5, <2>7 DEF Knows
  <2>8. CASE worker'[g] = next("nothing", w.stored.hint)
    BY <1>0, <2>4, <2>5, <2>8 DEF Knows
  <2>9. QED BY <2>6, <2>7, <2>8
<1>7. CASE Store(g)
  <2>1. worker'[g].pc = "file"
    BY <1>1, <1>7 DEF Store, WorkInv, Working
  <2>2. QED BY <2>1 DEF Knows
<1>8. ASSUME NEW o \in Platforms, CheckBuild(g, o) PROVE Knows(worker[g])'
  <2> DEFINE w == worker[g]
             rest == w.asks \ {o}
             next(s) == [w EXCEPT !.asks = rest,
                                  !.pc = IF rest = {} THEN "file" ELSE "builds",
                                  !.suspect = s]
  <2>1. PICK s : worker' = [worker EXCEPT ![g] = next(s)]
    <3>1. \/ worker' = [worker EXCEPT ![g] = next(w.suspect)]
          \/ worker' = [worker EXCEPT ![g] = next(w.suspect \cup {o})]
      BY <1>1, <1>8 DEF CheckBuild, Working
    <3>2. QED BY <3>1
  <2>2. worker'[g].pc \in {"file", "builds"}
    BY <1>1, <2>1 DEF WorkInv, Working
  <2>3. QED BY <2>2 DEF Knows
<1>9. QED BY <1>4, <1>5, <1>6, <1>7, <1>8

LEMMA EarnedKept == IInv /\ EarnedInv /\ [Next]_vars => EarnedInv'
<1> SUFFICES ASSUME IInv, EarnedInv, [Next]_vars PROVE EarnedInv'
  OBVIOUS
<1>0. DataInv /\ WorkInv /\ FullInv /\ WorkInv'
  BY WorkKept DEF IInv
<1>1. \A f \in Files : row'[f].md5 <= content'[f]
  BY <1>0, RowsNotAhead
<1>2. ASSUME NEW g \in Games, worker'[g] # Free
      PROVE  Knows(worker[g])'
  <2>1. CASE worker'[g] = worker[g]
    BY <1>0, <1>2, <2>1, KnowledgeLasts
  <2>2. ASSUME NEW h \in Games, h # g, Game(h) \/ SyncGame(h)
        PROVE  worker'[g] = worker[g]
    BY <1>0, <2>2 DEF Game, SyncGame, StartGame, NextFile, Claim, ReturnClaim, Ask, Store,
       EndGame, CheckBuild, WorkInv
  <2>3. CASE StartGame(g) \/ SyncGame(g)
    <3>1. worker'[g] = worker[g] \/ worker'[g] = Begun(g, TRUE) \/ worker'[g] = Begun(g, FALSE)
      BY <1>0, <2>3 DEF StartGame, SyncGame, WorkInv
    <3>2. Begun(g, TRUE).pc \in {"builds", "file"} /\ Begun(g, FALSE).pc \in {"builds", "file"}
      BY <1>0, BegunProper
    <3>3. CASE worker'[g].pc \in {"builds", "file"}
      BY <3>3 DEF Knows
    <3>4. QED BY <2>1, <3>1, <3>2, <3>3
  <2>4. CASE EndGame(g)
    BY <1>0, <1>2, <2>4 DEF EndGame, WorkInv
  <2>5. CASE \/ NextFile(g) \/ Claim(g) \/ ReturnClaim(g) \/ Ask(g) \/ Store(g)
             \/ \E o \in Platforms : CheckBuild(g, o)
    BY <1>0, <2>5, SyncLearns
  <2>6. CASE UNCHANGED worker
    BY <2>1, <2>6
  <2>7. CASE Cancel \/ Stop \/ \E f \in Files : Drop(f)
    BY <1>0, <1>2, <2>1, <2>7, StopsHalt, AfterHalt
  <2>8. QED
    BY <2>1, <2>2, <2>3, <2>4, <2>5, <2>6, <2>7
    DEF Next, Game, Publish, Download, StartFull, FinishFull, Mount, Unmount, vars
<1>3. QED BY <1>1, <1>2 DEF EarnedInv

LEMMA EarnedInvariant == Spec => []EarnedInv
<1>1. Init => EarnedInv
  <2> SUFFICES ASSUME Init PROVE EarnedInv
    OBVIOUS
  <2>1. \A f \in Files : row[f].md5 <= content[f]
    BY DEF Init, None
  <2>2. QED BY <2>1 DEF Init, EarnedInv
<1>2. QED BY <1>1, EarnedKept, Invariant, PTL DEF Spec

\* For any number of games, files and releases, in whatever order GOG publishes
\* builds, metadata and bytes and the syncs read them: a copy that is there and
\* has a checksum is queued again only after GOG was asked, and told none or one
\* that differs from the copy's.
THEOREM RefetchesAreEarned == Spec => RefetchIsEarned
<1> DEFINE Earned(f) ==
      \/ ~Exists(f)
      \/ \E g \in Games : Upserts(g, f) /\
           LET s == worker[g].stored
           IN  \/ NothingToCompare(s) \/ s.told = "nothing"
               \/ s.told = "sum" /\ s.md5 # content[f]
<1>1. IInv /\ EarnedInv /\ [Next]_vars => [\A f \in Files : Requeued(f) => Earned(f)]_vars
  <2> SUFFICES ASSUME IInv, EarnedInv, Next, NEW f \in Files, Requeued(f)
               PROVE  Earned(f)
    BY DEF vars
  <2>0. DataInv /\ WorkInv /\ row \in [Files -> FileRow]
    BY DEF IInv, DataInv
  <2>1. CASE StartFull \/ FinishFull
    <3>1. row' \in {Aged(row), Aged(AfterCheck(row)), AfterCheck(row)}
      BY <2>1 DEF StartFull, FinishFull
    <3>2. Aged(row)[f].status = row[f].status
      BY <2>0 DEF Aged, FileRow
    <3>3. AfterCheck(row)[f] \in FileRow
          /\ (AfterCheck(row)[f].status # row[f].status => ~Exists(f))
      BY <2>0 DEF AfterCheck, FileRow, Status
    <3>4. Aged(AfterCheck(row))[f].status = AfterCheck(row)[f].status
      BY <3>3 DEF Aged, FileRow
    <3>5. QED BY <3>1, <3>2, <3>3, <3>4 DEF Requeued
  <2>2. ASSUME NEW g \in Games, Store(g) PROVE Earned(f)
    <3>1. worker[g] \in Working /\ worker[g].pc = "store" /\ Knows(worker[g])
      BY <2>0, <2>2 DEF Store, WorkInv, EarnedInv, Free
    <3>2. worker[g].file \in Files /\ worker[g].stored \in Stored
      BY <3>1 DEF Working
    <3>3. worker[g].file = f /\ Planned(worker[g]) = "pending"
      <4>1. row' = [row EXCEPT ![worker[g].file] = [@ EXCEPT !.status = Planned(worker[g]),
                                   !.meta = worker[g].seen[worker[g].file]]]
        BY <2>2 DEF Store
      <4>2. row[worker[g].file] \in FileRow
        BY <2>0, <3>2
      <4>3. CASE worker[g].file # f
        BY <2>0, <4>1, <4>3 DEF Requeued
      <4>4. CASE worker[g].file = f
        BY <2>0, <4>1, <4>2, <4>4 DEF Requeued, FileRow
      <4>5. QED BY <4>3, <4>4
    <3>4. worker'[g].pc = "file"
      BY <2>0, <2>2, <3>1 DEF Store, WorkInv, Working
    <3>5. Upserts(g, f)
      BY <3>1, <3>3, <3>4 DEF Upserts
    <3>6. \/ NothingToCompare(worker[g].stored)
          \/ /\ worker[g].stored.told # "unasked"
             /\ worker[g].stored.told = "sum" => worker[g].stored.md5 < content[f]
      BY <3>1, <3>3 DEF Knows, Planned, NothingToCompare
    <3>7. /\ worker[g].stored.md5 \in Nat /\ content[f] \in Nat
          /\ worker[g].stored.told \in {"unasked", "nothing", "sum"}
      BY <2>0, <3>2, VerifyAssumption DEF Stored, Version, DataInv
    <3>8. QED BY <3>5, <3>6, <3>7
  <2>3. ASSUME NEW e \in Files, Download(e) PROVE Earned(f)
    <3>1. \E sum : row' = [row EXCEPT ![e] = [@ EXCEPT !.status = "done", !.md5 = sum, !.age = 0]]
      BY <2>3 DEF Download
    <3>2. row'[f].status \in {"done", row[f].status}
      BY <2>0, <3>1 DEF FileRow
    <3>3. QED BY <3>2 DEF Requeued
  <2>4. ASSUME NEW g \in Games, Ask(g) PROVE Earned(f)
    <3>1. row' = row \/ row' = [row EXCEPT ![worker[g].file] = [@ EXCEPT !.age = 0]]
      BY <2>4 DEF Ask, Verified
    <3>2. row'[f].status = row[f].status
      BY <2>0, <3>1 DEF FileRow
    <3>3. QED BY <3>2 DEF Requeued
  <2>5. CASE UNCHANGED row
    BY <2>5 DEF Requeued
  <2>6. ASSUME NEW e \in Files, Drop(e) PROVE Earned(f)
    <3>1. row'[f].status \in {"inactive", row[f].status}
      BY <2>0, <2>6 DEF Drop, FileRow
    <3>2. QED BY <3>1 DEF Requeued
  <2>7. QED
    BY <2>1, <2>2, <2>3, <2>4, <2>5, <2>6
    DEF Next, Game, Publish, SyncGame, StartGame, NextFile, Claim, ReturnClaim,
        EndGame, CheckBuild, Cancel, Stop, Mount, Unmount
<1>2. QED BY <1>1, Invariant, EarnedInvariant, PTL DEF Spec, RefetchIsEarned
=============================================================================
