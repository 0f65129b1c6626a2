--------------------------- MODULE ProcessProofs ---------------------------
(***************************************************************************)
(* What Process promises for every channel, table and number of records,   *)
(* proved with TLAPS: nothing a worker said is lost to the shutdown, and   *)
(* the table of log records keeps its bound and its newest rows.           *)
(***************************************************************************)
EXTENDS Process, SequenceTheorems, TLAPS

\* The scheduler's types; a sync reads only plans that were stored, and a
\* change that goes on has one of its own to store.
PlansFit == /\ sched.seen <= wish
            /\ handler["change"] = "going" => wish < MaxWish
SchedInv == SchedulerTypeOK /\ PlansFit

\* How far main is, and what is over by then.
ShutdownInv ==
    /\ main \in {"serve", "wait", "farewell", "logs", "flush", "exit"}
    /\ queue \in BOOLEAN /\ open \in BOOLEAN
    /\ main \notin {"serve", "wait"} => ~queue /\ At("exit")
    /\ closing <=> main \in {"flush", "exit"}
    /\ writer.pc \in {"drain", "done"} => closing
    /\ ~open => main = "exit"
    /\ main = "exit" => writer.pc = "done"

\* The rows of the table, for every place of the writer.
EndsIn(rows, all) ==
    /\ MaxRows <= Len(rows) /\ Len(rows) <= Len(all)
    /\ \A i \in 1..Len(rows) : rows[i] = all[Len(all) - Len(rows) + i]

RowsInv ==
    /\ EndsIn(table, written)
    /\ writer.pc = "loop" => Len(table) <= MaxRows + writer.n
    /\ writer.pc = "prune" => Len(table) <= MaxRows + PruneEvery
    /\ writer.pc = "done" => Len(table) <= MaxRows

\* A record in the channel is not lost on its way to the table; what comes after
\* the writer comes from a handler.
RecordsInv ==
    /\ Range(channel) \subseteq accepted
    /\ accepted \subseteq Range(written) \cup Range(channel)
    /\ writer.pc = "done" => {r \in accepted : r[1] # "http"} \subseteq Range(written)

IInv == SchedInv /\ ShutdownInv /\ LogTypeOK /\ RowsInv /\ RecordsInv

-----------------------------------------------------------------------------
(* Sequences.                                                              *)

LEMMA RangeOfAppend ==
    ASSUME NEW S, NEW s \in Seq(S), NEW x \in S
    PROVE  Range(Append(s, x)) = Range(s) \cup {x}
<1>1. /\ Append(s, x) \in Seq(S) /\ Len(Append(s, x)) = Len(s) + 1
      /\ \A i \in 1..Len(s) : Append(s, x)[i] = s[i]
      /\ Append(s, x)[Len(s) + 1] = x
  BY AppendProperties
<1>2. Len(s) \in Nat
  BY LenProperties
<1>3. Range(s) = {s[i] : i \in 1..Len(s)}
  BY RangeEquality
<1>4. Range(Append(s, x)) = {Append(s, x)[i] : i \in 1..(Len(s) + 1)}
  BY <1>1, RangeEquality
<1>5. QED BY <1>1, <1>2, <1>3, <1>4

LEMMA RangeOfTail ==
    ASSUME NEW S, NEW s \in Seq(S), s # <<>>
    PROVE  Range(s) = {Head(s)} \cup Range(Tail(s))
<1>1. /\ Tail(s) \in Seq(S) /\ Len(Tail(s)) = Len(s) - 1
      /\ \A i \in 1..Len(Tail(s)) : Tail(s)[i] = s[i + 1]
  BY HeadTailProperties
<1>2. Len(s) \in Nat \ {0} /\ Head(s) = s[1]
  BY EmptySeq
<1>3. Range(s) = {s[i] : i \in 1..Len(s)}
  BY RangeEquality
<1>4. Range(Tail(s)) = {Tail(s)[i] : i \in 1..(Len(s) - 1)}
  BY <1>1, RangeEquality
<1>5. Range(s) \subseteq {Head(s)} \cup Range(Tail(s))
  <2> SUFFICES ASSUME NEW i \in 1..Len(s), s[i] # Head(s)
               PROVE  s[i] \in Range(Tail(s))
    BY <1>3
  <2>1. i - 1 \in 1..(Len(s) - 1) /\ Tail(s)[i - 1] = s[i]
    BY <1>1, <1>2
  <2>2. QED BY <1>4, <2>1
<1>6. {Head(s)} \cup Range(Tail(s)) \subseteq Range(s)
  <2>1. \A i \in 1..(Len(s) - 1) : Tail(s)[i] = s[i + 1] /\ i + 1 \in 1..Len(s)
    BY <1>1, <1>2
  <2>2. Head(s) \in Range(s)
    BY <1>2, <1>3
  <2>3. QED BY <1>3, <1>4, <2>1, <2>2
<1>7. QED BY <1>5, <1>6

-----------------------------------------------------------------------------
(* The rows.                                                               *)

LEMMA EndAppended ==
    ASSUME NEW S, NEW s \in Seq(S), NEW t \in Seq(S), NEW x \in S, EndsIn(s, t)
    PROVE  EndsIn(Append(s, x), Append(t, x)) /\ Len(Append(s, x)) = Len(s) + 1
<1>1. /\ Len(Append(s, x)) = Len(s) + 1 /\ Len(s) \in Nat
      /\ \A i \in 1..Len(s) : Append(s, x)[i] = s[i]
      /\ Append(s, x)[Len(s) + 1] = x
  BY AppendProperties, LenProperties
<1>2. /\ Len(Append(t, x)) = Len(t) + 1 /\ Len(t) \in Nat
      /\ \A i \in 1..Len(t) : Append(t, x)[i] = t[i]
      /\ Append(t, x)[Len(t) + 1] = x
  BY AppendProperties, LenProperties
<1> DEFINE m == Len(s)
           n == Len(t)
<1>3. m <= n /\ MaxRows <= m /\ \A i \in 1..m : s[i] = t[n - m + i]
  BY DEF EndsIn
<1>4. ASSUME NEW i \in 1..(m + 1)
      PROVE  Append(s, x)[i] = Append(t, x)[(n + 1) - (m + 1) + i]
  <2>1. CASE i = m + 1
    BY <1>1, <1>2, <2>1
  <2>2. CASE i \in 1..m
    <3>1. n - m + i \in 1..n /\ (n + 1) - (m + 1) + i = n - m + i
      BY <1>1, <1>2, <1>3, <2>2
    <3>2. QED BY <1>1, <1>2, <1>3, <2>2, <3>1
  <2>3. i = m + 1 \/ i \in 1..m
    <3>1. m \in Nat
      BY <1>1
    <3> HIDE DEF m
    <3>2. QED BY <3>1
  <2>4. QED BY <2>1, <2>2, <2>3
<1>5. MaxRows <= m + 1 /\ m + 1 <= n + 1
  BY <1>1, <1>2, <1>3, LogAssumption
<1>6. QED BY <1>1, <1>2, <1>4, <1>5 DEF EndsIn

LEMMA EndPruned ==
    ASSUME NEW S, NEW s \in Seq(S), NEW t \in Seq(S), EndsIn(s, t), Len(s) > MaxRows
    PROVE  /\ Newest(s) \in Seq(S) /\ EndsIn(Newest(s), t)
           /\ Len(Newest(s)) = MaxRows
<1> DEFINE m == Len(s)
           n == Len(t)
           from == m - MaxRows + 1
<1>1. m \in Nat /\ n \in Nat /\ MaxRows \in Nat \ {0} /\ m <= n
      /\ \A i \in 1..m : s[i] = t[n - m + i]
  BY LenProperties, LogAssumption DEF EndsIn
<1>2. from \in Int /\ from <= m /\ m - from + 1 = MaxRows /\ 1 <= from
  BY <1>1
<1>3. \A i \in from..m : s[i] \in S
  BY <1>1, <1>2, ElementOfSeq
<1>4. /\ SubSeq(s, from, m) \in Seq(S)
      /\ Len(SubSeq(s, from, m)) = MaxRows
      /\ \A i \in 1..MaxRows : SubSeq(s, from, m)[i] = s[from + i - 1]
  BY <1>1, <1>2, <1>3, SubSeqProperties
<1>5. ASSUME NEW i \in 1..MaxRows
      PROVE  SubSeq(s, from, m)[i] = t[n - MaxRows + i]
  <2>1. from + i - 1 \in 1..m /\ n - m + (from + i - 1) = n - MaxRows + i
    BY <1>1, <1>2
  <2>2. QED BY <1>1, <1>4, <2>1
<1>6. Newest(s) = SubSeq(s, from, m)
  BY DEF Newest
<1>7. MaxRows <= n
  BY <1>1
<1>8. Len(Newest(s)) = MaxRows
  BY <1>4, <1>6
<1>9. EndsIn(Newest(s), t)
  <2>1. \A i \in 1..MaxRows : Newest(s)[i] = t[n - MaxRows + i]
    BY <1>5, <1>6
  <2> HIDE DEF m, from
  <2>2. QED BY <1>1, <1>7, <1>8, <2>1 DEF EndsIn
<1>10. QED BY <1>4, <1>6, <1>8, <1>9

LEMMA TableIsPruned ==
    ASSUME LogTypeOK, EndsIn(table, written)
    PROVE  /\ Pruned(TRUE) \in Seq(Row) /\ EndsIn(Pruned(TRUE), written)
           /\ Len(Pruned(TRUE)) <= MaxRows
<1>1. table \in Seq(Row) /\ written \in Seq(Row) /\ Len(table) \in Nat /\ MaxRows \in Nat
  BY LenProperties, LogAssumption DEF LogTypeOK
<1>2. CASE Len(table) > MaxRows
  BY <1>1, <1>2, EndPruned DEF Pruned
<1>3. CASE ~(Len(table) > MaxRows)
  BY <1>1, <1>3 DEF Pruned
<1>4. QED BY <1>2, <1>3

-----------------------------------------------------------------------------
\* What the scheduler works with, and where it is.
StoredTyped ==
    /\ setup \in BOOLEAN /\ authed \in BOOLEAN /\ ran \in BOOLEAN
    /\ wish \in 0..MaxWish /\ asked \in 0..wish /\ served \in 0..wish
    /\ interval \in Intervals /\ age \in 0..MaxAge
    /\ trigger \in BOOLEAN /\ nudge \in BOOLEAN /\ shown \in BOOLEAN
    /\ handler \in [Kinds -> {"off", "idle", "going", "stored", "triggered"}]
    /\ stopping \in BOOLEAN

SchedTyped ==
    sched \in [pc: {"look", "plan", "arm", "wait", "check", "start", "sync", "exit"},
               timer: {Soon, Poll} \cup Intervals, seen: 0..MaxWish, cancelled: BOOLEAN]

LEMMA SchedParts ==
    SchedInv <=> StoredTyped /\ SchedTyped /\ PlansFit
BY DEF SchedInv, SchedulerTypeOK, StoredTyped, SchedTyped

LEMMA InitInv == Init => IInv
<1> SUFFICES ASSUME Init PROVE IInv
  OBVIOUS
<1> PICK cast \in Casts : SchedulerInit(cast) /\ LogInit(cast)
  BY DEF Init
<1>1. SchedInv
  <2>1. /\ setup \in BOOLEAN /\ authed \in BOOLEAN /\ ran = FALSE
        /\ wish = 0 /\ asked = 0 /\ served = 0 /\ interval \in Intervals /\ age = 0
        /\ trigger = FALSE /\ nudge = FALSE /\ shown = FALSE /\ stopping = FALSE
    BY DEF SchedulerInit
  <2>2. sched = [pc |-> "look", timer |-> Poll, seen |-> 0, cancelled |-> FALSE]
    BY DEF SchedulerInit
  <2>3. handler \in [Kinds -> {"off", "idle", "going", "stored", "triggered"}]
    BY DEF SchedulerInit
  <2>4. 0 \in 0..MaxWish /\ 0 \in 0..MaxAge
    BY SchedulerAssumption
  <2>5. SchedTyped
    BY <2>2, <2>4 DEF SchedTyped
  <2>6. StoredTyped
    <3>1. asked \in 0..wish /\ served \in 0..wish
      BY <2>1
    <3>2. ran \in BOOLEAN /\ trigger \in BOOLEAN /\ nudge \in BOOLEAN /\ shown \in BOOLEAN
          /\ stopping \in BOOLEAN
      BY <2>1
    <3>3. QED BY <2>1, <2>3, <2>4, <3>1, <3>2 DEF StoredTyped
  <2>7. PlansFit
    <3>1. handler["change"] \in {"idle", "off"}
      BY DEF SchedulerInit, Kinds
    <3>2. QED BY <2>1, <2>2, <3>1 DEF PlansFit
  <2>8. QED BY <2>5, <2>6, <2>7 DEF SchedInv, SchedulerTypeOK, StoredTyped, SchedTyped
<1>2. ShutdownInv
  BY DEF Init, LogInit, ShutdownInv
<1>3. Earlier \in Seq(Row) /\ Len(Earlier) = MaxRows
  <2>1. MaxRows \in Nat /\ Earlier \in [1..MaxRows -> Range(Earlier)]
    BY LogAssumption DEF Earlier, Range
  <2>2. Earlier \in Seq(Range(Earlier)) /\ Len(Earlier) = MaxRows
    BY <2>1, SeqDef
  <2>3. QED BY <2>2, SeqMonotonic DEF Row
<1>4. <<>> \in Seq(Record) /\ Len(<<>>) = 0
  BY EmptySeq
<1>5. LogTypeOK
  <2>1. logged \in [Sources -> 0..MaxRecords]
    BY LogAssumption DEF LogInit
  <2>2. writer \in [pc: {"loop", "prune", "drain", "done"}, n: 0..(PruneEvery - 1)]
    BY LogAssumption DEF LogInit
  <2>3. channel \in Seq(Record) /\ Len(channel) <= Capacity
    BY <1>4, LogAssumption DEF LogInit
  <2>4. QED BY <1>3, <2>1, <2>2, <2>3 DEF LogInit, LogTypeOK
<1>6. RowsInv
  <2>1. MaxRows \in Nat
    BY LogAssumption
  <2>2. EndsIn(Earlier, Earlier)
    BY <1>3, <2>1 DEF EndsIn
  <2>3. QED BY <1>3, <2>1, <2>2 DEF LogInit, RowsInv
<1>7. RecordsInv
  <2>1. Range(<<>>) = {}
    BY DEF Range
  <2>2. QED BY <2>1 DEF LogInit, RecordsInv
<1>8. QED BY <1>1, <1>2, <1>5, <1>6, <1>7 DEF IInv

-----------------------------------------------------------------------------
(* The scheduler.                                                          *)

LEMMA CancelTyped ==
    ASSUME SchedInv, CancelSync
    PROVE  SchedTyped' /\ sched'.pc = sched.pc /\ sched'.seen = sched.seen
<1> DEFINE c == sched.cancelled \/ At("start") \/ At("sync")
<1>1. c \in BOOLEAN
  OBVIOUS
<1>2. sched' = [sched EXCEPT !.cancelled = c]
  BY DEF CancelSync
<1> HIDE DEF c
<1>3. QED BY <1>1, <1>2 DEF SchedInv, SchedulerTypeOK, SchedTyped

LEMMA MoveTyped ==
    ASSUME StoredTyped, NEW k \in Kinds, NEW from,
           NEW to \in {"off", "idle", "going", "stored", "triggered"}, Move(k, from, to)
    PROVE  handler' \in [Kinds -> {"off", "idle", "going", "stored", "triggered"}]
BY DEF StoredTyped, Move

\* Run moves on: only a sync that reads and one that ends do more.
LEMMA RunKeeps ==
    ASSUME SchedInv, RunStep
    PROVE  SchedInv'
<1>0. /\ StoredTyped /\ SchedTyped /\ PlansFit
      /\ wish \in Nat /\ wish <= MaxWish /\ sched.seen \in Nat
  BY SchedParts, SchedulerAssumption DEF StoredTyped, SchedTyped
<1>1. CASE EndSync
  <2>1. sched' = [sched EXCEPT !.pc = "look", !.seen = 0, !.cancelled = FALSE]
    BY <1>1 DEF EndSync
  <2>2. SchedTyped' /\ sched'.seen = 0
    <3>1. 0 \in 0..MaxWish
      BY SchedulerAssumption
    <3>2. QED BY <1>0, <2>1, <3>1 DEF SchedTyped
  <2>3. served' \in 0..wish /\ ran' \in BOOLEAN /\ age' \in 0..MaxAge
    <3>1. \/ UNCHANGED syncs
          \/ /\ served' = sched.seen
             /\ ran' = TRUE
             /\ age' = 0
      BY <1>1, Zenon DEF EndSync
    <3>2. 0 \in 0..MaxAge /\ sched.seen \in 0..wish
      BY <1>0, SchedulerAssumption DEF PlansFit
    <3>3. served \in 0..wish /\ age \in 0..MaxAge /\ ran \in BOOLEAN
      BY <1>0 DEF StoredTyped
    <3>4. CASE UNCHANGED syncs
      BY <3>3, <3>4 DEF syncs
    <3>5. CASE served' = sched.seen /\ ran' = TRUE /\ age' = 0
      BY <3>2, <3>5
    <3>6. QED BY <3>1, <3>4, <3>5
  <2>4. UNCHANGED <<stored, asked, channels, shown, handler, stopping>>
    BY <1>1 DEF EndSync
  <2>5. StoredTyped'
    BY <1>0, <2>3, <2>4 DEF StoredTyped, stored, channels
  <2>6. PlansFit'
    BY <1>0, <2>2, <2>4 DEF stored, PlansFit
  <2>7. QED BY <2>2, <2>5, <2>6 DEF SchedInv, SchedulerTypeOK, StoredTyped, SchedTyped
<1>2. CASE SyncReads
  <2>1. /\ sched' = [sched EXCEPT !.pc = "sync", !.seen = wish]
        /\ UNCHANGED <<stored, asked, syncs, channels, shown, handler, stopping>>
    BY <1>2 DEF SyncReads
  <2>2. SchedTyped' /\ sched'.seen = wish
    BY <1>0, <2>1 DEF SchedTyped, StoredTyped, Soon, Poll
  <2>3. StoredTyped' /\ wish' = wish
    BY <1>0, <2>1 DEF StoredTyped, stored, syncs, channels
  <2>4. PlansFit'
    BY <1>0, <2>1, <2>2, <2>3 DEF PlansFit
  <2>5. QED BY <2>2, <2>3, <2>4 DEF SchedInv, SchedulerTypeOK, StoredTyped, SchedTyped
<1>3. CASE ~EndSync /\ ~SyncReads
  <2>1. SchedTyped' /\ sched'.seen = sched.seen
    <3>1. CASE Look
      BY <1>0, <3>1 DEF Look, Goto, Arm, SchedTyped
    <3>2. CASE PlanNext
      <4>1. NextRun \in {Soon, Poll} \cup Intervals
        BY <1>0 DEF NextRun, StoredTyped
      <4>2. QED BY <1>0, <3>2, <4>1 DEF PlanNext, Arm, SchedTyped
    <3>3. CASE AwaitNext \/ TimerFires \/ TakeTrigger \/ TakeNudge \/ LeaveRun
      BY <1>0, <3>3 DEF AwaitNext, TimerFires, TakeTrigger, TakeNudge, LeaveRun, Goto, SchedTyped
    <3>4. CASE StartSync
      <4>1. stopping \in BOOLEAN
        BY <1>0 DEF StoredTyped
      <4>2. \/ sched' = [sched EXCEPT !.pc = "start", !.cancelled = stopping]
            \/ sched' = [sched EXCEPT !.pc = "look"]
        BY <3>4 DEF StartSync, Goto
      <4>3. QED BY <1>0, <4>1, <4>2 DEF SchedTyped
    <3>5. QED BY <1>3, <3>1, <3>2, <3>3, <3>4 DEF RunStep
  <2>2. shown' \in BOOLEAN /\ trigger' \in BOOLEAN /\ nudge' \in BOOLEAN
    BY <1>0, <1>3 DEF RunStep, Look, PlanNext, AwaitNext, TimerFires, TakeTrigger, TakeNudge,
                      LeaveRun, StartSync, Shows, channels, StoredTyped
  <2>3. UNCHANGED <<stored, asked, syncs, handler, stopping>>
    BY <1>3 DEF RunStep, Look, PlanNext, AwaitNext, TimerFires, TakeTrigger, TakeNudge,
                LeaveRun, StartSync
  <2>4. StoredTyped' /\ wish' = wish
    BY <1>0, <2>2, <2>3 DEF StoredTyped, stored, syncs
  <2>5. PlansFit'
    BY <1>0, <2>1, <2>3, <2>4 DEF PlansFit
  <2>6. QED BY <2>1, <2>4, <2>5 DEF SchedInv, SchedulerTypeOK, StoredTyped, SchedTyped
<1>4. QED BY <1>1, <1>2, <1>3

LEMMA RequestKeeps ==
    ASSUME SchedInv, Tick \/ NewRequest \/ HandlerStep \/ StopScheduler
    PROVE  SchedInv'
<1>0. /\ StoredTyped /\ SchedTyped /\ PlansFit
      /\ wish \in Nat /\ wish <= MaxWish /\ MaxWish \in Nat /\ sched.seen \in Nat
  BY SchedParts, SchedulerAssumption DEF StoredTyped, SchedTyped
<1>1. SchedTyped' /\ sched'.seen = sched.seen
  <2>1. CASE UNCHANGED sched
    BY <1>0, <2>1 DEF SchedTyped
  <2>2. CASE CancelSync
    BY <2>2, CancelTyped
  <2>3. QED
    BY <2>1, <2>2
    DEF Tick, NewRequest, HandlerStep, StopScheduler, RequestSync, BeginChange, StoreInterval,
        LogIn, BeginLogOut, CompleteSetup, StoreChange, TriggerChange, NudgeChange, NudgeInterval,
        TriggerLogIn, LogOut, NudgeLogOut, TriggerSetup
<1>2. handler' \in [Kinds -> {"off", "idle", "going", "stored", "triggered"}]
  <2>1. CASE UNCHANGED handler
    BY <1>0, <2>1 DEF StoredTyped
  <2>2. ASSUME NEW k \in Kinds, NEW from,
               NEW to \in {"off", "idle", "going", "stored", "triggered"}, Move(k, from, to)
        PROVE  handler' \in [Kinds -> {"off", "idle", "going", "stored", "triggered"}]
    BY <1>0, <2>2, MoveTyped
  <2>3. CASE NewRequest
    BY <2>2, <2>3
    DEF NewRequest, RequestSync, BeginChange, StoreInterval, LogIn, BeginLogOut, CompleteSetup, Kinds
  <2>4. CASE HandlerStep
    BY <2>2, <2>4
    DEF HandlerStep, StoreChange, TriggerChange, NudgeChange, NudgeInterval,
        TriggerLogIn, LogOut, NudgeLogOut, TriggerSetup, Kinds
  <2>5. QED BY <2>1, <2>3, <2>4 DEF Tick, StopScheduler
<1>3. CASE StoreChange
  <2>1. /\ wish' = wish + 1
        /\ UNCHANGED <<setup, authed, interval, asked, syncs, channels, shown, stopping>>
    BY <1>3 DEF StoreChange
  <2>2. handler["change"] = "going" /\ handler'["change"] = "stored"
    BY <1>0, <1>3 DEF StoreChange, Move, StoredTyped, Kinds
  <2>3. wish < MaxWish
    BY <1>0, <2>2 DEF PlansFit
  <2>4. wish' \in 0..MaxWish /\ asked' \in 0..wish' /\ served' \in 0..wish'
    BY <1>0, <2>1, <2>3 DEF StoredTyped, syncs
  <2>5. StoredTyped'
    BY <1>0, <1>2, <2>1, <2>4 DEF StoredTyped, syncs, channels
  <2>6. PlansFit'
    BY <1>0, <1>1, <2>1, <2>2 DEF PlansFit
  <2>7. QED BY <1>1, <2>5, <2>6 DEF SchedInv, SchedulerTypeOK, StoredTyped, SchedTyped
<1>4. CASE ~StoreChange
  <2>1. wish' = wish /\ UNCHANGED <<served, ran>>
    BY <1>4
    DEF Tick, NewRequest, HandlerStep, StopScheduler, RequestSync, BeginChange, StoreInterval,
        LogIn, BeginLogOut, CompleteSetup, TriggerChange, NudgeChange, NudgeInterval,
        TriggerLogIn, LogOut, NudgeLogOut, TriggerSetup, stored, syncs
  <2>2. asked' \in {asked, wish}
    BY <1>4
    DEF Tick, NewRequest, HandlerStep, StopScheduler, RequestSync, BeginChange, StoreInterval,
        LogIn, BeginLogOut, CompleteSetup, TriggerChange, NudgeChange, NudgeInterval,
        TriggerLogIn, LogOut, NudgeLogOut, TriggerSetup, TriggerNow
  <2>3. age' \in 0..MaxAge /\ interval' \in Intervals
    <3>1. CASE Tick
      BY <1>0, <3>1, SchedulerAssumption DEF Tick, StoredTyped, stored
    <3>2. CASE StoreInterval
      BY <1>0, <3>2 DEF StoreInterval, StoredTyped, syncs
    <3>3. CASE ~Tick /\ ~StoreInterval
      <4>1. UNCHANGED <<age, interval>>
        BY <1>4, <3>3
        DEF NewRequest, HandlerStep, StopScheduler, RequestSync, BeginChange,
            LogIn, BeginLogOut, CompleteSetup, TriggerChange, NudgeChange, NudgeInterval,
            TriggerLogIn, LogOut, NudgeLogOut, TriggerSetup, stored, syncs
      <4>2. QED BY <1>0, <4>1 DEF StoredTyped
    <3>4. QED BY <3>1, <3>2, <3>3
  <2>4. trigger' \in BOOLEAN /\ nudge' \in BOOLEAN /\ shown' \in BOOLEAN
    BY <1>0, <1>4
    DEF Tick, NewRequest, HandlerStep, StopScheduler, RequestSync, BeginChange, StoreInterval,
        LogIn, BeginLogOut, CompleteSetup, TriggerChange, NudgeChange, NudgeInterval,
        TriggerLogIn, LogOut, NudgeLogOut, TriggerSetup, TriggerNow, Reschedule, Sent,
        channels, StoredTyped
  <2>5. setup' \in BOOLEAN /\ authed' \in BOOLEAN /\ stopping' \in BOOLEAN
    BY <1>0, <1>4
    DEF Tick, NewRequest, HandlerStep, StopScheduler, RequestSync, BeginChange, StoreInterval,
        LogIn, BeginLogOut, CompleteSetup, TriggerChange, NudgeChange, NudgeInterval,
        TriggerLogIn, LogOut, NudgeLogOut, TriggerSetup, stored, StoredTyped
  <2>6. asked' \in 0..wish
    BY <1>0, <2>2 DEF StoredTyped
  <2>7. StoredTyped'
    BY <1>0, <1>2, <2>1, <2>3, <2>4, <2>5, <2>6 DEF StoredTyped
  <2>8. handler'["change"] = "going" => handler["change"] = "going" \/ wish < MaxWish
    <3>1. CASE BeginChange
      BY <3>1 DEF BeginChange
    <3>2. CASE ~BeginChange
      BY <1>0, <1>4, <3>2
      DEF Tick, NewRequest, HandlerStep, StopScheduler, RequestSync, StoreInterval,
          LogIn, BeginLogOut, CompleteSetup, TriggerChange, NudgeChange, NudgeInterval,
          TriggerLogIn, LogOut, NudgeLogOut, TriggerSetup, Move, StoredTyped, Kinds
    <3>3. QED BY <3>1, <3>2
  <2>9. PlansFit'
    BY <1>0, <1>1, <2>1, <2>8 DEF PlansFit
  <2>10. QED BY <1>1, <2>7, <2>9 DEF SchedInv, SchedulerTypeOK, StoredTyped, SchedTyped
<1>5. QED BY <1>3, <1>4

LEMMA SchedulerKeeps ==
    ASSUME SchedInv, RunStep \/ Tick \/ NewRequest \/ HandlerStep \/ StopScheduler
    PROVE  SchedInv'
BY RunKeeps, RequestKeeps

\* Run of the scheduler does not begin again.
LEMMA RunIsOver ==
    ASSUME SchedInv, At("exit"), RunStep \/ Tick \/ NewRequest \/ HandlerStep \/ StopScheduler
    PROVE  At("exit")'
<1>1. ~RunStep
  BY DEF At, RunStep, Look, PlanNext, AwaitNext, TimerFires, TakeTrigger, TakeNudge, LeaveRun,
         StartSync, SyncReads, EndSync
<1>2. CASE UNCHANGED sched
  BY <1>2 DEF At
<1>3. CASE CancelSync
  BY <1>3, CancelTyped DEF At
<1>4. QED
  BY <1>1, <1>2, <1>3
  DEF Tick, NewRequest, HandlerStep, StopScheduler, RequestSync, BeginChange, StoreInterval,
      LogIn, BeginLogOut, CompleteSetup, StoreChange, TriggerChange, NudgeChange, NudgeInterval,
      TriggerLogIn, LogOut, NudgeLogOut, TriggerSetup

LEMMA SchedKept == IInv /\ [Next]_vars => SchedInv'
<1> SUFFICES ASSUME SchedInv, [Next]_vars PROVE SchedInv'
  BY DEF IInv
<1>1. CASE UNCHANGED schedulerVars
  BY <1>1 DEF schedulerVars, stored, syncs, channels, SchedInv, SchedulerTypeOK, PlansFit
<1>2. CASE Schedule \/ StopServing
  BY <1>2, SchedulerKeeps DEF Schedule, StopServing, StopWorkers
<1>3. QED
  BY <1>1, <1>2
  DEF Next, LogRecord, Write, PruneDueByTime, QueueEnds, MainStep, WaitForWorkers, ReturnFromRun,
      DeferredLogs, DeferredDatabase, vars

-----------------------------------------------------------------------------
(* The way down.                                                           *)

LEMMA ShutdownKept == IInv /\ [Next]_vars => ShutdownInv'
<1> SUFFICES ASSUME SchedInv, ShutdownInv, LogTypeOK, [Next]_vars PROVE ShutdownInv'
  BY DEF IInv
<1>1. ASSUME NEW s \in Sources, LogRecord(s) PROVE ShutdownInv'
  BY <1>1 DEF LogRecord, Log, schedulerVars, processVars, ShutdownInv, At
<1>2. CASE Write
  BY <1>2
  DEF Write, WriterStep, WriteRecord, PruneNow, StartDrain, DrainRecord, EndDrain, Insert,
      schedulerVars, processVars, ShutdownInv, LogTypeOK, At
<1>3. CASE PruneDueByTime
  BY <1>3 DEF PruneDueByTime, PruneTimer, PruneNow, schedulerVars, processVars,
              ShutdownInv, LogTypeOK, At
<1>4. CASE Schedule
  <2>1. UNCHANGED <<logVars, processVars>>
    BY <1>4 DEF Schedule
  <2>2. At("exit") => At("exit")'
    BY <1>4, RunIsOver DEF Schedule
  <2>3. QED BY <2>1, <2>2 DEF logVars, processVars, ShutdownInv
<1>5. CASE StopServing
  BY <1>5 DEF StopServing, logVars, ShutdownInv
<1>6. CASE QueueEnds
  BY <1>6 DEF QueueEnds, schedulerVars, logVars, ShutdownInv, At
<1>7. CASE MainStep
  <2>1. CASE WaitForWorkers
    BY <2>1 DEF WaitForWorkers, WorkersGone, schedulerVars, logVars, ShutdownInv, At
  <2>2. CASE ReturnFromRun
    BY <2>2 DEF ReturnFromRun, schedulerVars, logVars, ShutdownInv, At
  <2>3. CASE DeferredLogs
    BY <2>3 DEF DeferredLogs, CloseLogs, schedulerVars, ShutdownInv, At
  <2>4. CASE DeferredDatabase
    BY <2>4 DEF DeferredDatabase, LogsClosed, schedulerVars, logVars, ShutdownInv, At
  <2>5. QED BY <1>7, <2>1, <2>2, <2>3, <2>4 DEF MainStep
<1>8. CASE UNCHANGED vars
  BY <1>8 DEF vars, schedulerVars, logVars, processVars, ShutdownInv, At
<1>9. QED
  BY <1>1, <1>2, <1>3, <1>4, <1>5, <1>6, <1>7, <1>8 DEF Next

-----------------------------------------------------------------------------
(* The log store.                                                          *)

LogInv == LogTypeOK /\ RowsInv /\ RecordsInv

\* A record goes from the channel into the table.
LEMMA Inserted ==
    ASSUME LogInv, Insert(TRUE)
    PROVE  /\ table' \in Seq(Row) /\ written' \in Seq(Row)
           /\ EndsIn(table', written') /\ Len(table') = Len(table) + 1
           /\ channel' \in Seq(Record) /\ Len(channel') <= Capacity
           /\ Range(channel') \subseteq accepted
           /\ Range(written') \subseteq accepted \cup Range(Earlier)
           /\ accepted \subseteq Range(written') \cup Range(channel')
<1> DEFINE h == Head(channel)
<1>1. /\ channel \in Seq(Record) /\ channel # <<>> /\ channel' = Tail(channel)
      /\ table' = Append(table, h) /\ written' = Append(written, h)
      /\ table \in Seq(Row) /\ written \in Seq(Row) /\ EndsIn(table, written)
  BY DEF Insert, LogInv, LogTypeOK, RowsInv
<1>2. h \in Record /\ channel' \in Seq(Record) /\ Len(channel') = Len(channel) - 1
  BY <1>1, HeadTailProperties
<1>3. h \in Row
  BY <1>2 DEF Row
<1>4. Range(channel) = {h} \cup Range(channel')
  BY <1>1, RangeOfTail
<1>5. Range(written') = Range(written) \cup {h}
  BY <1>1, <1>3, RangeOfAppend
<1>6. /\ table' \in Seq(Row) /\ written' \in Seq(Row)
      /\ EndsIn(table', written') /\ Len(table') = Len(table) + 1
  BY <1>1, <1>3, EndAppended, AppendProperties
<1>7. Len(channel') <= Capacity
  BY <1>1, <1>2, LenProperties, LogAssumption DEF LogInv, LogTypeOK
<1> HIDE DEF h
<1>8. QED BY <1>2, <1>4, <1>5, <1>6, <1>7 DEF LogInv, LogTypeOK, RecordsInv

LEMMA LogKept == IInv /\ [Next]_vars => LogInv'
<1> SUFFICES ASSUME ShutdownInv, LogInv, [Next]_vars PROVE LogInv'
  BY DEF IInv, LogInv
<1>0. MaxRows \in Nat \ {0} /\ PruneEvery \in Nat \ {0} /\ Len(table) \in Nat
  BY LogAssumption, LenProperties DEF LogInv, LogTypeOK
<1>1. ASSUME NEW s \in Sources, LogRecord(s) PROVE LogInv'
  <2> DEFINE r == <<s, logged[s] + 1>>
  <2>1. logged' = [logged EXCEPT ![s] = @ + 1] /\ UNCHANGED <<table, writer, closing, written>>
    BY <1>1 DEF LogRecord, Log
  <2>2. logged' \in [Sources -> 0..MaxRecords] /\ r \in Record
    BY <1>1, <2>1, LogAssumption DEF LogRecord, Log, LogInv, LogTypeOK, Record
  <2>3. writer.pc = "done" => s = "http"
    BY <1>1, ProcessAssumption DEF LogRecord, Alive, ShutdownInv
  <2>4. r[1] = s
    OBVIOUS
  <2> HIDE DEF r
  <2>5. CASE channel' = Append(channel, r) /\ accepted' = accepted \cup {r} /\ HasRoom(channel)
    <3>1. Range(channel') = Range(channel) \cup {r} /\ channel' \in Seq(Record)
          /\ Len(channel') = Len(channel) + 1 /\ Len(channel) \in Nat
      BY <2>2, <2>5, RangeOfAppend, AppendProperties, LenProperties DEF LogInv, LogTypeOK
    <3>2. Len(channel') <= Capacity
      BY <2>5, <3>1, LogAssumption DEF HasRoom
    <3>3. LogTypeOK'
      BY <2>1, <2>2, <2>5, <3>1, <3>2 DEF LogInv, LogTypeOK
    <3>4. RecordsInv'
      BY <2>1, <2>3, <2>4, <2>5, <3>1 DEF LogInv, RecordsInv
    <3>5. RowsInv'
      BY <2>1 DEF LogInv, RowsInv
    <3>6. QED BY <3>3, <3>4, <3>5 DEF LogInv
  <2>6. CASE UNCHANGED <<channel, accepted>>
    BY <2>1, <2>2, <2>6 DEF LogInv, LogTypeOK, RowsInv, RecordsInv
  <2>7. (channel' = Append(channel, r) /\ accepted' = accepted \cup {r} /\ HasRoom(channel))
        \/ UNCHANGED <<channel, accepted>>
    BY <1>1 DEF LogRecord, Log, r
  <2>8. QED BY <2>5, <2>6, <2>7
<1>2. ASSUME WriteRecord(TRUE) \/ DrainRecord(TRUE) PROVE LogInv'
  <2>1. Insert(TRUE) /\ UNCHANGED <<logged, accepted, closing>>
    BY <1>2 DEF WriteRecord, DrainRecord
  <2>2. writer \in [pc: {"loop", "prune", "drain", "done"}, n: 0..(PruneEvery - 1)]
    BY DEF LogInv, LogTypeOK
  <2>3. CASE WriteRecord(TRUE)
    <3>1. /\ writer.pc = "loop"
          /\ writer' = IF writer.n + 1 >= PruneEvery THEN [pc |-> "prune", n |-> 0]
                       ELSE [writer EXCEPT !.n = @ + 1]
      BY <2>3 DEF WriteRecord, PruneDue
    <3>2. writer' \in [pc: {"loop", "prune", "drain", "done"}, n: 0..(PruneEvery - 1)]
      BY <1>0, <2>2, <3>1
    <3>3. /\ writer'.pc # "done"
          /\ writer'.pc = "loop" => writer'.n = writer.n + 1
          /\ writer'.pc = "prune" => writer.n + 1 = PruneEvery
      BY <1>0, <2>2, <3>1
    <3>4. Len(table) <= MaxRows + writer.n /\ writer.n \in Nat
      BY <2>2, <3>1 DEF LogInv, RowsInv
    <3>5. RowsInv'
      BY <1>0, <2>1, <3>3, <3>4, Inserted DEF RowsInv
    <3>6. QED BY <2>1, <3>2, <3>3, <3>5, Inserted DEF LogInv, LogTypeOK, RecordsInv
  <2>4. CASE DrainRecord(TRUE)
    <3>1. writer' = writer /\ writer.pc = "drain"
      BY <2>4 DEF DrainRecord
    <3>2. RowsInv'
      BY <2>1, <3>1, Inserted DEF RowsInv
    <3>3. QED BY <2>1, <3>1, <3>2, Inserted DEF LogInv, LogTypeOK, RecordsInv
  <2>5. QED BY <1>2, <2>3, <2>4
<1>3. ASSUME PruneNow(TRUE, "prune") \/ PruneNow(TRUE, "loop") PROVE LogInv'
  <2>1. /\ writer' = [writer EXCEPT !.pc = "loop"] /\ table' = Pruned(TRUE)
        /\ UNCHANGED <<logged, accepted, channel, closing, written>>
    BY <1>3 DEF PruneNow
  <2>2. /\ writer' \in [pc: {"loop", "prune", "drain", "done"}, n: 0..(PruneEvery - 1)]
        /\ writer'.pc = "loop" /\ writer'.n \in Nat
    BY <1>0, <2>1 DEF LogInv, LogTypeOK
  <2>3. table' \in Seq(Row) /\ EndsIn(table', written') /\ Len(table') <= MaxRows
    BY <2>1, TableIsPruned DEF LogInv, RowsInv
  <2>4. Len(table') \in Nat
    BY <2>3, LenProperties
  <2>5. RowsInv'
    BY <1>0, <2>2, <2>3, <2>4 DEF RowsInv
  <2>6. QED BY <2>1, <2>2, <2>3, <2>5 DEF LogInv, LogTypeOK, RecordsInv
<1>4. CASE StartDrain
  <2>1. /\ writer' \in [pc: {"loop", "prune", "drain", "done"}, n: 0..(PruneEvery - 1)]
        /\ writer'.pc = "drain"
    BY <1>4 DEF StartDrain, LogInv, LogTypeOK
  <2>2. QED BY <1>4, <2>1 DEF StartDrain, LogInv, LogTypeOK, RowsInv, RecordsInv
<1>5. ASSUME EndDrain(TRUE) PROVE LogInv'
  <2>1. /\ writer' \in [pc: {"loop", "prune", "drain", "done"}, n: 0..(PruneEvery - 1)]
        /\ writer'.pc = "done"
    BY <1>5 DEF EndDrain, LogInv, LogTypeOK
  <2>2. /\ table' = Pruned(TRUE) /\ channel = <<>>
        /\ UNCHANGED <<logged, accepted, channel, closing, written>>
    BY <1>5 DEF EndDrain, Drained
  <2>3. table' \in Seq(Row) /\ EndsIn(table', written') /\ Len(table') <= MaxRows
    BY <2>2, TableIsPruned DEF LogInv, RowsInv
  <2>4. Range(channel) = {}
    BY <2>2 DEF Range
  <2>5. RowsInv'
    BY <2>1, <2>3 DEF RowsInv
  <2>6. QED BY <2>1, <2>2, <2>3, <2>4, <2>5 DEF LogInv, LogTypeOK, RecordsInv
<1>6. CASE Write \/ PruneDueByTime
  <2>1. open = TRUE
    BY <1>6 DEF Write, PruneDueByTime, ShutdownInv
  <2>2. QED
    BY <1>2, <1>3, <1>4, <1>5, <1>6, <2>1 DEF Write, PruneDueByTime, WriterStep, PruneTimer
<1>7. CASE UNCHANGED <<logged, accepted, channel, table, writer, written>> /\ closing' \in BOOLEAN
  BY <1>7 DEF LogInv, LogTypeOK, RowsInv, RecordsInv
<1>8. closing \in BOOLEAN
  BY DEF LogInv, LogTypeOK
<1>9. QED
  BY <1>1, <1>6, <1>7, <1>8
  DEF Next, Schedule, StopServing, QueueEnds, MainStep, WaitForWorkers, ReturnFromRun,
      DeferredLogs, CloseLogs, DeferredDatabase, logVars, vars

-----------------------------------------------------------------------------
THEOREM Invariant == Spec => []IInv
<1>1. IInv /\ [Next]_vars => IInv'
  BY SchedKept, ShutdownKept, LogKept DEF IInv, LogInv
<1>2. QED BY InitInv, <1>1, PTL DEF Spec

\* Every variable keeps its type; the channel and the counters their bounds.
THEOREM TypeCorrect == Spec => []TypeOK
<1>1. IInv => TypeOK
  BY DEF IInv, SchedInv, ShutdownInv, TypeOK
<1>2. QED BY Invariant, <1>1, PTL

\* The log table keeps its bound, for every channel, table and interval of
\* prunes.
THEOREM TableBounded == Spec => []TableIsBounded
<1>1. IInv => TableIsBounded
  <2> SUFFICES ASSUME IInv PROVE TableIsBounded
    OBVIOUS
  <2>1. /\ MaxRows \in Nat /\ PruneEvery \in Nat \ {0} /\ Len(table) \in Nat
        /\ writer \in [pc: {"loop", "prune", "drain", "done"}, n: 0..(PruneEvery - 1)]
    BY LogAssumption, LenProperties DEF IInv, LogTypeOK
  <2>2. writer.n \in Nat /\ writer.n < PruneEvery
    BY <2>1
  <2>3. CASE writer.pc = "loop"
    BY <2>1, <2>2, <2>3 DEF IInv, RowsInv, TableIsBounded
  <2>4. CASE writer.pc = "prune"
    BY <2>1, <2>4 DEF IInv, RowsInv, TableIsBounded
  <2>5. CASE writer.pc \in {"drain", "done"}
    BY <2>1, <2>5 DEF IInv, RowsInv, TableIsBounded
  <2>6. QED BY <2>1, <2>3, <2>4, <2>5
<1>2. QED BY Invariant, <1>1, PTL

\* Pruning removes only the oldest rows, wherever it meets the writer.
THEOREM NewestKept == Spec => []NewestAreKept
<1>1. IInv => NewestAreKept
  <2> SUFFICES ASSUME IInv PROVE NewestAreKept
    OBVIOUS
  <2> DEFINE m == Len(table)
             n == Len(written)
             end == SubSeq(written, n - m + 1, n)
  <2>1. /\ table \in Seq(Row) /\ written \in Seq(Row) /\ m \in Nat /\ n \in Nat
        /\ EndsIn(table, written)
    BY LenProperties DEF IInv, LogTypeOK, RowsInv
  <2>2. m <= n /\ MaxRows <= m /\ \A i \in 1..m : table[i] = written[n - m + i]
    BY <2>1 DEF EndsIn
  <2>3. \A i \in (n - m + 1)..n : written[i] \in Row
    BY <2>1, <2>2, ElementOfSeq
  <2>4. /\ end \in Seq(Row)
        /\ Len(end) = IF n - m + 1 <= n THEN n - (n - m + 1) + 1 ELSE 0
        /\ \A i \in 1..(n - (n - m + 1) + 1) : end[i] = written[(n - m + 1) + i - 1]
    <3>1. n - m + 1 \in Int /\ n \in Int
      BY <2>1
    <3> HIDE DEF m, n
    <3>2. QED BY <2>3, <3>1, SubSeqProperties
  <2> HIDE DEF end
  <2>5. Len(end) = m /\ \A i \in 1..m : end[i] = written[n - m + i]
    <3>1. Len(end) = m
      BY <2>1, <2>2, <2>4
    <3>2. n - (n - m + 1) + 1 = m
      BY <2>1
    <3>3. \A i \in 1..m : (n - m + 1) + i - 1 = n - m + i
      BY <2>1
    <3>4. QED BY <2>4, <3>1, <3>2, <3>3
  <2>6. table = end
    BY <2>1, <2>2, <2>4, <2>5, SeqEqual
  <2>7. QED BY <2>2, <2>6 DEF NewestAreKept, end
<1>2. QED BY Invariant, <1>1, PTL

\* Whatever the queue, the scheduler and main logged before they ended is in
\* the database when the process is gone, if the channel took it.
THEOREM LastWords == Spec => []LastWordsAreWritten
<1>1. IInv => LastWordsAreWritten
  BY DEF IInv, ShutdownInv, RecordsInv, LastWordsAreWritten
<1>2. QED BY Invariant, <1>1, PTL

\* The workers end before the database does, so that no statement of theirs
\* meets a closed one, whatever they were at when the signal came.
THEOREM WorkersFirst == Spec => []WorkersOutlived
<1>1. IInv => WorkersOutlived
  BY DEF IInv, ShutdownInv, WorkersOutlived
<1>2. QED BY Invariant, <1>1, PTL
=============================================================================
