------------------------------ MODULE Scheduler ------------------------------
(***************************************************************************)
(* The goroutine that starts full syncs (internal/scheduler): by a timer,  *)
(* by a trigger, or not at all while setup or a session is missing.  Time  *)
(* is the age of the last finished sync; intervals are counted in ticks.   *)
(***************************************************************************)
EXTENDS Naturals

CONSTANTS
    Intervals,   \* check intervals the user may choose
    MaxAge,      \* bound: ticks after which a sync is as old as it gets
    MaxWish      \* bound: how often a new plan is stored

Kinds == {"sync", "change", "interval", "login", "logout", "setup"}

ASSUME SchedulerAssumption ==
    /\ MaxAge \in Nat /\ MaxWish \in Nat
    /\ Intervals \subseteq 1..MaxAge /\ Intervals # {}

VARIABLES
    setup, authed,  \* SetupComplete, Client.Authenticated
    wish,           \* how many plans were stored: the settings in table kv
    interval,       \* the check interval stored with them
    asked,          \* the plan stored when TriggerNow was last called with one
    served,         \* the newest plan a sync ended with that was not interrupted
    ran, age,       \* LastFinishedAt: set at all, and how long ago
    trigger, nudge, \* the two channels of one slot
    shown,          \* Status.NextRunAt is set
    sched,          \* Scheduler.Run: where it is, its timer; the sync it runs
    handler,        \* where a request of each kind is
    stopping        \* the context of Run is cancelled

stored == <<setup, authed, wish, interval>>
channels == <<trigger, nudge>>
syncs == <<served, ran, age>>
schedulerVars == <<stored, asked, syncs, channels, shown, sched, handler, stopping>>

Soon == 0             \* the first run after boot, after a delay of its own
Poll == MaxAge + 1    \* not ready: look again in 30 s
SchedulerTypeOK ==
    /\ setup \in BOOLEAN /\ authed \in BOOLEAN /\ ran \in BOOLEAN
    /\ wish \in 0..MaxWish /\ asked \in 0..wish /\ served \in 0..wish
    /\ interval \in Intervals /\ age \in 0..MaxAge
    /\ trigger \in BOOLEAN /\ nudge \in BOOLEAN /\ shown \in BOOLEAN
    /\ sched \in [pc: {"look", "plan", "arm", "wait", "check", "start", "sync", "exit"},
                  timer: {Soon, Poll} \cup Intervals, seen: 0..MaxWish, cancelled: BOOLEAN]
    /\ handler \in [Kinds -> {"off", "idle", "going", "stored", "triggered"}]
    /\ stopping \in BOOLEAN

\* The cast are the kinds of requests that come; what one of them brings about
\* is missing at first.
SchedulerInit(cast) ==
    /\ setup = ("setup" \notin cast) /\ authed = ("login" \notin cast) /\ ran = FALSE
    /\ wish = 0 /\ asked = 0 /\ served = 0
    /\ interval \in Intervals /\ age = 0
    /\ trigger = FALSE /\ nudge = FALSE /\ shown = FALSE
    /\ sched = [pc |-> "look", timer |-> Poll, seen |-> 0, cancelled |-> FALSE]
    /\ handler = [k \in Kinds |-> IF k \in cast THEN "idle" ELSE "off"]
    /\ stopping = FALSE

Ready == setup /\ authed
At(pc) == sched.pc = pc
Goto(pc) == sched' = [sched EXCEPT !.pc = pc]

\* (mutant: a send without a slot, that only a waiting reader gets)
Sent_if_awaited(slot) == slot \/ At("wait")
\* A send that does not block: into the slot, or not at all when it is full.
Sent(slot) == TRUE
TriggerNow == trigger' = Sent(trigger) /\ asked' = wish
Reschedule == nudge' = Sent(nudge)

------------------------------------------------------------------------------
\* Run

Arm(t) == sched' = [sched EXCEPT !.pc = "arm", !.timer = t]
Look ==
    /\ At("look")
    /\ IF Ready THEN Goto("plan") ELSE Arm(Poll)
    /\ UNCHANGED <<stored, asked, syncs, channels, shown, handler, stopping>>

\* nextRun reads the settings, then the status.
NextRun == IF ran THEN interval ELSE Soon
PlanNext ==
    /\ At("plan")
    /\ Arm(NextRun)
    /\ UNCHANGED <<stored, asked, syncs, channels, shown, handler, stopping>>

\* SetNextRun, with nothing while it is not ready; then the select.
Shows(timer) == timer # Poll
AwaitNext ==
    /\ At("arm")
    /\ Goto("wait")
    /\ shown' = Shows(sched.timer)
    /\ UNCHANGED <<stored, asked, syncs, channels, handler, stopping>>

TimerDue == sched.timer \in {Soon, Poll} \/ age >= sched.timer
TimerFires ==
    /\ At("wait") /\ TimerDue
    /\ Goto("check")
    /\ UNCHANGED <<stored, asked, syncs, channels, shown, handler, stopping>>

TakeTrigger ==
    /\ At("wait") /\ trigger
    /\ trigger' = FALSE
    /\ Goto("check")
    /\ UNCHANGED <<stored, asked, syncs, nudge, shown, handler, stopping>>

TakeNudge ==
    /\ At("wait") /\ nudge
    /\ nudge' = FALSE
    /\ Goto("look")
    /\ UNCHANGED <<stored, asked, syncs, trigger, shown, handler, stopping>>

LeaveRun ==
    /\ At("wait") /\ stopping
    /\ Goto("exit")
    /\ UNCHANGED <<stored, asked, syncs, channels, shown, handler, stopping>>

\* fired = ready; then SyncAll registers its cancel function, and is cancelled
\* at once when the process stops already.
StartSync ==
    /\ At("check")
    /\ IF Ready
       THEN sched' = [sched EXCEPT !.pc = "start", !.cancelled = stopping] /\ shown' = FALSE
       ELSE Goto("look") /\ shown' = shown
    /\ UNCHANGED <<stored, asked, syncs, channels, handler, stopping>>

\* planSem: not while a change is being stored.
SyncReads ==
    /\ At("start") /\ handler["change"] # "going"
    /\ sched' = [sched EXCEPT !.pc = "sync", !.seen = wish]
    /\ UNCHANGED <<stored, asked, syncs, channels, shown, handler, stopping>>

\* finish: a sync that ended or failed counts as a run, an interrupted one not.
Counts(cancelled) == ~cancelled
EndSync ==
    /\ At("sync") \/ (At("start") /\ sched.cancelled)
    /\ IF Counts(sched.cancelled)
       THEN served' = sched.seen /\ ran' = TRUE /\ age' = 0
       ELSE UNCHANGED syncs
    /\ sched' = [sched EXCEPT !.pc = "look", !.seen = 0, !.cancelled = FALSE]
    /\ UNCHANGED <<stored, asked, channels, shown, handler, stopping>>

RunStep ==
    \/ Look \/ PlanNext \/ AwaitNext \/ TimerFires \/ TakeTrigger \/ TakeNudge \/ LeaveRun
    \/ StartSync \/ SyncReads \/ EndSync

------------------------------------------------------------------------------
\* Requests: what each stores, cancels and sends, in its order

Move(k, from, to) ==
    /\ handler[k] = from
    /\ handler' = [handler EXCEPT ![k] = to]

CancelSync == sched' = [sched EXCEPT !.cancelled = @ \/ At("start") \/ At("sync")]

\* handleSync
RequestSync ==
    /\ Move("sync", "idle", "idle")
    /\ Ready /\ ~At("start") /\ ~At("sync")
    /\ TriggerNow
    /\ UNCHANGED <<stored, syncs, nudge, shown, sched, stopping>>

\* handleSettingsPut with another plan: ApplySettings takes planSem, stops the
\* sync and stores.
BeginChange ==
    /\ Move("change", "idle", "going")
    /\ setup /\ wish < MaxWish
    /\ CancelSync
    /\ UNCHANGED <<stored, asked, syncs, channels, shown, stopping>>
StoreChange ==
    /\ Move("change", "going", "stored")
    /\ ~sched.cancelled
    /\ wish' = wish + 1
    /\ UNCHANGED <<setup, authed, interval, asked, syncs, channels, shown, sched, stopping>>
TriggerChange ==
    /\ Move("change", "stored", "triggered")
    /\ TriggerNow
    /\ UNCHANGED <<stored, syncs, nudge, shown, sched, stopping>>
NudgeChange ==
    /\ Move("change", "triggered", "idle")
    /\ Reschedule
    /\ UNCHANGED <<stored, asked, syncs, trigger, shown, sched, stopping>>

\* handleSettingsPut with the same plan and another interval
StoreInterval ==
    /\ Move("interval", "idle", "stored")
    /\ \E i \in Intervals : interval' = i
    /\ UNCHANGED <<setup, authed, wish, asked, syncs, channels, shown, sched, stopping>>
NudgeInterval ==
    /\ Move("interval", "stored", "idle")
    /\ Reschedule
    /\ UNCHANGED <<stored, asked, syncs, trigger, shown, sched, stopping>>

\* handleAuthCode, also over a session there is
LogIn ==
    /\ Move("login", "idle", "stored")
    /\ authed' = TRUE
    /\ UNCHANGED <<setup, wish, interval, asked, syncs, channels, shown, sched, stopping>>
TriggerLogIn ==
    /\ Move("login", "stored", "idle")
    /\ IF setup THEN TriggerNow ELSE UNCHANGED <<trigger, asked>>
    /\ UNCHANGED <<stored, syncs, nudge, shown, sched, stopping>>

\* handleLogout
BeginLogOut ==
    /\ Move("logout", "idle", "going")
    /\ authed
    /\ CancelSync
    /\ UNCHANGED <<stored, asked, syncs, channels, shown, stopping>>
LogOut ==
    /\ Move("logout", "going", "stored")
    /\ authed' = FALSE
    /\ UNCHANGED <<setup, wish, interval, asked, syncs, channels, shown, sched, stopping>>
NudgeLogOut ==
    /\ Move("logout", "stored", "idle")
    /\ Reschedule
    /\ UNCHANGED <<stored, asked, syncs, trigger, shown, sched, stopping>>

\* handleSetupComplete
CompleteSetup ==
    /\ Move("setup", "idle", "stored")
    /\ authed /\ ~setup /\ setup' = TRUE
    /\ UNCHANGED <<authed, wish, interval, asked, syncs, channels, shown, sched, stopping>>
TriggerSetup ==
    /\ Move("setup", "stored", "idle")
    /\ TriggerNow
    /\ UNCHANGED <<stored, syncs, nudge, shown, sched, stopping>>

NewRequest ==
    \/ RequestSync \/ BeginChange \/ StoreInterval \/ LogIn \/ BeginLogOut \/ CompleteSetup
HandlerStep ==
    \/ StoreChange \/ TriggerChange \/ NudgeChange \/ NudgeInterval
    \/ TriggerLogIn \/ LogOut \/ NudgeLogOut \/ TriggerSetup

Tick ==
    /\ age < MaxAge /\ age' = age + 1
    /\ UNCHANGED <<stored, asked, served, ran, channels, shown, sched, handler, stopping>>

\* SIGTERM: AfterFunc cancels the running sync.
StopScheduler ==
    /\ ~stopping /\ stopping' = TRUE
    /\ CancelSync
    /\ UNCHANGED <<stored, asked, syncs, channels, shown, handler>>

SchedulerNext == RunStep \/ NewRequest \/ HandlerStep \/ Tick

------------------------------------------------------------------------------
\* Properties

\* A plan that was stored before a trigger is sent is read by a sync that ends
\* without being interrupted, unless setup, session or process end first: no
\* trigger is lost to a full slot, a running sync, or a timer that fires too.
TriggerIsHeard ==
    \A v \in 1..MaxWish : asked >= v ~> served >= v \/ ~Ready \/ stopping

\* Once the stored interval has passed a sync runs to its end: a shorter interval
\* counts from the moment it is stored, whatever the scheduler waited for, and a
\* sync that was interrupted is taken up again.
IntervalIsKept ==
    Ready /\ ran /\ age >= interval /\ (\A k \in Kinds : handler[k] \in {"idle", "off"})
        ~> age < interval \/ ~Ready \/ stopping
==============================================================================
