------------------------------- MODULE Process -------------------------------
(***************************************************************************)
(* The process (cmd/gogl-watcher): the scheduler, the download queue and    *)
(* the HTTP handlers at work, the log store all of them write to, and the   *)
(* way main takes them down: listener, workers, log store, database.        *)
(***************************************************************************)
EXTENDS Scheduler, LogStore

CONSTANT
    Casts   \* which requests and which sources of records take part together

\* Who logs: dl.Run, sched.Run with its syncs, the handlers, and main itself.
ASSUME ProcessAssumption == Sources \subseteq {"queue", "scheduler", "http", "main"}

VARIABLES
    main,    \* run(): where it is
    queue,   \* dl.Run has not returned
    open     \* the database

processVars == <<main, queue, open>>
vars == <<schedulerVars, logVars, processVars>>

TypeOK ==
    /\ SchedulerTypeOK /\ LogTypeOK
    /\ main \in {"serve", "wait", "farewell", "logs", "flush", "exit"}
    /\ queue \in BOOLEAN /\ open \in BOOLEAN

Init ==
    /\ \E cast \in Casts : SchedulerInit(cast) /\ LogInit(cast)
    /\ main = "serve" /\ queue = TRUE /\ open = TRUE

\* Handlers run until the process is gone: ListenAndServe returns as soon as
\* Shutdown begins, and nobody waits for them.
Alive(s) ==
    CASE s = "queue" -> queue
      [] s = "scheduler" -> ~At("exit")
      [] s = "http" -> main # "exit"
      [] s = "main" -> main = "farewell"

LogRecord(s) == Alive(s) /\ Log(s) /\ UNCHANGED <<schedulerVars, processVars>>
Write == main # "exit" /\ WriterStep(open) /\ UNCHANGED <<schedulerVars, processVars>>
PruneDueByTime == main # "exit" /\ PruneTimer(open) /\ UNCHANGED <<schedulerVars, processVars>>
Schedule ==
    /\ RunStep \/ Tick \/ (open /\ (NewRequest \/ HandlerStep))
    /\ UNCHANGED <<logVars, processVars>>

\* (mutant: a listener that fails cancels nothing)
StopWorkers_by_signal_only == StopScheduler \/ UNCHANGED schedulerVars
\* SIGTERM, or a listener that fails: the context of both workers is cancelled.
StopWorkers == StopScheduler
StopServing ==
    /\ main = "serve" /\ main' = "wait"
    /\ StopWorkers
    /\ UNCHANGED <<logVars, queue, open>>

\* Run of the queue returns when its transfers have recorded where they are.
QueueEnds ==
    /\ stopping /\ queue /\ queue' = FALSE
    /\ UNCHANGED <<schedulerVars, logVars, main, open>>

\* workers.Wait
WorkersGone == ~queue /\ At("exit")
WaitForWorkers ==
    /\ main = "wait" /\ WorkersGone
    /\ main' = "farewell"
    /\ UNCHANGED <<schedulerVars, logVars, queue, open>>

\* The deferred closes, last one first.
ReturnFromRun ==
    /\ main = "farewell" /\ main' = "logs"
    /\ UNCHANGED <<schedulerVars, logVars, queue, open>>
DeferredLogs ==
    /\ main = "logs" /\ main' = "flush" /\ CloseLogs
    /\ UNCHANGED <<schedulerVars, queue, open>>
DeferredDatabase ==
    /\ main = "flush" /\ LogsClosed
    /\ main' = "exit" /\ open' = FALSE
    /\ UNCHANGED <<schedulerVars, logVars, queue>>

MainStep == WaitForWorkers \/ ReturnFromRun \/ DeferredLogs \/ DeferredDatabase
Next ==
    \/ \E s \in Sources : LogRecord(s)
    \/ Write \/ PruneDueByTime \/ Schedule
    \/ StopServing \/ QueueEnds \/ MainStep

Spec == Init /\ [][Next]_vars

\* The scheduler, the handlers that have begun, the writer and main go on when
\* they can; a select with several ready cases takes each of them in the end,
\* since it draws one at random. Nobody has to send requests, to log, or to let
\* time pass.
Step(A) == A /\ UNCHANGED <<logVars, processVars>>
Fairness ==
    /\ WF_vars(Step(RunStep))
    /\ SF_vars(Step(TimerFires)) /\ SF_vars(Step(TakeTrigger))
    /\ SF_vars(Step(TakeNudge)) /\ SF_vars(Step(LeaveRun))
    /\ WF_vars(open /\ Step(HandlerStep))
    /\ WF_vars(Write) /\ SF_vars(StartDrain /\ UNCHANGED <<schedulerVars, processVars>>)
    /\ WF_vars(QueueEnds) /\ WF_vars(MainStep)
FairSpec == Spec /\ Fairness

------------------------------------------------------------------------------
\* Properties

\* "Let running transfers record their state before the deferred closes take
\* the database away": a record a worker or main got into the channel is written
\* (and at most pruned since) when the process is gone.
LastWordsAreWritten ==
    main = "exit" => {r \in accepted : r[1] # "http"} \subseteq Range(written)

\* The workers end before the database does, so that no statement of theirs
\* meets a closed one, whatever they were at when the signal came.
WorkersOutlived == ~open => ~queue /\ At("exit")

\* SIGTERM ends the process: nobody waits for ever for the sync, the transfers or
\* the records still on their way.
ShutdownEnds == main # "serve" ~> main = "exit"
==============================================================================
