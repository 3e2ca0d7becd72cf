----------------------------- MODULE TaskManager -----------------------------
(***************************************************************************)
(* TaskManagerService: tasks that run once, after a delay, or again and    *)
(* again, over the timers of toad-scheduler.  A run awaits what it asks of *)
(* others, and the timer goes on meanwhile.  No code disables or enables   *)
(* any but the boot task so far; the service offers it for each.           *)
(***************************************************************************)
EXTENDS Integers

CONSTANTS
    Tasks,          \* the identifiers of tasks
    Preset,         \* the preset of each: once, delayed, periodic, disabled
    Immediate,      \* the periodic ones with runImmediately
    Switched,       \* the periodic ones that others disable and enable
    MaxTaskFaults,  \* bound: runs that fail
    MaxToggles      \* bound: jobs disabled

ASSUME TaskAssumption ==
    /\ Preset \in [Tasks -> {"once", "delayed", "periodic", "disabled"}]
    /\ Immediate \subseteq {t \in Tasks : Preset[t] \in {"periodic", "disabled"}}
    /\ Switched \subseteq {t \in Tasks : Preset[t] \in {"periodic", "disabled"}}
    /\ {MaxTaskFaults, MaxToggles} \subseteq Nat

VARIABLES
    tasks,        \* taskStates: a record for each task registered
    taskFaults,
    toggles

taskVars == <<tasks, taskFaults, toggles>>

\* "timers" counts the jobs of the task whose interval runs, "runs" the runs
\* under way; "executing" is isExecuting of its AsyncTask.  When its runs
\* started and what they threw is kept and left out: no code reads it.
TaskState ==
    [disabled : BOOLEAN, timers : 0..1, delayed : BOOLEAN, executing : BOOLEAN,
     runs : 0..2]

TaskTypeOK ==
    /\ DOMAIN tasks \subseteq Tasks
    /\ tasks \in [DOMAIN tasks -> TaskState]

TaskInit ==
    /\ tasks = << >>
    /\ taskFaults = 0
    /\ toggles = 0

Periodic(t) == Preset[t] \in {"periodic", "disabled"}

-----------------------------------------------------------------------------

\* AsyncTask.execute
Executed(s) == [s EXCEPT !.executing = TRUE, !.runs = @ + 1]

\* executeJob of a SimpleIntervalJob, which prevents overrun
Fired(s) == IF s.executing THEN s ELSE Executed(s)

\* scheduleEnabledPeriodicJob: a job of its own each time, over the same task
Scheduled(t, s) ==
    LET r == [s EXCEPT !.timers = @ + 1]
    IN  IF s.disabled THEN s ELSE IF t \in Immediate THEN Fired(r) ELSE r

Registered(t) ==
    LET s == [disabled |-> Preset[t] = "disabled", timers |-> 0, delayed |-> Preset[t] = "delayed",
              executing |-> FALSE, runs |-> 0]
    IN  CASE Preset[t] = "once"    -> Executed(s)
          [] Preset[t] = "delayed" -> s
          [] OTHER                 -> Scheduled(t, s)

\* registerJobOrTask of each: a task that is registered is left as it is.
WithTasks(ts) ==
    [t \in DOMAIN tasks \cup ts |-> IF t \in DOMAIN tasks THEN tasks[t] ELSE Registered(t)]

\* disableJob stops the job, and not a run under way.
Disabled(s) == [s EXCEPT !.disabled = TRUE, !.timers = IF @ = 0 THEN 0 ELSE @ - 1]

DisableJob(t) ==
    /\ t \in DOMAIN tasks \cap Switched
    /\ ~tasks[t].disabled
    /\ toggles < MaxToggles
    /\ toggles' = toggles + 1
    /\ tasks' = [tasks EXCEPT ![t] = Disabled(@)]
    /\ UNCHANGED taskFaults

\* Fault: the task is wrapped again, in an AsyncTask that is not executing.
EnabledAnew(t, s) == Scheduled(t, [s EXCEPT !.disabled = FALSE, !.executing = FALSE])

Enabled(t, s) == Scheduled(t, [s EXCEPT !.disabled = FALSE])

\* scheduleDisabledJob
ScheduleDisabledJob(t) ==
    /\ t \in DOMAIN tasks \cap Switched
    /\ tasks[t].disabled
    /\ tasks' = [tasks EXCEPT ![t] = Enabled(t, @)]
    /\ UNCHANGED <<taskFaults, toggles>>

-----------------------------------------------------------------------------

\* The interval of a job elapses.  While the task is executing that is no step.
TimerFires(t) ==
    /\ t \in DOMAIN tasks
    /\ tasks[t].timers > 0 /\ ~tasks[t].executing
    /\ tasks' = [tasks EXCEPT ![t] = Fired(@)]
    /\ UNCHANGED <<taskFaults, toggles>>

\* runTimeoutTaskInstance
DelayElapses(t) ==
    /\ t \in DOMAIN tasks
    /\ tasks[t].delayed
    /\ tasks' = [tasks EXCEPT ![t] = Executed([@ EXCEPT !.delayed = FALSE])]
    /\ UNCHANGED <<taskFaults, toggles>>

Running(t) == t \in DOMAIN tasks /\ tasks[t].runs > 0

\* Fault: a run leaves its task executing.
StillExecuting(s) == [s EXCEPT !.runs = @ - 1]

\* A run has ended, well or not: the error handler keeps the first error, and
\* the AsyncTask goes on.
Ended(s) == [s EXCEPT !.runs = @ - 1, !.executing = FALSE]

RunCompletes(t) ==
    /\ Running(t)
    /\ tasks' = [tasks EXCEPT ![t] = Ended(@)]
    /\ UNCHANGED <<taskFaults, toggles>>

RunFails(t) ==
    /\ Running(t)
    /\ taskFaults < MaxTaskFaults
    /\ taskFaults' = taskFaults + 1
    /\ tasks' = [tasks EXCEPT ![t] = Ended(@)]
    /\ UNCHANGED toggles

TimersNext ==
    \E t \in Tasks : DisableJob(t) \/ ScheduleDisabledJob(t) \/ TimerFires(t) \/ DelayElapses(t)

-----------------------------------------------------------------------------
(* Properties.                                                             *)

\* However a task is disabled and enabled, and whether its runs end before the
\* next is due or fail, it has one timer while it is enabled, none while it is
\* not, and one run at a time.
TimersFollow ==
    \A t \in DOMAIN tasks :
        /\ Periodic(t) => tasks[t].timers = IF tasks[t].disabled THEN 0 ELSE 1
        /\ tasks[t].runs = IF tasks[t].executing THEN 1 ELSE 0

=============================================================================
