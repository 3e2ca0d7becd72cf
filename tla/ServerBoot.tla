------------------------------ MODULE ServerBoot ------------------------------
(***************************************************************************)
(* The server from its start: BootTask, step by step, the tasks it         *)
(* registers, the client bundle that one of them looks after, the updates  *)
(* that another sends to browsers, and the end of the process by a failed  *)
(* boot or a crash, after which it is started again.                       *)
(***************************************************************************)
EXTENDS TaskManager, ClientBundle, Sequences

CONSTANTS
    MaxCrashes,      \* bound: ends of the process
    MaxChanges       \* bound: changes of what browsers are shown

ASSUME BootAssumption ==
    /\ {MaxCrashes, MaxChanges} \subseteq Nat
    /\ {"bootTask", "clientDistDownloadTask", "socketIoTask"} \subseteq Tasks
    /\ Preset["bootTask"] = "disabled" /\ "bootTask" \notin Switched

VARIABLES
    boot,         \* the step of the boot, 0 when the process has ended
    loaded,       \* the steps done
    safe,         \* SAFEMODE_ENABLED
    listening,    \* whether the server listens, with the gateway attached
    browser,      \* a browser: none, stale, current
    repaired,     \* whether the run of ClientDistDownloadTask has ended well
    crashes,
    changes

bootVars == <<boot, loaded, safe, listening, browser, repaired, crashes, changes>>

serverVars == <<taskVars, bundleVars, bootVars>>

\* Fault: the tasks are registered as soon as the settings are known.
TasksEarly ==
    <<"connection", "directories", "settings", "roles", "tasks", "flags", "credentials", "uploads",
      "sockets", "floors", "thumbnails">>

\* The awaits of BootTask.run, in their order
BootOrder ==
    <<"connection", "directories", "settings", "roles", "flags", "credentials", "uploads",
      "sockets", "floors", "thumbnails", "tasks">>

BootSteps == {BootOrder[i] : i \in DOMAIN BootOrder}

\* BOOT_TASKS
BootTasks == Tasks \ {"bootTask"}

BootTypeOK ==
    /\ TaskTypeOK
    /\ BundleTypeOK
    /\ boot \in 0..(Len(BootOrder) + 1)
    /\ loaded \subseteq BootSteps
    /\ {safe, listening, repaired} \subseteq BOOLEAN
    /\ browser \in {"none", "stale", "current"}
    /\ listening => "bootTask" \in DOMAIN tasks /\ tasks["bootTask"].disabled

\* runOnce registers the boot task itself, disabled.
BootTaskAlone == [t \in {"bootTask"} |-> Registered(t)]

BootInit ==
    /\ BundleInit
    /\ tasks = BootTaskAlone
    /\ taskFaults = 0
    /\ toggles = 0
    /\ boot = 1
    /\ loaded = {}
    /\ safe \in BOOLEAN
    /\ listening = FALSE
    /\ browser = "none"
    /\ repaired = FALSE
    /\ crashes = 0
    /\ changes = 0

-----------------------------------------------------------------------------

\* The last step is followed by httpListen without an await.  disableJob finds
\* the boot task disabled.
BootStep ==
    /\ boot \in DOMAIN BootOrder
    /\ boot' = boot + 1
    /\ loaded' = loaded \cup {BootOrder[boot]}
    /\ tasks' = IF BootOrder[boot] = "tasks" /\ ~safe THEN WithTasks(BootTasks) ELSE tasks
    /\ listening' = (boot = Len(BootOrder))
    /\ UNCHANGED <<taskFaults, toggles, bundleVars, safe, browser, repaired, crashes, changes>>

\* A step of the boot throws, and the process exits; or the process crashes.
ProcessEnds ==
    /\ boot # 0
    /\ crashes < MaxCrashes
    /\ crashes' = crashes + 1
    /\ boot' = 0
    /\ loaded' = {}
    /\ listening' = FALSE
    /\ browser' = "none"
    /\ repaired' = FALSE
    /\ tasks' = << >>
    /\ BundleCrashes
    /\ UNCHANGED <<taskFaults, toggles, safe, changes>>

ProcessStarts ==
    /\ boot = 0
    /\ boot' = 1
    /\ safe' \in BOOLEAN
    /\ tasks' = BootTaskAlone
    /\ UNCHANGED <<taskFaults, toggles, bundleVars, loaded, listening, browser, repaired, crashes, changes>>

-----------------------------------------------------------------------------
(* What tasks do.                                                          *)

\* The run of ClientDistDownloadTask: what is installed is looked at, then
\* updated to the minimum.
BundleTaskChecks ==
    /\ Running("clientDistDownloadTask")
    /\ updaters["task"].at = "idle"
    /\ IF Target(0, FALSE) = 0
       THEN RunCompletes("clientDistDownloadTask") /\ repaired' = TRUE /\ UNCHANGED bundleVars
       ELSE UpdateBegins("task", Minimum) /\ UNCHANGED <<taskVars, repaired>>
    /\ UNCHANGED <<boot, loaded, safe, listening, browser, crashes, changes>>

BundleTaskEnds ==
    /\ \/ UpdateEnds("task") /\ RunCompletes("clientDistDownloadTask") /\ repaired' = TRUE
       \/ UpdateFails("task") /\ RunFails("clientDistDownloadTask") /\ UNCHANGED repaired
    /\ UNCHANGED <<boot, loaded, safe, listening, browser, crashes, changes>>

\* The updates under way, and those that administrators ask for
BundleStep ==
    /\ \/ \E u \in UpdaterIds : UpdateGoesOn(u)
       \/ UpdateEnds("request")
       \/ UpdateFails("request")
       \/ listening /\ UpdateRequested
    /\ UNCHANGED <<taskVars, bootVars>>

\* send: the gateway emits to every browser, once it is attached.
SentToAll == IF listening /\ browser # "none" THEN "current" ELSE browser

\* sendUpdate, of caches in memory
SocketIoTaskEnds ==
    /\ \/ RunCompletes("socketIoTask") /\ browser' = SentToAll
       \/ RunFails("socketIoTask") /\ UNCHANGED browser
    /\ UNCHANGED <<bundleVars, boot, loaded, safe, listening, repaired, crashes, changes>>

\* The other tasks' runs, which other modules model
OtherTaskEnds ==
    /\ \E t \in Tasks \ {"clientDistDownloadTask", "socketIoTask"} :
          RunCompletes(t) \/ RunFails(t)
    /\ UNCHANGED <<bundleVars, bootVars>>

TimersStep == TimersNext /\ UNCHANGED <<bundleVars, bootVars>>

\* onConnect: the gateway emits socketIoConnected, and the update is sent.
BrowserConnects ==
    /\ listening /\ browser = "none"
    /\ browser' = "current"
    /\ UNCHANGED <<taskVars, bundleVars, boot, loaded, safe, listening, repaired, crashes, changes>>

BrowserLeaves ==
    /\ browser # "none"
    /\ browser' = "none"
    /\ UNCHANGED <<taskVars, bundleVars, boot, loaded, safe, listening, repaired, crashes, changes>>

\* A printer, a floor, an event or an upload changes.
CachesChange ==
    /\ listening
    /\ changes < MaxChanges
    /\ changes' = changes + 1
    /\ browser' = IF browser = "none" THEN "none" ELSE "stale"
    /\ UNCHANGED <<taskVars, bundleVars, boot, loaded, safe, listening, repaired, crashes>>

BootNext ==
    \/ BootStep \/ ProcessEnds \/ ProcessStarts
    \/ BundleTaskChecks \/ BundleTaskEnds \/ BundleStep
    \/ SocketIoTaskEnds \/ OtherTaskEnds \/ TimersStep
    \/ BrowserConnects \/ BrowserLeaves \/ CachesChange

\* Intervals elapse, and the run that sends updates awaits memory only.
BootFairness ==
    /\ WF_serverVars(TimerFires("socketIoTask") /\ UNCHANGED <<bundleVars, bootVars>>)
    /\ WF_serverVars(SocketIoTaskEnds)

FairBootSpec == BootInit /\ [][BootNext]_serverVars /\ BootFairness

-----------------------------------------------------------------------------
(* Properties.                                                             *)

\* No task runs before what it reads is loaded, in this process.
TasksFindTheirStores ==
    (\E t \in DOMAIN tasks : tasks[t].runs > 0) =>
        {"connection", "settings", "sockets", "floors", "thumbnails"} \subseteq loaded

\* Whatever earlier processes left of an update they did not finish, once the
\* boot's task has done its work and no update is under way there is a client
\* to serve, of the minimum at least: unless files could not be replaced.  Its
\* index and its package are of one release, but for overlapping updates.
BundleIsServable ==
    repaired /\ NobodyUpdates /\ ~spoiled =>
       /\ disk["package"] >= Minimum
       /\ disk["index"] >= Minimum
       /\ ~overlapped => disk["index"] = disk["package"]

UpdatesAreSent == "socketIoTask" \in DOMAIN tasks /\ ~tasks["socketIoTask"].disabled

\* A browser that is shown what is no more is shown what is, unless it leaves,
\* or the task that sends updates is disabled or its process ends.
BrowsersAreTold == browser = "stale" /\ UpdatesAreSent ~> browser # "stale" \/ ~UpdatesAreSent

=============================================================================
