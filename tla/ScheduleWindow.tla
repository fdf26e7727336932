---------------------------- MODULE ScheduleWindow ----------------------------
(***************************************************************************)
(* The download window: outside it the tasks that obey the schedule are    *)
(* paused, inside it, or when the feature is switched off, those that the  *)
(* window paused are queued again.  The check runs in the monitor of the   *)
(* window and at the end of every update of the settings, against the      *)
(* commands of the user, the dispatcher and the runs.  What a check knows  *)
(* of an earlier pause is the newest of the two kinds of pause event of    *)
(* the task.                                                               *)
(*                                                                         *)
(* The start of a task and the tail of its supervisor are one step each;   *)
(* the clock is the truth value of "the window is open".  The end of the   *)
(* application is AppLifecycle's.                                          *)
(***************************************************************************)
CONSTANTS
    WinTasks,       \* the tasks
    Checkers,       \* the checks that may run at the same time, see Checks
    NoOne           \* the owner of an unheld task lock, and no task

\* The monitor, and the end of update_settings.
Checks == {"monitor", "settings"}

ASSUME ScheduleAssumption == "monitor" \in Checkers /\ Checkers \subseteq Checks

Callers == Checkers \cup {"user"}

VARIABLES
    rowOf, reason, obeys,           \* status, newest pause event, obey_schedule
    running, stopping, retried,     \* the control, its token, its run met a retry
    lockOf,                         \* the task locks
    enabled, open,                  \* the setting, and the clock
    callPc, callTask,               \* the calls of pause_task and the checks around them
    todo, tagged,                   \* the ids a check has still to look at, and to resume
    passOn, passEnabled, passObeys, passRows, passTask,  \* dispatch_inner
    stoppedBy                       \* history: whose pause stopped the last run

rowVars == <<rowOf, reason, obeys, stoppedBy>>
runVars == <<running, stopping, retried>>
clockVars == <<enabled, open>>
callVars == <<callPc, callTask, todo, tagged>>
passVars == <<passOn, passEnabled, passObeys, passRows, passTask>>
scheduleVars == <<rowVars, runVars, lockOf, clockVars, callVars, passVars>>

RowStatuses == {"queued", "downloading", "retrying", "paused", "completed"}
LiveRows == {"downloading", "retrying"}
Reasons == {"none", "paused", "paused_by_schedule"}
CallPcs == {"idle", "decide", "pausing", "lock", "drain", "tag", "listing", "resuming"}

\* The window is closed for a task that obeys the schedule.
Closed == enabled /\ ~open

ScheduleTypeOK ==
    /\ rowOf \in [WinTasks -> RowStatuses]
    /\ reason \in [WinTasks -> Reasons]
    /\ obeys \in [WinTasks -> BOOLEAN]
    /\ running \in [WinTasks -> BOOLEAN]
    /\ stopping \in [WinTasks -> BOOLEAN]
    /\ retried \in [WinTasks -> BOOLEAN]
    /\ lockOf \in [WinTasks -> Callers \cup {NoOne}]
    /\ enabled \in BOOLEAN /\ open \in BOOLEAN
    /\ callPc \in [Callers -> CallPcs]
    /\ callTask \in [Callers -> WinTasks \cup {NoOne}]
    /\ todo \in [Checkers -> SUBSET WinTasks]
    /\ tagged \in [Checkers -> SUBSET WinTasks]
    /\ passOn \in BOOLEAN /\ passEnabled \in BOOLEAN
    /\ passObeys \in SUBSET WinTasks /\ passRows \in SUBSET WinTasks
    /\ passTask \in WinTasks \cup {NoOne}
    /\ stoppedBy \in [WinTasks -> {"none", "user", "window"}]

ScheduleInit ==
    /\ rowOf \in [WinTasks -> {"queued", "paused"}]
    /\ reason = [t \in WinTasks |-> IF rowOf[t] = "paused" THEN "paused" ELSE "none"]
    /\ obeys = [t \in WinTasks |-> TRUE]
    /\ running = [t \in WinTasks |-> FALSE]
    /\ stopping = [t \in WinTasks |-> FALSE]
    /\ retried = [t \in WinTasks |-> FALSE]
    /\ lockOf = [t \in WinTasks |-> NoOne]
    /\ enabled \in BOOLEAN /\ open \in BOOLEAN
    /\ callPc = [a \in Callers |-> "idle"]
    /\ callTask = [a \in Callers |-> NoOne]
    /\ todo = [c \in Checkers |-> {}]
    /\ tagged = [c \in Checkers |-> {}]
    /\ passOn = FALSE /\ passEnabled = FALSE
    /\ passObeys = {} /\ passRows = {} /\ passTask = NoOne
    /\ stoppedBy = [t \in WinTasks |-> "none"]

\* state_machine: the moves of the table that these callers ask for.
MayMove(t, to) ==
    \/ to = "downloading" /\ rowOf[t] \in {"queued", "paused", "retrying"}
    \/ to = "paused" /\ rowOf[t] \in {"queued", "downloading", "retrying"}
    \/ to = "queued" /\ rowOf[t] = "paused"

SetCall(a, pc) == callPc' = [callPc EXCEPT ![a] = pc]

-----------------------------------------------------------------------------
(* The check.                                                              *)

CheckSame == UNCHANGED <<rowVars, runVars, lockOf, clockVars, passVars>>

\* The monitor wakes at a boundary of the window, within a minute or upon a
\* change of the policies.
MonitorWakes ==
    /\ callPc["monitor"] = "idle"
    /\ SetCall("monitor", "decide")
    /\ UNCHANGED <<callTask, todo, tagged>> /\ CheckSame

ToPause == {t \in WinTasks : running[t]}
ToResume == {t \in WinTasks : rowOf[t] = "paused" /\ obeys[t]}

CheckTakes(c, pc, ids) ==
    /\ SetCall(c, pc)
    /\ todo' = [todo EXCEPT ![c] = ids]
    /\ UNCHANGED <<callTask, tagged>> /\ CheckSame

\* Fault: the check returns at once when the feature is off.
DecideWhenEnabled(c) ==
    /\ callPc[c] = "decide"
    /\ IF Closed THEN CheckTakes(c, "pausing", ToPause)
       ELSE IF enabled THEN CheckTakes(c, "listing", ToResume) ELSE CheckTakes(c, "idle", {})

\* The settings are read, the clock is compared with the window, and the ids
\* of the running or of the paused tasks are taken.
Decide(c) ==
    /\ callPc[c] = "decide"
    /\ IF Closed THEN CheckTakes(c, "pausing", ToPause) ELSE CheckTakes(c, "listing", ToResume)

\* Only a row that is downloading and obeys the schedule is paused.
PauseLook(c) ==
    /\ callPc[c] = "pausing"
    /\ \E t \in todo[c] :
         /\ todo' = [todo EXCEPT ![c] = @ \ {t}]
         /\ IF obeys[t] /\ rowOf[t] = "downloading"
            THEN SetCall(c, "lock") /\ callTask' = [callTask EXCEPT ![c] = t]
            ELSE UNCHANGED <<callPc, callTask>>
    /\ UNCHANGED tagged /\ CheckSame

\* The event that names the window comes after pause_task has returned.
PauseTag(c) ==
    /\ callPc[c] = "tag"
    /\ reason' = [reason EXCEPT ![callTask[c]] = "paused_by_schedule"]
    /\ SetCall(c, "pausing")
    /\ callTask' = [callTask EXCEPT ![c] = NoOne]
    /\ UNCHANGED <<rowOf, obeys, stoppedBy, runVars, lockOf, clockVars, todo, tagged, passVars>>

ListReason(c) ==
    /\ callPc[c] = "listing"
    /\ \E t \in todo[c] :
         /\ todo' = [todo EXCEPT ![c] = @ \ {t}]
         /\ tagged' = [tagged EXCEPT ![c] =
                         IF reason[t] = "paused_by_schedule" THEN @ \cup {t} ELSE @]
         /\ IF todo[c] = {t} THEN SetCall(c, "resuming") ELSE UNCHANGED callPc
    /\ UNCHANGED callTask /\ CheckSame

\* The row is queued without its lock, whatever happened to it since it was
\* listed, as long as the table allows it.
ResumeRow(c) ==
    /\ callPc[c] = "resuming"
    /\ \E t \in tagged[c] :
         /\ tagged' = [tagged EXCEPT ![c] = @ \ {t}]
         /\ IF MayMove(t, "queued")
            THEN /\ rowOf' = [rowOf EXCEPT ![t] = "queued"]
                 /\ stoppedBy' = [stoppedBy EXCEPT ![t] = "none"]
            ELSE UNCHANGED <<rowOf, stoppedBy>>
    /\ UNCHANGED <<reason, obeys, runVars, lockOf, clockVars, callPc, callTask, todo, passVars>>

CheckEnds(c) ==
    /\ \/ callPc[c] \in {"pausing", "listing"} /\ todo[c] = {}
       \/ callPc[c] = "resuming" /\ tagged[c] = {}
    /\ SetCall(c, "idle")
    /\ UNCHANGED <<callTask, todo, tagged>> /\ CheckSame

-----------------------------------------------------------------------------
(* pause_task, called by the user and by a check.                          *)

\* What the caller does when pause_task has failed.
Failed(a) ==
    /\ SetCall(a, IF a = "user" THEN "idle" ELSE "pausing")
    /\ callTask' = [callTask EXCEPT ![a] = NoOne]

PauseLock(a) ==
    LET t == callTask[a] IN
    /\ callPc[a] = "lock" /\ lockOf[t] = NoOne
    /\ lockOf' = [lockOf EXCEPT ![t] = a]
    /\ stopping' = [stopping EXCEPT ![t] = running[t]]
    /\ stoppedBy' = [stoppedBy EXCEPT ![t] =
                       IF ~running[t] THEN @ ELSE IF a = "user" THEN "user" ELSE "window"]
    /\ SetCall(a, "drain")
    /\ UNCHANGED <<rowOf, reason, obeys, running, retried, clockVars, callTask, todo, tagged,
                   passVars>>

\* The grace ends with the run still there: an error, the token stays cancelled.
PauseTimeout(a) ==
    /\ callPc[a] = "drain" /\ running[callTask[a]]
    /\ lockOf' = [lockOf EXCEPT ![callTask[a]] = NoOne]
    /\ Failed(a)
    /\ UNCHANGED <<rowVars, runVars, clockVars, todo, tagged, passVars>>

\* The run is joined.  The transition and its event are one transaction; a row
\* that the convergence of the run has paused already makes it illegal.
PauseApply(a) ==
    LET t == callTask[a] IN
    /\ callPc[a] = "drain" /\ ~running[t]
    /\ lockOf' = [lockOf EXCEPT ![t] = NoOne]
    /\ IF MayMove(t, "paused")
       THEN /\ rowOf' = [rowOf EXCEPT ![t] = "paused"]
            /\ reason' = [reason EXCEPT ![t] = "paused"]
            /\ stoppedBy' = [stoppedBy EXCEPT ![t] = IF a = "user" THEN "user" ELSE "window"]
            /\ IF a = "user" THEN Failed(a) ELSE SetCall(a, "tag") /\ UNCHANGED callTask
       ELSE UNCHANGED <<rowOf, reason, stoppedBy>> /\ Failed(a)
    /\ UNCHANGED <<obeys, runVars, clockVars, todo, tagged, passVars>>

-----------------------------------------------------------------------------
(* The user, the settings and the clock.                                   *)

UserPause(t) ==
    /\ callPc["user"] = "idle"
    /\ SetCall("user", "lock")
    /\ callTask' = [callTask EXCEPT !["user"] = t]
    /\ UNCHANGED <<todo, tagged>> /\ CheckSame

\* resume_task: under the lock, not while a run is being stopped.
UserResume(t) ==
    /\ lockOf[t] = NoOne
    /\ ~(running[t] /\ stopping[t])
    /\ MayMove(t, "queued")
    /\ rowOf' = [rowOf EXCEPT ![t] = "queued"]
    /\ stoppedBy' = [stoppedBy EXCEPT ![t] = "none"]
    /\ UNCHANGED <<reason, obeys, runVars, lockOf, clockVars, callVars, passVars>>

\* update_task_transfer_options takes no lock.
UserObeys(t) ==
    /\ obeys' = [obeys EXCEPT ![t] = ~@]
    /\ UNCHANGED <<rowOf, reason, stoppedBy, runVars, lockOf, clockVars, callVars, passVars>>

\* update_settings stores, dispatches and then checks; it wakes the monitor too.
StoreSettings ==
    /\ enabled' = ~enabled
    /\ IF "settings" \in Checkers
       THEN callPc["settings"] = "idle" /\ SetCall("settings", "decide")
       ELSE UNCHANGED callPc
    /\ UNCHANGED <<rowVars, runVars, lockOf, open, callTask, todo, tagged, passVars>>

WindowTurns ==
    /\ open' = ~open
    /\ UNCHANGED <<rowVars, runVars, lockOf, enabled, callVars, passVars>>

-----------------------------------------------------------------------------
(* The dispatcher: the settings once per pass, the clock per candidate,    *)
(* obey_schedule as the page had it.                                       *)

\* Fault: a page that does not ask for the window.
PassBeginBlind ==
    /\ ~passOn
    /\ passOn' = TRUE /\ passEnabled' = FALSE
    /\ passObeys' = {t \in WinTasks : obeys[t]}
    /\ passRows' = {t \in WinTasks : rowOf[t] = "queued"}
    /\ UNCHANGED <<passTask, rowVars, runVars, lockOf, clockVars, callVars>>

PassBegin ==
    /\ ~passOn
    /\ passOn' = TRUE /\ passEnabled' = enabled
    /\ passObeys' = {t \in WinTasks : obeys[t]}
    /\ passRows' = {t \in WinTasks : rowOf[t] = "queued" /\ ~(Closed /\ obeys[t])}
    /\ UNCHANGED <<passTask, rowVars, runVars, lockOf, clockVars, callVars>>

PassPick ==
    /\ passOn /\ passTask = NoOne
    /\ \E t \in passRows :
         /\ passRows' = passRows \ {t}
         /\ passTask' = IF passEnabled /\ ~open /\ t \in passObeys THEN NoOne ELSE t
    /\ UNCHANGED <<passOn, passEnabled, passObeys, rowVars, runVars, lockOf, clockVars, callVars>>

\* start_task: under the lock, without asking for the window or the status anew.
PassStart ==
    LET t == passTask IN
    /\ t # NoOne /\ lockOf[t] = NoOne
    /\ passTask' = NoOne
    /\ IF ~running[t] /\ MayMove(t, "downloading")
       THEN /\ rowOf' = [rowOf EXCEPT ![t] = "downloading"]
            /\ running' = [running EXCEPT ![t] = TRUE]
            /\ stopping' = [stopping EXCEPT ![t] = FALSE]
            /\ retried' = [retried EXCEPT ![t] = FALSE]
            /\ stoppedBy' = [stoppedBy EXCEPT ![t] = "none"]
       ELSE UNCHANGED <<rowOf, runVars, stoppedBy>>
    /\ UNCHANGED <<reason, obeys, lockOf, clockVars, callVars, passOn, passEnabled, passObeys, passRows>>

PassEnds ==
    /\ passOn /\ passTask = NoOne /\ passRows = {}
    /\ passOn' = FALSE /\ passEnabled' = FALSE /\ passObeys' = {}
    /\ UNCHANGED <<passRows, passTask, rowVars, runVars, lockOf, clockVars, callVars>>

-----------------------------------------------------------------------------
(* The runs.                                                               *)

RunSame == UNCHANGED <<reason, obeys, lockOf, clockVars, callVars, passVars>>

RunCompletes(t) ==
    /\ running[t] /\ rowOf[t] = "downloading"
    /\ rowOf' = [rowOf EXCEPT ![t] = "completed"]
    /\ UNCHANGED <<runVars, stoppedBy>> /\ RunSame

\* A failed request makes the row retrying until the next one delivers.
RunRetries(t) ==
    /\ running[t] /\ ~stopping[t] /\ ~retried[t] /\ rowOf[t] = "downloading"
    /\ rowOf' = [rowOf EXCEPT ![t] = "retrying"]
    /\ retried' = [retried EXCEPT ![t] = TRUE]
    /\ UNCHANGED <<running, stopping, stoppedBy>> /\ RunSame

RunRecovers(t) ==
    /\ running[t] /\ rowOf[t] = "retrying"
    /\ rowOf' = [rowOf EXCEPT ![t] = "downloading"]
    /\ UNCHANGED <<runVars, stoppedBy>> /\ RunSame

\* converge_download_outcome of a cancelled run pauses a live row.
Converge(t) == rowOf' = [rowOf EXCEPT ![t] = IF @ \in LiveRows THEN "paused" ELSE @]

\* The run ends: cancelled, completed, or failed with an automatic retry.
RunEnds(t) ==
    /\ running[t]
    /\ \/ stopping[t] /\ Converge(t)
       \/ ~stopping[t] /\ rowOf[t] = "completed" /\ UNCHANGED rowOf
       \/ ~stopping[t] /\ rowOf[t] \in LiveRows /\ rowOf' = [rowOf EXCEPT ![t] = "queued"]
    /\ running' = [running EXCEPT ![t] = FALSE]
    /\ stopping' = [stopping EXCEPT ![t] = FALSE]
    /\ retried' = [retried EXCEPT ![t] = FALSE]
    /\ stoppedBy' = [stoppedBy EXCEPT ![t] = IF rowOf'[t] = "paused" THEN @ ELSE "none"]
    /\ RunSame

-----------------------------------------------------------------------------
CheckStep(c) ==
    Decide(c) \/ PauseLook(c) \/ PauseTag(c) \/ ListReason(c) \/ ResumeRow(c) \/ CheckEnds(c)

PauseStep(a) == PauseLock(a) \/ PauseTimeout(a) \/ PauseApply(a)

UserStep == \/ \E t \in WinTasks : UserPause(t) \/ UserResume(t) \/ UserObeys(t)
            \/ StoreSettings \/ WindowTurns

PassStep == PassBegin \/ PassPick \/ PassStart \/ PassEnds

RowStep(t) == RunCompletes(t) \/ RunRetries(t) \/ RunRecovers(t) \/ RunEnds(t)

ScheduleNext ==
    \/ MonitorWakes
    \/ \E c \in Checkers : CheckStep(c)
    \/ \E a \in Callers : PauseStep(a)
    \/ UserStep \/ PassStep
    \/ \E t \in WinTasks : RowStep(t)

(* The timer of the monitor fires, its check goes on, the queue of a task  *)
(* lock is first come first served, a cancelled or completed run ends (as  *)
(* Scheduler assumes), a request that is retried delivers or ends, and a   *)
(* pass of the dispatcher comes to its end.  Nothing is assumed of the     *)
(* user, of the clock and of how a drain ends.                             *)
ScheduleFairness ==
    /\ WF_scheduleVars(MonitorWakes)
    /\ \A c \in Checkers : /\ WF_scheduleVars(CheckStep(c))
                           /\ SF_scheduleVars(PauseLock(c))
    /\ \A a \in Callers : WF_scheduleVars(PauseTimeout(a) \/ PauseApply(a))
    /\ WF_scheduleVars(PassPick \/ PassStart \/ PassEnds)
    /\ \A t \in WinTasks : /\ WF_scheduleVars(RunRecovers(t))
                          /\ WF_scheduleVars((stopping[t] \/ rowOf[t] = "completed") /\ RunEnds(t))

ScheduleSpec == ScheduleInit /\ [][ScheduleNext]_scheduleVars /\ ScheduleFairness

-----------------------------------------------------------------------------
(* While the window stays closed, a task that obeys it does not go on       *)
(* running: one that a stale pass of the dispatcher started, that was in a  *)
(* retry when the check looked, or whose drain timed out is caught later.   *)
ClosedWindowEmpties ==
    \A t \in WinTasks :
        <>[](Closed /\ obeys[t]) => <>[]~running[t]

(* FUN-07: a paused task whose newest pause event is the window's does not  *)
(* stay paused when the window stays open or the feature is switched off.   *)
TaggedIsResumed ==
    \A t \in WinTasks :
        <>[](~Closed) =>
            []<>~(rowOf[t] = "paused" /\ obeys[t] /\ reason[t] = "paused_by_schedule")

(* What the clock wants of a task comes to pass, whichever stale pass,      *)
(* retry, drain or check is in between: the two properties above.           *)
WindowIsObeyed == ClosedWindowEmpties /\ TaggedIsResumed

(* README: the window pauses and resumes the tasks that obey it.  A task    *)
(* whose run the window stopped does not stay paused once the window is     *)
(* open for good.  It fails: see the findings.                              *)
ScheduledRunsResume ==
    \A t \in WinTasks :
        <>[](~Closed /\ obeys[t]) =>
            []<>~(rowOf[t] = "paused" /\ stoppedBy[t] = "window")

(* README: a task that the user paused is not resumed by the window.  It    *)
(* fails: the pause of a running task leaves no event.                      *)
ManualPauseIsKept ==
    [][\A c \in Checkers, t \in WinTasks :
         ResumeRow(c) /\ rowOf[t] = "paused" /\ rowOf'[t] = "queued" => stoppedBy[t] # "user"]_scheduleVars
=============================================================================
