---- MODULE Scheduler ----
(***************************************************************************)
(* The download scheduler: the dispatcher that starts queued tasks, the    *)
(* supervisor that runs each started task and converges its outcome, the   *)
(* user commands that stop, queue, restart and delete tasks, the retry     *)
(* watcher, and a restart of the application.                              *)
(*                                                                         *)
(* Three kinds of state meet here.  The task ROWS live in SQLite and       *)
(* survive a crash.  The runtime REGISTRY (AppState::downloads, one        *)
(* DownloadControl per reserved task) and the per-task runtime locks do    *)
(* not.  Each supervisor runs without the task lock, so every row write it *)
(* makes interleaves with the dispatcher and with the commands.            *)
(***************************************************************************)
EXTENDS TaskStatus, Naturals, FiniteSets

CONSTANTS
  Tasks,           \* task ids
  Workers,         \* identities of supervisors alive at the same time
  Users,           \* concurrent invocations of commands
  NoTask, NoWorker,
  Free,            \* the value of an unheld task lock
  Dispatcher,      \* the holder of a task lock inside start_task
  MaxActive,       \* settings.max_active_tasks
  MaxAutoRetry,    \* MAX_TASK_AUTO_RETRIES
  CommandBudget,   \* bound: commands issued in a behaviour
  CrashBudget      \* bound: restarts of the application in a behaviour

ASSUME SchedulerAssumption ==
  /\ IsFiniteSet(Tasks)
  /\ NoTask \notin Tasks
  /\ NoWorker \notin Workers
  /\ Free # Dispatcher
  /\ Free \notin Users
  /\ Dispatcher \notin Users
  /\ MaxActive \in Nat \ {0}
  /\ MaxAutoRetry \in Nat
  /\ CommandBudget \in Nat
  /\ CrashBudget \in Nat

VARIABLES
  status, retryAt, attempt,                \* the rows
  tempAhead,                               \* the temp file is longer than its checkpoint
  downloads, held, cancelled, taskLock,    \* the registry and the task locks
  supPc, supTask, supResult, supCanceled,  \* the supervisors
  dispPc, dispTask, dispPage, active,      \* the dispatch pass that holds the lock
  wake,                                    \* a dispatch has been spawned
  cmdPc, cmdKind, cmdTask, cmdWorker,      \* the commands
  issued, crashes                          \* the two bounded counters

rowVars  == <<status, retryAt, attempt>>
ctlVars  == <<downloads, held, cancelled, taskLock>>
runVars  == <<supPc, supTask, supResult, supCanceled>>
supVars  == <<runVars, tempAhead>>
dispVars == <<dispPc, dispTask, dispPage, active>>
cmdVars  == <<cmdPc, cmdKind, cmdTask, cmdWorker>>
budgets  == <<issued, crashes>>
vars == <<rowVars, ctlVars, supVars, dispVars, wake, cmdVars, budgets>>

----
(* What the variables range over. *)

RetryStates == {"none", "later", "due"}
SupPcs == {"exited", "reserved", "prepare", "engine", "running", "observe",
           "converge", "release", "tail"}
DispPcs == {"idle", "page", "pick", "lock", "reserve", "transition", "spawn",
            "setHandle", "startFailed"}
CmdPcs == {"idle", "lock", "enter", "drain", "apply"}
\* The commands that cancel and join the running supervisor before they write.
DrainingKinds == {"pause", "retry", "cancel", "restart", "delete"}
CmdKinds == DrainingKinds \cup {"resume", "recover"}
Results == {"ok", "retryable", "fatal"}

\* Supervisors that may still write their row or the registry.
Owning == {"reserved", "prepare", "engine", "running", "observe", "converge",
           "release"}

TypeOK ==
  /\ status \in [Tasks -> RowStates]
  /\ retryAt \in [Tasks -> RetryStates]
  /\ attempt \in [Tasks -> Nat]
  /\ tempAhead \in [Tasks -> BOOLEAN]
  /\ downloads \in [Tasks -> Workers \cup {NoWorker}]
  /\ held \in [Tasks -> BOOLEAN]
  /\ cancelled \in [Workers -> BOOLEAN]
  /\ taskLock \in [Tasks -> Users \cup {Free, Dispatcher}]
  /\ supPc \in [Workers -> SupPcs]
  /\ supTask \in [Workers -> Tasks \cup {NoTask}]
  /\ supResult \in [Workers -> Results]
  /\ supCanceled \in [Workers -> BOOLEAN]
  /\ dispPc \in DispPcs
  /\ dispTask \in Tasks \cup {NoTask}
  /\ dispPage \in SUBSET Tasks
  /\ active \in Nat
  /\ wake \in BOOLEAN
  /\ cmdPc \in [Users -> CmdPcs]
  /\ cmdKind \in [Users -> CmdKinds]
  /\ cmdTask \in [Users -> Tasks \cup {NoTask}]
  /\ cmdWorker \in [Users -> Workers \cup {NoWorker}]
  /\ issued \in Nat
  /\ crashes \in Nat

Init ==
  /\ status = [t \in Tasks |-> "queued"]
  /\ retryAt = [t \in Tasks |-> "none"]
  /\ attempt = [t \in Tasks |-> 0]
  /\ tempAhead = [t \in Tasks |-> FALSE]
  /\ downloads = [t \in Tasks |-> NoWorker]
  /\ held = [t \in Tasks |-> FALSE]
  /\ cancelled = [w \in Workers |-> FALSE]
  /\ taskLock = [t \in Tasks |-> Free]
  /\ supPc = [w \in Workers |-> "exited"]
  /\ supTask = [w \in Workers |-> NoTask]
  /\ supResult = [w \in Workers |-> "ok"]
  /\ supCanceled = [w \in Workers |-> FALSE]
  /\ dispPc = "idle"
  /\ dispTask = NoTask
  /\ dispPage = {}
  /\ active = 0
  /\ wake = TRUE
  /\ cmdPc = [u \in Users |-> "idle"]
  /\ cmdKind = [u \in Users |-> "pause"]
  /\ cmdTask = [u \in Users |-> NoTask]
  /\ cmdWorker = [u \in Users |-> NoWorker]
  /\ issued = 0
  /\ crashes = 0

----
(* Row writes. *)

RowExists(t) == status[t] # "absent"

CanMove(t, target) == target \in CanTransition[status[t]]

\* Every row write below is one of these two shapes.  A write that clears the
\* error message clears retry_after_at with it.
SetStatus(t, s) ==
  /\ status' = [status EXCEPT ![t] = s]
  /\ UNCHANGED <<retryAt, attempt>>

SetRow(t, s, r, a) ==
  /\ status' = [status EXCEPT ![t] = s]
  /\ retryAt' = [retryAt EXCEPT ![t] = r]
  /\ attempt' = [attempt EXCEPT ![t] = a]

\* schedule_auto_retry: the attempt is charged in the transaction that moves
\* the row, and a row that a command moved away first is left alone.
ScheduleAutoRetry(t) ==
  IF status[t] \notin AutoRetryFrom
  THEN UNCHANGED rowVars
  ELSE IF attempt[t] + 1 > MaxAutoRetry
       THEN SetRow(t, "failed", "none", attempt[t] + 1)
       ELSE SetRow(t, "queued", "later", attempt[t] + 1)

\* persist_failure_state: the error code picks Failed or NeedsAttention, and
\* only a row still in scope is written.
PersistFailure(t, scope) ==
  IF status[t] \in scope
  THEN \E s \in {"failed", "needs_attention"} : SetRow(t, s, "none", attempt[t])
  ELSE UNCHANGED rowVars

\* Fault: a cancelled run leaves its row as it was.
ConvergeCanceledNothing(t) == UNCHANGED rowVars

\* Fault: a cancelled run is paused without a look at the row.
ConvergeCanceledAlways(t) == SetRow(t, "paused", "none", attempt[t])

\* A row that a cancelled run leaves live converges to Paused.
ConvergeCanceled(t) ==
  IF status[t] \in LiveStatuses
  THEN SetRow(t, "paused", "none", attempt[t])
  ELSE UNCHANGED rowVars

ActiveTasks == {t \in Tasks : downloads[t] # NoWorker}

----
(* The dispatch pass.  Scheduler::lock admits one pass at a time; passes     *)
(* that are spawned while one runs coalesce in wake.                         *)

DispatchBegin ==
  /\ dispPc = "idle"
  /\ wake
  /\ wake' = FALSE
  /\ active' = Cardinality(ActiveTasks)
  /\ dispPc' = IF Cardinality(ActiveTasks) < MaxActive THEN "page" ELSE "idle"
  /\ UNCHANGED <<rowVars, ctlVars, supVars, dispTask, dispPage, cmdVars, budgets>>

\* The page is a snapshot: the rows may move before they are started.
DispatchPage ==
  /\ dispPc = "page"
  /\ dispPage' = {t \in Tasks : status[t] = "queued" /\ retryAt[t] # "later"}
  /\ dispPc' = "pick"
  /\ UNCHANGED <<rowVars, ctlVars, supVars, dispTask, active, wake, cmdVars, budgets>>

DispatchPick(t) ==
  /\ dispPc = "pick"
  /\ active < MaxActive
  /\ t \in dispPage
  /\ dispTask' = t
  /\ dispPage' = dispPage \ {t}
  /\ dispPc' = "lock"
  /\ UNCHANGED <<rowVars, ctlVars, supVars, active, wake, cmdVars, budgets>>

DispatchEnd ==
  /\ dispPc = "pick"
  /\ active >= MaxActive \/ dispPage = {}
  /\ dispPage' = {}
  /\ dispTask' = NoTask
  /\ dispPc' = "idle"
  /\ UNCHANGED <<rowVars, ctlVars, supVars, active, wake, cmdVars, budgets>>

\* Fault: start_task does not wait for the task lock.
StartLockNoWait ==
  /\ dispPc = "lock"
  /\ dispPc' = "reserve"
  /\ UNCHANGED <<rowVars, ctlVars, supVars, dispTask, dispPage, active, wake,
                 cmdVars, budgets>>

\* start_task takes the task lock first and keeps it until it returns.
StartLock ==
  /\ dispPc = "lock"
  /\ taskLock[dispTask] = Free
  /\ taskLock' = [taskLock EXCEPT ![dispTask] = Dispatcher]
  /\ dispPc' = "reserve"
  /\ UNCHANGED <<rowVars, downloads, held, cancelled, supVars, dispTask, dispPage,
                 active, wake, cmdVars, budgets>>

\* Fault: a return path of start_task that keeps the task lock.
LeaveStartLocked(pc) ==
  /\ UNCHANGED taskLock
  /\ dispPc' = pc

\* The guard of start_task goes out of scope.
LeaveStart(pc) ==
  /\ taskLock' = [taskLock EXCEPT ![dispTask] = Free]
  /\ dispPc' = pc

\* Header, proxy, network-policy or settings resolution fails.
StartUnresolved ==
  /\ dispPc = "reserve"
  /\ LeaveStart("startFailed")
  /\ UNCHANGED <<rowVars, downloads, held, cancelled, supVars, dispTask, dispPage,
                 active, wake, cmdVars, budgets>>

StartAlreadyActive ==
  /\ dispPc = "reserve"
  /\ downloads[dispTask] # NoWorker
  /\ LeaveStart("pick")
  /\ UNCHANGED <<rowVars, downloads, held, cancelled, supVars, dispTask, dispPage,
                 active, wake, cmdVars, budgets>>

\* Fault: the registry is not consulted before the pending control goes in.
StartReserveAlways(w) ==
  /\ dispPc = "reserve"
  /\ supPc[w] = "exited"
  /\ downloads' = [downloads EXCEPT ![dispTask] = w]
  /\ held' = [held EXCEPT ![dispTask] = FALSE]
  /\ cancelled' = [cancelled EXCEPT ![w] = FALSE]
  /\ supPc' = [supPc EXCEPT ![w] = "reserved"]
  /\ supTask' = [supTask EXCEPT ![w] = dispTask]
  /\ dispPc' = "transition"
  /\ UNCHANGED <<rowVars, tempAhead, taskLock, supResult, supCanceled, dispTask,
                 dispPage, active, wake, cmdVars, budgets>>

\* A fresh cancellation token and a pending control, without a join handle.
StartReserve(w) ==
  /\ dispPc = "reserve"
  /\ downloads[dispTask] = NoWorker
  /\ supPc[w] = "exited"
  /\ downloads' = [downloads EXCEPT ![dispTask] = w]
  /\ held' = [held EXCEPT ![dispTask] = FALSE]
  /\ cancelled' = [cancelled EXCEPT ![w] = FALSE]
  /\ supPc' = [supPc EXCEPT ![w] = "reserved"]
  /\ supTask' = [supTask EXCEPT ![w] = dispTask]
  /\ dispPc' = "transition"
  /\ UNCHANGED <<rowVars, tempAhead, taskLock, supResult, supCanceled, dispTask,
                 dispPage, active, wake, cmdVars, budgets>>

\* The state machine reads the row itself: a row that left the queue after the
\* snapshot still starts if its move to Downloading is legal.
StartTransition ==
  /\ dispPc = "transition"
  /\ CanMove(dispTask, "downloading")
  /\ SetRow(dispTask, "downloading", "none", attempt[dispTask])
  /\ dispPc' = "spawn"
  /\ UNCHANGED <<ctlVars, supVars, dispTask, dispPage, active, wake, cmdVars, budgets>>

\* An illegal move, a missing row or a database error: the pending control goes.
StartTransitionFailed ==
  /\ dispPc = "transition"
  /\ LET w == downloads[dispTask] IN
     /\ downloads' = [downloads EXCEPT ![dispTask] = NoWorker]
     /\ supPc' = [supPc EXCEPT ![w] = "exited"]
     /\ supTask' = [supTask EXCEPT ![w] = NoTask]
  /\ LeaveStart("startFailed")
  /\ UNCHANGED <<rowVars, tempAhead, held, cancelled, supResult, supCanceled, dispTask,
                 dispPage, active, wake, cmdVars, budgets>>

StartSpawn ==
  /\ dispPc = "spawn"
  /\ supPc' = [supPc EXCEPT ![downloads[dispTask]] = "prepare"]
  /\ dispPc' = "setHandle"
  /\ UNCHANGED <<rowVars, tempAhead, ctlVars, supTask, supResult, supCanceled, dispTask,
                 dispPage, active, wake, cmdVars, budgets>>

\* Fault: a started task is not counted.
StartSetHandleUncounted ==
  /\ dispPc = "setHandle"
  /\ held' = [held EXCEPT ![dispTask] = downloads[dispTask] # NoWorker]
  /\ LeaveStart("pick")
  /\ UNCHANGED <<rowVars, downloads, cancelled, supVars, dispTask, dispPage, active,
                 wake, cmdVars, budgets>>

\* The supervisor may have released the slot before the handle is stored.
StartSetHandle ==
  /\ dispPc = "setHandle"
  /\ held' = [held EXCEPT ![dispTask] = downloads[dispTask] # NoWorker]
  /\ LeaveStart("pick")
  /\ active' = active + 1
  /\ UNCHANGED <<rowVars, downloads, cancelled, supVars, dispTask, dispPage, wake,
                 cmdVars, budgets>>

\* handle_start_failure runs after the task lock is dropped.
StartFailed ==
  /\ dispPc = "startFailed"
  /\ PersistFailure(dispTask, {"queued"})
  /\ dispPc' = "pick"
  /\ UNCHANGED <<ctlVars, supVars, dispTask, dispPage, active, wake, cmdVars, budgets>>

----
(* The supervisor of one started task; it takes no task lock.                *)

GoTo(w, pc) == supPc' = [supPc EXCEPT ![w] = pc]

SupUnchanged == UNCHANGED <<ctlVars, supTask, supCanceled, dispVars, wake,
                            cmdVars, budgets>>

\* prepare_task_for_download succeeds.
SupPrepare(w) ==
  /\ supPc[w] = "prepare"
  /\ GoTo(w, "engine")
  /\ SupUnchanged
  /\ UNCHANGED <<rowVars, supResult, tempAhead>>

\* A single-segment task whose temp file is longer than its checkpoint: the
\* bytes are written together with the status of the page snapshot, Queued.
SupPrepareResync(w) ==
  /\ supPc[w] = "prepare"
  /\ tempAhead[supTask[w]]
  /\ tempAhead' = [tempAhead EXCEPT ![supTask[w]] = FALSE]
  /\ GoTo(w, "engine")
  /\ IF RowExists(supTask[w]) THEN SetStatus(supTask[w], "queued") ELSE UNCHANGED rowVars
  /\ SupUnchanged
  /\ UNCHANGED supResult

\* A local resume check (Failed) or the remote identity check (NeedsAttention)
\* blocks the resume; prepare moves the row and returns the error.
SupPrepareBlocked(w) ==
  /\ supPc[w] = "prepare"
  /\ GoTo(w, "observe")
  /\ supResult' = [supResult EXCEPT ![w] = "fatal"]
  /\ \E s \in {"failed", "needs_attention"} :
       IF CanMove(supTask[w], s) THEN SetStatus(supTask[w], s) ELSE UNCHANGED rowVars
  /\ SupUnchanged
  /\ UNCHANGED tempAhead

\* The resume probe, or an engine before its first status write, fails.
SupFailEarly(w) ==
  /\ supPc[w] \in {"prepare", "engine"}
  /\ GoTo(w, "observe")
  /\ \E r \in {"retryable", "fatal"} : supResult' = [supResult EXCEPT ![w] = r]
  /\ SupUnchanged
  /\ UNCHANGED <<rowVars, tempAhead>>

\* The segmented coordinator opens with an unconditional write of Downloading;
\* from then on the temp file, preallocated or growing, may be ahead of the
\* persisted offset of a single segment.
SupEngineStart(w) ==
  /\ supPc[w] = "engine"
  /\ GoTo(w, "running")
  /\ IF RowExists(supTask[w])
     THEN SetRow(supTask[w], "downloading", "none", attempt[supTask[w]])
     ELSE UNCHANGED rowVars
  /\ \E b \in BOOLEAN : tempAhead' = [tempAhead EXCEPT ![supTask[w]] = b]
  /\ SupUnchanged
  /\ UNCHANGED supResult

\* A worker is backing off; the row says so unless the run is cancelled.
SupRetrying(w) ==
  /\ supPc[w] = "running"
  /\ ~cancelled[w]
  /\ RowExists(supTask[w])
  /\ SetStatus(supTask[w], "retrying")
  /\ SupUnchanged
  /\ UNCHANGED <<supPc, supResult, tempAhead>>

\* A checkpoint says Downloading only while the row is live.
SupCheckpoint(w) ==
  /\ supPc[w] = "running"
  /\ status[supTask[w]] \in LiveStatuses
  /\ SetStatus(supTask[w], "downloading")
  /\ SupUnchanged
  /\ UNCHANGED <<supPc, supResult, tempAhead>>

\* The last checkpoint, then complete_task, conditional on Downloading.
SupComplete(w) ==
  /\ supPc[w] = "running"
  /\ GoTo(w, "observe")
  /\ supResult' = [supResult EXCEPT ![w] = "ok"]
  /\ LET t == supTask[w] IN
     IF status[t] \in LiveStatuses
     THEN SetRow(t, "completed", "none", attempt[t])
     ELSE UNCHANGED rowVars
  /\ SupUnchanged
  /\ UNCHANGED tempAhead

\* A worker error or a panic; the coordinator moves the row itself when it can.
SupFail(w) ==
  /\ supPc[w] = "running"
  /\ GoTo(w, "observe")
  /\ \E r \in {"retryable", "fatal"} : supResult' = [supResult EXCEPT ![w] = r]
  /\ \/ UNCHANGED rowVars
     \/ CanMove(supTask[w], "failed") /\ SetStatus(supTask[w], "failed")
  /\ SupUnchanged
  /\ UNCHANGED tempAhead

\* Fault: the cancellation is only noticed between two chunks, not in a backoff.
SupCancelExitNotRetrying(w) ==
  /\ supPc[w] = "running"
  /\ cancelled[w]
  /\ status[supTask[w]] # "retrying"
  /\ GoTo(w, "observe")
  /\ supResult' = [supResult EXCEPT ![w] = "ok"]
  /\ SupUnchanged
  /\ UNCHANGED <<rowVars, tempAhead>>

\* A cancelled engine drains its workers, checkpoints and returns Ok.
SupCancelExit(w) ==
  /\ supPc[w] = "running"
  /\ cancelled[w]
  /\ GoTo(w, "observe")
  /\ supResult' = [supResult EXCEPT ![w] = "ok"]
  /\ IF status[supTask[w]] \in LiveStatuses
     THEN SetStatus(supTask[w], "downloading")
     ELSE UNCHANGED rowVars
  /\ SupUnchanged
  /\ UNCHANGED tempAhead

\* The token is read once, and the outcome is converged under that reading.
SupObserve(w) ==
  /\ supPc[w] = "observe"
  /\ GoTo(w, "converge")
  /\ supCanceled' = [supCanceled EXCEPT ![w] = cancelled[w]]
  /\ UNCHANGED <<rowVars, tempAhead, ctlVars, supTask, supResult, dispVars, wake, cmdVars,
                 budgets>>

SupConverge(w) ==
  /\ supPc[w] = "converge"
  /\ GoTo(w, "release")
  /\ LET t == supTask[w] IN
     \/ supCanceled[w] /\ ConvergeCanceled(t)
     \/ ~supCanceled[w] /\ supResult[w] = "retryable" /\ ScheduleAutoRetry(t)
     \/ ~supCanceled[w] /\ supResult[w] = "fatal" /\ PersistFailure(t, LiveStatuses)
     \/ ~supCanceled[w] /\ supResult[w] = "ok" /\ SetRow(t, status[t], retryAt[t], 0)
  /\ SupUnchanged
  /\ UNCHANGED <<supResult, tempAhead>>

\* The slot is released by task id, whoever holds it.
SupRelease(w) ==
  /\ supPc[w] = "release"
  /\ GoTo(w, "tail")
  /\ downloads' = [downloads EXCEPT ![supTask[w]] = NoWorker]
  /\ held' = [held EXCEPT ![supTask[w]] = FALSE]
  /\ UNCHANGED <<rowVars, tempAhead, cancelled, taskLock, supTask, supResult, supCanceled,
                 dispVars, wake, cmdVars, budgets>>

\* Fault: the end of a run spawns no dispatch.
SupTailSilent(w) ==
  /\ supPc[w] = "tail"
  /\ GoTo(w, "exited")
  /\ supTask' = [supTask EXCEPT ![w] = NoTask]
  /\ supResult' = [supResult EXCEPT ![w] = "ok"]
  /\ supCanceled' = [supCanceled EXCEPT ![w] = FALSE]
  /\ cancelled' = [cancelled EXCEPT ![w] = FALSE]
  /\ UNCHANGED <<rowVars, tempAhead, downloads, held, taskLock, dispVars, wake,
                 cmdVars, budgets>>

\* Hash verification and the completion action run after the release; then a
\* new dispatch is spawned and the join handle becomes ready.
SupTail(w) ==
  /\ supPc[w] = "tail"
  /\ GoTo(w, "exited")
  /\ supTask' = [supTask EXCEPT ![w] = NoTask]
  /\ supResult' = [supResult EXCEPT ![w] = "ok"]
  /\ supCanceled' = [supCanceled EXCEPT ![w] = FALSE]
  /\ cancelled' = [cancelled EXCEPT ![w] = FALSE]
  /\ wake' = TRUE
  /\ UNCHANGED <<rowVars, tempAhead, downloads, held, taskLock, dispVars, cmdVars, budgets>>

----
(* The user commands.  Each takes the task lock first and keeps it until it  *)
(* returns.                                                                  *)

CmdUnchanged == UNCHANGED <<supVars, dispVars, cmdKind, cmdTask, budgets>>

CmdIssue(u, k, t) ==
  /\ cmdPc[u] = "idle"
  /\ issued < CommandBudget
  /\ issued' = issued + 1
  /\ cmdPc' = [cmdPc EXCEPT ![u] = "lock"]
  /\ cmdKind' = [cmdKind EXCEPT ![u] = k]
  /\ cmdTask' = [cmdTask EXCEPT ![u] = t]
  /\ UNCHANGED <<rowVars, ctlVars, supVars, dispVars, wake, cmdWorker, crashes>>

CmdLock(u) ==
  /\ cmdPc[u] = "lock"
  /\ taskLock[cmdTask[u]] = Free
  /\ taskLock' = [taskLock EXCEPT ![cmdTask[u]] = u]
  /\ cmdPc' = [cmdPc EXCEPT ![u] = "enter"]
  /\ UNCHANGED <<rowVars, downloads, held, cancelled, wake, cmdWorker>>
  /\ CmdUnchanged

\* The command returns: its guard drops the task lock.
LeaveCommand(u) ==
  /\ cmdPc' = [cmdPc EXCEPT ![u] = "idle"]
  /\ cmdTask' = [cmdTask EXCEPT ![u] = NoTask]
  /\ cmdKind' = [cmdKind EXCEPT ![u] = "pause"]
  /\ cmdWorker' = [cmdWorker EXCEPT ![u] = NoWorker]
  /\ taskLock' = [taskLock EXCEPT ![cmdTask[u]] = Free]
  /\ UNCHANGED <<runVars, dispVars, budgets>>

Return(u) == LeaveCommand(u) /\ UNCHANGED tempAhead

\* A missing row, a task that cannot resume or that must restart, or a resume
\* while the previous run is still stopping.
CmdRefuse(u) ==
  /\ cmdPc[u] = "enter"
  /\ cmdKind[u] \in {"resume", "recover", "retry", "cancel"}
  /\ Return(u)
  /\ UNCHANGED <<rowVars, downloads, held, cancelled, wake>>

Draining(u) == cmdKind[u] \in DrainingKinds

\* A previous run of t was cancelled and still owns its slot.
Stopping(t) == downloads[t] # NoWorker /\ cancelled[downloads[t]]

\* Nothing to drain, or a command that does not drain.
CmdProceed(u) ==
  /\ cmdPc[u] = "enter"
  /\ cmdKind[u] = "resume" => ~Stopping(cmdTask[u])
  /\ Draining(u) => downloads[cmdTask[u]] = NoWorker
  /\ cmdPc' = [cmdPc EXCEPT ![u] = "apply"]
  /\ UNCHANGED <<rowVars, ctlVars, wake, cmdWorker>>
  /\ CmdUnchanged

\* remove_and_drain_control cancels the token and takes the join handle out of
\* the control, which keeps its slot.  Without a handle to take the command
\* reports that the stop is pending.
CmdCancelToken(u) ==
  LET t == cmdTask[u]
      w == downloads[t]
  IN
  /\ cmdPc[u] = "enter"
  /\ Draining(u)
  /\ w # NoWorker
  /\ cancelled' = [cancelled EXCEPT ![w] = TRUE]
  /\ IF held[t]
     THEN /\ held' = [held EXCEPT ![t] = FALSE]
          /\ cmdWorker' = [cmdWorker EXCEPT ![u] = w]
          /\ cmdPc' = [cmdPc EXCEPT ![u] = "drain"]
          /\ UNCHANGED <<rowVars, downloads, taskLock, wake>>
          /\ CmdUnchanged
     ELSE Return(u) /\ UNCHANGED <<rowVars, downloads, held, wake>>

\* The supervisor that ran cmdTask[u] under this identity has ended.
JoinReady(u) == supTask[cmdWorker[u]] # cmdTask[u]

CmdJoined(u) ==
  /\ cmdPc[u] = "drain"
  /\ JoinReady(u)
  /\ downloads' = [downloads EXCEPT ![cmdTask[u]] = NoWorker]
  /\ cmdPc' = [cmdPc EXCEPT ![u] = "apply"]
  /\ cmdWorker' = [cmdWorker EXCEPT ![u] = NoWorker]
  /\ UNCHANGED <<rowVars, held, cancelled, taskLock, wake>>
  /\ CmdUnchanged

\* Fault: at the deadline the run is detached and the command goes on.
CmdDrainTimeoutDetach(u) ==
  /\ cmdPc[u] = "drain"
  /\ ~JoinReady(u)
  /\ cmdPc' = [cmdPc EXCEPT ![u] = "apply"]
  /\ cmdWorker' = [cmdWorker EXCEPT ![u] = NoWorker]
  /\ UNCHANGED <<rowVars, ctlVars, wake>>
  /\ CmdUnchanged

\* Fault: at the deadline the join handle is dropped.
CmdDrainTimeoutForget(u) ==
  /\ cmdPc[u] = "drain"
  /\ ~JoinReady(u)
  /\ downloads[cmdTask[u]] # NoWorker
  /\ Return(u)
  /\ UNCHANGED <<rowVars, downloads, held, cancelled, wake>>

\* The five-second grace ends: with the slot still reserved the handle goes
\* back and the command fails; with the slot released the writer is gone.
CmdDrainTimeout(u) ==
  /\ cmdPc[u] = "drain"
  /\ ~JoinReady(u)
  /\ LET t == cmdTask[u] IN
     IF downloads[t] # NoWorker
     THEN /\ held' = [held EXCEPT ![t] = TRUE]
          /\ Return(u)
          /\ UNCHANGED <<rowVars, downloads, cancelled, wake>>
     ELSE /\ cmdPc' = [cmdPc EXCEPT ![u] = "apply"]
          /\ cmdWorker' = [cmdWorker EXCEPT ![u] = NoWorker]
          /\ UNCHANGED <<rowVars, ctlVars, wake>>
          /\ CmdUnchanged

Applying(u, k) == cmdPc[u] = "apply" /\ cmdKind[u] = k

\* What a successful command leaves: its row write, a detached dispatch, its return.
Finish(u) ==
  /\ wake' = TRUE
  /\ Return(u)
  /\ UNCHANGED <<downloads, held, cancelled>>

ApplyPause(u) ==
  LET t == cmdTask[u] IN
  /\ Applying(u, "pause")
  /\ CanMove(t, "paused")
  /\ SetRow(t, "paused", "none", attempt[t])
  /\ Finish(u)

ApplyCancel(u) ==
  LET t == cmdTask[u] IN
  /\ Applying(u, "cancel")
  /\ CanMove(t, "failed")
  /\ SetRow(t, "failed", "none", attempt[t])
  /\ Finish(u)

\* queue_task_for_retry_at clears the automatic attempts it did not spend.
ApplyRetry(u) ==
  LET t == cmdTask[u] IN
  /\ Applying(u, "retry")
  /\ CanMove(t, "queued")
  /\ SetRow(t, "queued", "none", 0)
  /\ Finish(u)

\* Failed and NeedsAttention rows need retry or the recovery playbook.
ApplyResume(u) ==
  LET t == cmdTask[u] IN
  /\ Applying(u, "resume")
  /\ status[t] \notin {"completed", "failed", "needs_attention"}
  /\ CanMove(t, "queued")
  /\ SetRow(t, "queued", "none", 0)
  /\ Finish(u)

\* The recovery playbook queues the row now, or in five minutes.
ApplyRecover(u) ==
  LET t == cmdTask[u] IN
  /\ Applying(u, "recover")
  /\ CanMove(t, "queued")
  /\ \E r \in {"none", "later"} :
       /\ SetRow(t, "queued", r, 0)
       /\ wake' = (wake \/ r = "none")
  /\ Return(u)
  /\ UNCHANGED <<downloads, held, cancelled>>

\* restart_task_from_beginning resets the row whatever its status; a temp file
\* that cannot be removed does not stop it.
ApplyRestart(u) ==
  LET t == cmdTask[u] IN
  /\ Applying(u, "restart")
  /\ RowExists(t)
  /\ SetRow(t, "queued", "none", attempt[t])
  /\ \E b \in {FALSE, tempAhead[t]} : tempAhead' = [tempAhead EXCEPT ![t] = b]
  /\ wake' = TRUE
  /\ LeaveCommand(u)
  /\ UNCHANGED <<downloads, held, cancelled>>

\* The row goes with its retry state; a failed file clean-up keeps it, paused
\* if it was waiting to run.
ApplyDelete(u) ==
  LET t == cmdTask[u] IN
  /\ Applying(u, "delete")
  /\ \/ SetRow(t, "absent", "none", 0)
     \/ IF status[t] \in {"queued", "downloading", "retrying", "waiting_network"}
        THEN SetRow(t, "paused", "none", attempt[t])
        ELSE UNCHANGED rowVars
  /\ Finish(u)

\* An illegal move, a restart whose probe fails, a missing row.
ApplyRejected(u) ==
  LET t == cmdTask[u] IN
  /\ cmdPc[u] = "apply"
  /\ \/ cmdKind[u] = "pause" /\ ~CanMove(t, "paused")
     \/ cmdKind[u] = "cancel" /\ ~CanMove(t, "failed")
     \/ cmdKind[u] \in {"retry", "recover", "resume"} /\ ~CanMove(t, "queued")
     \/ cmdKind[u] = "resume" /\ status[t] \in {"completed", "failed", "needs_attention"}
     \/ cmdKind[u] = "restart"
  /\ Return(u)
  /\ UNCHANGED <<rowVars, downloads, held, cancelled, wake>>

----
(* Time, the retry watcher, and the end of the process.                      *)

RetryDue(t) ==
  /\ retryAt[t] = "later"
  /\ retryAt' = [retryAt EXCEPT ![t] = "due"]
  /\ UNCHANGED <<status, attempt, ctlVars, supVars, dispVars, wake, cmdVars, budgets>>

\* schedule_retry_after_wakeup sleeps until the earliest queued retry is due.
WatcherDispatch ==
  /\ ~wake
  /\ \E t \in Tasks : status[t] = "queued" /\ retryAt[t] = "due"
  /\ wake' = TRUE
  /\ UNCHANGED <<rowVars, ctlVars, supVars, dispVars, cmdVars, budgets>>

\* The process dies and starts again: reset_interrupted_tasks takes every live
\* row to the status that the auto_resume setting names, and startup dispatches.
Crash ==
  /\ crashes < CrashBudget
  /\ crashes' = crashes + 1
  /\ \E s \in {"queued", "paused"} :
       status' = [t \in Tasks |-> IF status[t] \in LiveStatuses THEN s ELSE status[t]]
  /\ downloads' = [t \in Tasks |-> NoWorker]
  /\ held' = [t \in Tasks |-> FALSE]
  /\ cancelled' = [w \in Workers |-> FALSE]
  /\ taskLock' = [t \in Tasks |-> Free]
  /\ supPc' = [w \in Workers |-> "exited"]
  /\ supTask' = [w \in Workers |-> NoTask]
  /\ supResult' = [w \in Workers |-> "ok"]
  /\ supCanceled' = [w \in Workers |-> FALSE]
  /\ dispPc' = "idle"
  /\ dispTask' = NoTask
  /\ dispPage' = {}
  /\ active' = 0
  /\ wake' = TRUE
  /\ cmdPc' = [u \in Users |-> "idle"]
  /\ cmdKind' = [u \in Users |-> "pause"]
  /\ cmdTask' = [u \in Users |-> NoTask]
  /\ cmdWorker' = [u \in Users |-> NoWorker]
  /\ UNCHANGED <<retryAt, attempt, tempAhead, issued>>

----
DispatchStep ==
  \/ DispatchBegin \/ DispatchPage \/ DispatchEnd \/ StartLock
  \/ StartUnresolved \/ StartAlreadyActive \/ StartTransition
  \/ StartTransitionFailed \/ StartSpawn \/ StartSetHandle \/ StartFailed
  \/ \E t \in Tasks : DispatchPick(t)
  \/ \E w \in Workers : StartReserve(w)

\* What a running engine may do of itself, at any time or never.
EngineStep(w) == SupRetrying(w) \/ SupCheckpoint(w)

EngineEnd(w) == SupComplete(w) \/ SupFail(w)

\* What a supervisor does as soon as it is scheduled.
SupervisorStep(w) ==
  \/ SupPrepare(w) \/ SupPrepareResync(w) \/ SupPrepareBlocked(w) \/ SupFailEarly(w)
  \/ SupEngineStart(w) \/ SupCancelExit(w) \/ SupObserve(w) \/ SupConverge(w)
  \/ SupRelease(w) \/ SupTail(w)

CommandStep(u) ==
  \/ CmdRefuse(u) \/ CmdProceed(u) \/ CmdCancelToken(u)
  \/ CmdJoined(u) \/ CmdDrainTimeout(u)
  \/ ApplyPause(u) \/ ApplyCancel(u) \/ ApplyRetry(u) \/ ApplyResume(u)
  \/ ApplyRecover(u) \/ ApplyRestart(u) \/ ApplyDelete(u) \/ ApplyRejected(u)

Next ==
  \/ DispatchStep
  \/ \E w \in Workers : SupervisorStep(w) \/ EngineStep(w) \/ EngineEnd(w)
  \/ \E u \in Users : CmdLock(u) \/ CommandStep(u)
  \/ \E u \in Users, k \in CmdKinds, t \in Tasks : CmdIssue(u, k, t)
  \/ \E t \in Tasks : RetryDue(t)
  \/ WatcherDispatch
  \/ Crash

Spec == Init /\ [][Next]_vars

\* The runtime polls every spawned future, tokio's task lock is handed over in
\* arrival order, and time passes.  Nothing obliges a user, a crash, or an
\* engine that is not cancelled to act.
Fairness ==
  /\ WF_vars(DispatchStep)
  /\ SF_vars(StartLock)
  /\ \A w \in Workers : WF_vars(SupervisorStep(w))
  /\ \A u \in Users : WF_vars(CommandStep(u)) /\ SF_vars(CmdLock(u))
  /\ \A t \in Tasks : WF_vars(RetryDue(t))
  /\ WF_vars(WatcherDispatch)

FairSpec == Spec /\ Fairness

\* The further assumption that no transfer lasts for ever; how a cancelled one
\* ends is not left to it.
TransfersEnd == \A w \in Workers : WF_vars(~cancelled[w] /\ EngineEnd(w))

ServingSpec == FairSpec /\ TransfersEnd

----
(* Safety.                                                                   *)

\* A supervisor that can still write its row or the registry is the one the
\* registry names for its task; so no two of them ever share a task, although
\* the slot is released by task id and not by identity.
OneOwner ==
  \A w \in Workers : supPc[w] \in Owning => downloads[supTask[w]] = w

\* The passes of the dispatcher, which count slots once and then add what they
\* start, never reserve more than max_active_tasks slots.
ActiveBound == Cardinality(ActiveTasks) <= MaxActive

\* A row that says downloading or retrying has a slot: no zombie row, which no
\* command could resume, survives the races of convergence with commands.
LiveRowHasOwner ==
  \A t \in Tasks : status[t] \in LiveStatuses => downloads[t] # NoWorker

\* When pause, retry, cancel, restart or delete writes its row or removes files,
\* no run of the task can still write, even if its drain timed out.
StopIsQuiet ==
  \A u \in Users : cmdPc[u] = "apply" /\ Draining(u) =>
    ~\E w \in Workers : supPc[w] \in Owning /\ supTask[w] = cmdTask[u]

\* A command that must stop a run always finds its join handle in the control:
\* the task lock hides the pending control and earlier drains give it back.
StopFindsHandle ==
  \A u \in Users :
    cmdPc[u] = "enter" /\ Draining(u) /\ downloads[cmdTask[u]] # NoWorker
      => held[cmdTask[u]]

\* Only restart and delete take a row out of completed; no late write of an
\* engine, of convergence or of a failed start does.
CompletedIsKept ==
  [][\A t \in Tasks : status[t] = "completed" /\ status'[t] # "completed" =>
       \E u \in Users : cmdTask[u] = t /\ cmdPc[u] = "apply"
                        /\ cmdKind[u] \in {"restart", "delete"}]_vars

\* Under a command that drained its task only one other writer is left: a
\* failed start, which records its failure after it dropped the task lock, and
\* only on a row that is still queued.
DrainedRowIsStill ==
  [][\A u \in Users :
       LET t == cmdTask[u] IN
       cmdPc[u] = "apply" /\ Draining(u) /\ cmdPc'[u] = "apply" /\ status'[t] # status[t]
         => status[t] = "queued" /\ dispTask = t /\ dispPc = "startFailed"]_vars

----
(* Liveness.                                                                 *)

\* A cancelled run ends: its supervisor converges, releases its slot and exits.
CancelledRunsEnd == \A w \in Workers : cancelled[w] ~> ~cancelled[w]

\* Every command returns, so no user action waits for ever on the task lock.
CommandsReturn == \A u \in Users : cmdPc[u] # "idle" ~> cmdPc[u] = "idle"

\* No lost wake-up: a task that is due for dispatch does not stay queued for
\* ever, whatever slot it waits for and whoever touched it last.
QueuedIsServed ==
  \A t \in Tasks : status[t] = "queued" ~> status[t] # "queued"

----
(* What the repository says and the code does not do.                        *)

\* A task that a command left paused stays paused until another command takes it.
PauseSticks ==
  [][\A t \in Tasks : status[t] = "paused" /\ status'[t] # "paused" =>
       \E u \in Users : cmdTask[u] = t /\ cmdPc[u] = "apply"]_vars

====
