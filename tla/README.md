# Vibe Downloader: a verification project

TLA+ models of Vibe Downloader, the TLC runs that check them and the TLAPS proofs about
them. `R/` stands for `src/src-tauri/src` (the Rust core) and `F/` for `src/src` (the window).

## 1. The system and its parts

A Tauri desktop application. The Rust core owns every decision about downloads. The
window (React, zustand) keeps copies of its rows and settings, asks for them again and
again, and issues commands; a browser extension hands downloads over. One SQLite file
keeps the rows; everything else is in memory and dies with its process.

| part | state it keeps | operations | modelled in |
|---|---|---|---|
| task rows (`R/db/task_state.rs`, `task_retry.rs`) | status, deadline and attempt of a retry, progress | guarded UPDATE statements, `complete_task`, `checkpoint_task_progress`, `reset_interrupted_tasks` | `Scheduler`, `HttpSegments` |
| state machine (`R/models/task.rs`, `R/state_machine.rs`) | none | `can_transition_to`, `transition_task_inner` | `TaskStatus`, `Scheduler` |
| scheduler (`R/scheduler/`) | the pass lock, the registry of slots, the completion round | `dispatch`, `start_task`, the supervisor, `converge_download_outcome`, the retry watcher | `Scheduler` |
| registry and task locks (`R/lib.rs`) | `downloads: task -> DownloadControl`, one mutex per task | `remove_and_drain_control`, `cancel_and_drain_control`, `TaskRuntimeLocks::lock` | `Scheduler` |
| task commands (`R/commands/tasks*`) | none of their own | pause, resume, retry, cancel, restart, recover, delete | `Scheduler` |
| segmented HTTP engine (`R/download/http/segmented/`, `R/db/segments.rs`) | segment rows, runtime progress, channel, temp file | plan, workers, checkpoints, split, drain, publication | `HttpSegments` |
| files of the tasks (`R/download/file_ops.rs`, `artifacts.rs`, `lifecycle.rs`, `owned_fs.rs`, `R/commands/storage.rs`) | temp files, finished files, leases, candidates of a cleanup | open, write, publish, sweep, clean, move, restart, delete | `TaskFiles` |
| application lifecycle (`R/lib.rs` 95-371) | phase, quit flag, gate, count of supervisors | prepare, cancel, exit, drain | `AppLifecycle` |
| seeding (`R/download/bt_seeding.rs`) | controls of the seedings | register, stop, drain, restore | `AppLifecycle` (life cycle only) |
| completion round (`R/scheduler/mod.rs` 752-907) | `CompletionRound`: open, generation, recorded failures | `record_start`, `record_failure`, `maybe_emit_completion_action` | `CompletionRound` |
| schedule window (`R/commands/tasks.rs` 598-803) | pause events of tasks | pause and resume by the clock, at every change of the settings | `ScheduleWindow` |
| browser handoff (`src/browser/extension-core/src/background.js`) | paused browser downloads, a socket, pending requests | bootstrap, request, timeout, native host, release | `BrowserHandoff` |
| list queries (`F/components/tasks/TaskList.tsx`, `F/lib/list-query-epoch.ts`) | query, epoch, pages, selection | replace, append, refresh, select all | `ListQuery` |
| row store (`F/stores/task-data-store.ts`, `F/hooks/use-task-events.ts`) | rows, ids, index, counters, buffered events | progress, update and queue events, refresh, delete, reorder | `TaskStore` |
| deletion with undo (`F/stores/toast-store.ts`, `F/components/ui/toast.tsx`) | stacks of toasts, hidden tasks | add, evict, replace, pause, dismiss, clear | `UndoDelete` |
| row actions (`F/components/tasks/row-recovery.ts`, `AppShell.tsx`) | copies of rows, dialogs, selection | what a row offers, the command it sends, alone, in bulk and for all, and how it is served | `RowCommands` |
| new downloads (`F/components/shell/NewDownloadDialog.tsx`) | draft, probe, preview, grant | detect, submit, import, authorize; links from outside | `NewDownload` |
| details and ranges (`TaskDetails.tsx`, `F/hooks/use-task-detail-queries.ts`, `use-row-segments.ts`) | what a pane shows | polls, pages, change of the task | `DetailPanes` |
| settings page (`F/components/settings/SettingsPage.tsx`) | two forms that save by themselves | edit, save, refresh, reset | `SettingsForm`, `CaptureDraft` |
| preview back end (`F/lib/tauri-browser.ts`) | an array of tasks, its copy in localStorage, a timer | the commands, the queue, the tick | `PreviewBackend` |
| other engines, backup, credentials, presentation | | | not modelled, see section 7 |

The complete list, with the reason for each part that is left out, is the
`components` section of `PROJECT.json`.

How the parts interact: a command changes a row and asks for a dispatch; the dispatcher
reads a page of queued rows, reserves a slot in the registry under the task lock and
spawns a supervisor; the supervisor runs an engine *without* the task lock, so its row
writes interleave with every command; a command that must stop a run takes the task
lock, removes the control, cancels its token and joins the handle within five seconds; a
drain of the application does this for all slots under the lifecycle gate. The window
learns of all this from events, which come in the order they were sent in, and from the answers of its queries, which come in
no order of the events or of one another, or not at all; whatever it shows or sends is decided on a copy.

What is hard here, and what makes each part correct (the `hazards` section of
`PROJECT.json` has every place):

- rows are written by five kinds of actors, most of them without a common lock: no run
  is duplicated, no row says *downloading* without a run, *completed* is not taken back;
- drains have deadlines, so "cancelled" and "stopped" differ: a command writes only when
  nobody else can, and a run that outlives its drain is not forgotten;
- dispatches are coalesced: no wake-up is lost;
- the temp file is preallocated, so a hole looks like data: the recorded offset
  never passes the durable bytes, through checkpoints, splits, pauses and crashes;
- the phase, the quit flag and the gate are three variables: when the application says
  that it may be replaced, nobody owns files, and when it serves again it does serve;
- five actors remove, rename or plan files, by paths that a run keeps while its row moves on, and an operation
  goes on after the future that awaited it was dropped: holes are not published, late writes do not bring a removed file back;
- two locks are taken in two orders;
- the completion action is decided from four places that are read one after another:
  one decision per batch, no failure missed, no checksum overtaken, no batch forgotten;
- the window's pause is a command like the user's: a closed window empties, and what the
  window paused and recorded runs again;
- a browser download is cancelled on the word of another process: never before that
  process has the link, and never resumed beside a task that has it;
- answers overtake each other and the questions: the list, the panes, the dialog and the
  forms show or keep the newest, and no spinner, hidden task or unsaved edit is left
  without somebody who will settle it.

## 2. Modules

- `TaskStatus`: the statuses and the transition table.
- `Scheduler`: rows, registry, task locks, dispatcher, supervisors, commands, retry
  watcher, restart of the process. `MCScheduler` adds the symmetry sets.
- `HttpSegments`: one HTTP task of known size over several runs. `MCHttpSegments`.
- `TaskFiles`: the files of several tasks, with the runs and rows as far as they touch them. `MCFiles` checks it
  in one run with `HttpSegments`, `MCTaskFiles` alone.
- `AppLifecycle`: phase, flag, gate, and what starts and ends owners of files.
- `CompletionRound`: the round of the completion action, over an abstract life of
  the tasks. `MCCompletionRound`.
- `ScheduleWindow`: the monitor of the download window against users, passes and runs.
- `NewestAnswer`: the abstract promise of a list that is filled by asynchronous queries;
  `ListQuery` implements it (section 5).
- `BrowserHandoff`, `ListQuery`, `TaskStore`, `UndoDelete`, `RowCommands`, `PreviewBackend`,
  `NewDownload`, `DetailPanes`, `SettingsForm`, `CaptureDraft`: the window and what it talks to.
- `MCBackground` (`AppLifecycle`, `ScheduleWindow`), `MCFiles` (`HttpSegments`, `TaskFiles`), `MCDialogs` (`BrowserHandoff`, `NewDownload`,
  `DetailPanes`, `ListQuery`) and `MCFrontend` (the other six): components that share no state, checked in one
  run each. Their variable `part` is chosen initially and says which component moves;
  the others stay in one initial state. So the states of a run are the sum of the states of
  its components, not their product, and every property of a component is checked on all of its behaviours.
  `MCAppLifecycle`, `MCScheduleWindow`, `MCTaskStore`, `MCBrowserHandoff` run one of them alone.
- `Scheduler_proofs`, `AppLifecycle_proofs`, `CompletionRound_proofs`, `Files_proofs` (`HttpSegments` and `TaskFiles`): the
  theorems about the core. Those about the window lie together as the parts do on the screen: `Frontend_proofs` has
  `ListQuery`, `UndoDelete`, `RowCommands`, `PreviewBackend`, `SettingsForm` and `CaptureDraft`, `Dialogs_proofs` has
  `BrowserHandoff`, `NewDownload` and `DetailPanes`. `TaskStore` and `ScheduleWindow` are model-checked only.

Operators whose comment begins with *Fault* are wrong variants of the definition that
follows them; nothing uses them except the mutants of `PROJECT.json`, which show that
each property notices the kind of bug it is meant for.

### Scheduler

| in the module | in the code |
|---|---|
| `status`, `retryAt`, `attempt` | columns of `tasks`; `retryAt` is *none*, *later* or *due* instead of a time |
| `downloads`, `held`, `cancelled` | `AppState::downloads`, whether the `DownloadControl` has its join handle, its token |
| `taskLock` | `TaskRuntimeLocks` |
| `supPc`, `supTask`, `supResult`, `supCanceled` | the spawned supervisor, its task, its engine result and the cancellation that it observed |
| `tempAhead` | the temp file is longer than the recorded progress |
| `dispPc`, `dispTask`, `dispPage`, `active`, `wake` | a dispatch pass, its page, its count of slots and the noted request for another pass |
| `cmd*` | invocations of commands |
| `Dispatch*`, `Start*` | `dispatch_inner`, `start_task`, split at every await that lets others in |
| `Sup*` | `prepare_task_for_download`, the engine as far as it writes the row, `converge_download_outcome`, the tail |
| `Cmd*`, `Apply*` | lock, drain with its timeout, and the row writes of each command |
| `RetryDue`, `WatcherDispatch`, `Crash` | the retry watcher; end of the process and `reset_interrupted_tasks` |

A page is a set of rows: the order of the queue and the host limits decide who is
served first and are left open. Errors of the database are the disjuncts that the code
handles (`StartTransitionFailed`, `SupPrepareBlocked`, ...).

### HttpSegments

Four copies of a segment's progress exist at once: handed to the buffer (`off`), flushed
(`dur`), known to the coordinator (`rt`, behind `chan`) and recorded (`until`). Bytes are
numbered, `disk` is the set that is durable. `Prepare` is `prepare_task_for_download` with the
checks of `task_resume.rs`; `Co*` are the steps of the coordinator's select loop and drain;
`Worker*` those of `download_segment_worker`; `CoSplit` and `CoSplitPublish` the
automatic split in the database and its publication to the worker.

### TaskFiles

`stateOf`, `nameOf`, `tempOf`, `progress` are the row (status, `final_path`, `temp_path`, recorded offsets as *none*,
*some* or *all*); `temp` is what lies under the temp path of a task and a name, *broken* when it has the length
but not the bytes, `owner` whose file is under a final name. A run keeps its own copy of the paths (`runTemp`, `runName`), as
`TaskRecord` does, and `pending` is a file operation that holds a lease, awaited or not. `ReadPage`, `Start`,
`PrepareFiles`, `OpenTemp` are the dispatch, the check of the preparation and the begin of the engine, each on the
row it has read; `Finish`, `Publish`, `Persist`, `Complete` the four steps of the end, between any two of which the
process may end; `Converge` is `run_owned` with its drain. `Restarted` is a crash with the sweep and the reset of the next
start, `Clean*` the three looks of the storage cleanup, the rest the commands under their names. `disturbed` is history: the runs
that met one of the two open windows of section 6.

### AppLifecycle

`DispPick` ... `DispReserve` are the locks and checks of `start_task`, `Seed*` those of
`update_torrent_seeding` (the restore of seedings at startup takes the same steps);
`PrepareClaim` ... `Reset` are `prepare_app_relaunch` and
`cancel_prepared_app_relaunch`, `ExitClaim` ... `ExitMark` `request_graceful_exit`, and
`DrainQuit` ... `DrainSeeds` `shutdown_active_downloads`, which both run. `ExitDrainFails` is the return of
`request_graceful_exit` when its drain ends with an error (a seeding that panicked, a state that could not be written): the
application stays in *exitDraining*, which `ExitCompletes` excepts.
`supervisors` is the atomic counter: it outlives the slots. `HandOver` registers a
seeding long after it looked at the token, as the code does.

### CompletionRound

`open`, `generation` and `failedIds` are the fields of the struct; `Opened`, `RecordFailure`,
`Snapshot` and `MayClose` its methods. A worker is a supervisor from its spawn to the end of
its decision, or the task of a seeding that has stopped. `GateSeeds` ... `GateHashes` are
the awaits of `maybe_emit_completion_action` and `should_emit_completion_action` (the first waits for seedings only
when the action is a destructive one, which is left open), `Recheck`
one iteration of the loop of `decide_completion_round`, `Close` its end. The life of a task
(`Reserve` ... `Release`, `Stop`) is the one of `Scheduler` with the states that a
decision cannot tell apart taken together: a stop is one step, because a command joins the
supervisor before it writes. Two rows of the code get a name of their own: *waiting* is
queued with a deadline in the future, *refused* is failed in the preparation. `batch` and
`settled` are history: the tasks started since the round opened, and those of them that had
ended when a worker found no slot taken.

### ScheduleWindow

`rowOf`, `control`, `taskLock`, `stopping` are the row, its slot, its lock and its token; `tag` is the
newest pause event of the task (of the window, of the user or none), which is what
`list_task_ids_paused_for_reason` reads. `MonitorWakes` ... `CheckEnds` are one
`check_schedule_preemption`, with the page of ids it decided on; `PauseLock`, `PauseTimeout` and
`PauseApply` are `pause_task`, called by a check or a user; `Pass*` is a dispatch whose
page may be old. Starting a task and the tail of its supervisor are one step here, because
`Scheduler` has them in detail.

### BrowserHandoff

An action is an event of the extension's worker and all that runs until the next await for the
outside. `StartHandoff` ... `Finish` is `sendDownloadUrl` and what `handleBrowserDownload` does with its
result; `ConnectWs`, `SocketOpens`, `SocketCloses`, `ReceiveMessage` the socket and its handlers, which keep `ws` and
`pendingWs`; `ServeRequest` and `HostAnswers` the two ways in which the application takes a
request, with the table of request ids that makes them idempotent (a request that is already there is answered
*duplicate*, or with an error when it got there between the look at the table and the insertion); `ReplayFile` the watcher of handoff
files. Sockets are replaced and go on to answer: a handler asks for `ws` and not for its own
socket, as the code does.

### ListQuery

`listQueryEpoch`, `replaceInFlight`, `appendInFlight` and `pendingReload` are the variables of
`list-query-epoch.ts` and of `ListLoadFlight`; a query on its way is an element of `requests`
with the epoch and the closure it was made in. `BeginReplace` is `loadPage(replace)` with its
early return, `AnswerLoad` the code after its await, `BeginRefresh` `refreshTasks` of the shell,
`SelectAll` and `ChainPage` the loop of `selectAllMatching`. `view` and `selectedIds` hold
pages as `<<query, page>>`.

### TaskStore

`store` has the fields of `useTaskDataStore` under their names; `PatchTasks`, `UpsertRows`, `SetPage`,
`EvictTasks`, `MergeFromServer` are its methods, written as functions from store to store.
`events` are the events on their way, which keep their order; `refreshes` are the queries under way, which the back end
reads at any time (`ServeQuery`) and which are answered at any time after that (`ReceiveAnswer`) or fail (`QueryFails`), in no
order of the events or of one another. A queue event is
applied after its timer and becomes a query. An exception inside a handler (`PatchThrows`) leaves the
handler where the code would. `UpsertTask` has the early return for a row that equals its entity in all that is shown, and both
upserts the reload of a row whose queue position is another: positions and the rest of the row are payload, so both are
open where they may happen. `InitialLists` are the lists that the window may open on. `astray`, `revived` and
`missed` are history variables for the exceptions of the properties; no action reads them.

### UndoDelete

`toasts` and `deferredToasts` are the two stacks, `closures` the pairs of commit and undo
functions that share `settled`, `ghosts` those of toasts that left the screen without either.
`AddToast` has replacement by key and eviction, `TimerFires`, `Dismiss`, `SettleUndo`, `ClearToasts`,
`AcquireModalFocus` and `ReleaseModalFocus` what ends or moves a toast.

### RowCommands

`AllowedTransferActions`, `ResumeVerdict`, `RecoveryActionsForTask` are the functions of `row-recovery.ts` and `errors.ts`.
A call is sent on a copy of the row (`copyOf`, or the copy on which a dialog or the folder picker was opened) and served on the
row (`rowOf`): `Guarded` are the checks that each command makes first, `StopRun` the drain, in which the command holds the
lock of the task until the run has left the map or the time is up, `Illegal` the table of transitions, `Perform` the effect
with its failures. `retry_task` and `resolve_task_attention`, which refuse different rows, are two commands (*retry* and
*resolve_retry*). `run` is the slot of the task and its token; `StartTask`, `Settles`, `ConvergeCanceled` and `RunEnds` are what
engines and the scheduler do to a row as far as a command can tell, with *downloading* for a retry as well; `Scheduler`
has them in detail. `CheckListed` is the second look that the global pause and resume take at each row.

### PreviewBackend

The array, `localStorage`, the timer and the listeners of `tauri-browser.ts`. `Scheduled` is
`scheduleBrowserQueue`, `Tick` the timer, `CommandRest` the end that the commands have in
common (save, emit, start or stop the timer). `CreateTask` and `ImportUrls` are cut at their probe.

### NewDownload

`form` is what the user edits; `look`, `call` and `batch` are the three groups of state for the
probe, the submission and the batch, with the request ids that
answers are compared with. `TimerFires` and `ProbeAnswered` are `detect`, `SubmitAnswered` the end of
`handleSubmit` and `authorizeCurrentTarget`, `RunBatch`, `PreviewAnswered` and `BatchAnswered`
`importUrls` in its two roles; `BrowserAsks`, `AcceptSource`, `DropFile`, `DropResolved` what
the shell hands in. `Render` is the set of effects that a change of the form causes.

### DetailPanes

`timer` and `calls` are the interval and the unanswered queries of the pane's
effect; a call remembers whether its effect is still there (`current`). `Rendered` is the cleanup and
the new start that a change of the dependencies causes. A pane is one of the kinds in `Panes`: paged,
gated by the status, or polled while the task runs.

### SettingsForm and CaptureDraft

`pageForm` and `draft` are the states that the user edits, `settings` and `capture` what the
window takes for stored, `settingsRow` and `captureStored` the database. `SaveSettings` and
`PersistDraft` are the timers, `StoreUpdate` and `StoreCapture` the commands, `UpdateAnswered` and
`SaveAnswered` the code after the await, `ChangeDelivered` and `IntegrationChanges` the events that make
the window read again. Both normalise on the way (`NormalSetting`, `NormalCapture`).

## 3. Runs

| run | instance | shows | distinct states |
|---|---|---|---|
| `scheduler` | 2 tasks, 2 supervisors, 1 slot, 1 command of any kind, 1 automatic retry | types, slot limit, no row without its run | 4 260 964 |
| `scheduler_task` | 1 task, 2 supervisors, 2 slots, 2 commands at once, 1 retry, 1 restart of the process | one run per task, stopping commands are exclusive, completed is kept | 3 599 546 |
| `scheduler_live` | 2 tasks, 1 supervisor, 1 slot, 1 command | cancelled runs end, commands return, queued tasks are served | 223 959 |
| `segments_and_files` | 4 bytes, 2 segments and 1 split, 2 workers, 1 restart; 2 tasks, 2 names, 2 acts of commands, the user or a dying process | durability, tiling, whole publication, no lost progress; no hole but through the two windows, no write after its run, no file replaced | 1 709 011 + 746 071 |
| `lifecycle_and_schedule` | 1 task, 1 seeding command, 2 callers of a restart, 1 exit; 1 task, the monitor, 1 user | readiness, finality, recovery, answers; a closed window empties, a recorded pause is resumed | 103 084 |
| `completion_round` | 2 tasks, one with a checksum, one that seeds; 2 workers; 1 task queued again | one decision per round, failures count, checksums hold the action, drained batches are decided | 802 540 |
| `handoff_and_dialogs` | 2 handoffs, one of a paused browser download, over 2 sockets and the host; 2 links, one of them private, 2 calls under way, 2 acts of the user; 2 tasks, one of which changes; 2 navigation entries and 2 searches with 3 pages and 4 epochs | a download is cancelled only when its link was taken, one task per request, every handoff ends; answers of the dialog and of the panes are those for what is shown, spinners and previews have an owner; the newest answer of the list is shown, selections are of what is shown, reloads are served | 711 338 |
| `frontend` | see below | rows, index and counters agree when it is quiet, except for what failed, came late or was merged; one announcement until the window is told otherwise; hidden tasks are settled once; refused commands had not been offered for the row as it is, or a run is stopping; active preview tasks are driven; unsaved edits are pending | 2 066 172 |
| `scheduler_pause_sticks`, `http_single_segment`, `lifecycle_lock_order`, `schedule_resumes` | | disagreements with the repository's own text, section 6 | |

The instance of `frontend`: two rows, one of them running, three changes of the back end, failed queries or reorders together,
six events and two queries under way, for the list of all tasks and for that of the downloading ones; two tasks and a stack of two
toasts, three toasts and one visit of the pointer; one row with two commands and two steps of its engine or the dispatcher;
two urls in a preview of two slots and two tasks; two setting fields, two edits, two updates and two reads at once; three edits of
the draft, two saves and two reads at once.

Eight more configurations belong to disagreements that are described in section 6 and are run by hand:
`MCHttpSegmentsSplit.cfg` (`RowsStayResumable`), `MCCompletionRoundRace.cfg` (`RacedDecisionIsDropped`),
`MCTaskStore.cfg` (`ListConverges`), `MCBrowserHandoffAuth.cfg` (`KeptUntilAuthorized`),
`MCScheduleWindowManual.cfg` (`ManualPauseIsKept`), `MCTaskFilesWhole.cfg` (`WholeFiles`), `MCTaskFilesForeign.cfg`
(`ForeignFilesAreKept`) and `MCTaskFilesConflict.cfg` (`ConflictIsRecoverable`). `StoreSettles` and `AnnouncedOnce` are not
proved, and a state that refutes them might need more than two rows or three changes: simulation of `TaskStore` with
three tasks, seven changes, eight events and two queries, more than 100 million states for each, found no violation. With three acts `TaskFiles` has 4 898 807 states,
and its properties hold as well. With both checkers (`Checkers = {"monitor", "settings"}`)
`ScheduleWindow` has 471 856 states, and its two liveness properties hold as well.

Why these bounds are enough to be interesting: two tasks on one slot are needed for
waiting and for the count of a pass; two commands on one task are needed for a drain that
times out while the next command comes; two supervisors of one task arise when the
first is still in its tail. Four bytes in chunks of two give every segment
boundary an interior and an edge; the second restart adds no new relation
between the copies, since each run starts from the recorded one. Two acts
put a restart, a cleanup, a deletion or another name before, into or after a run and let a second one follow;
a second task makes the other claimant of a name. Two callers of
a restart and an exit are all the roles that compete for the phase. Two tasks make every
relation between a decision and a start, a failure, a checksum or a seeding of another task.
One task and a user are all that the window's check meets on a task, since tasks share only the
passes. Two handoffs on two sockets give a request on a socket that has been replaced and
one that waits for the other's connection. For the queries of the window two under way are what it
takes to overtake, two queries what it takes to differ, and the third page is the one that is
appended to an appended list; three changes are a change, the query that reads it, and a change or a failure that the answer
overtakes or is overtaken by; two toasts on a stack of two make the third an eviction; two acts of the dialog
are an edit and a second one while the first is under way, and `DialogIsSound` is proved for any number; two commands
are one that waits for a run to stop and one that was sent on the same copy. What does not depend on
the size is proved for every size (section 5).

`CHECK_DEADLOCK FALSE` where the system may really stop: all tasks are
completed and the budget of commands is spent (`Scheduler`), the task is completed or failed and
no restart is left (`HttpSegments`), the acts are spent (`TaskFiles`), exit was called or the lock cycle of section 6 has
closed (`AppLifecycle`), every task has ended (`CompletionRound`, `ScheduleWindow`), every handoff
has its answer, and the user has spent the budgets of what he may do (the modules of the window).

Named bounds: `CommandBudget`, `CrashBudget`, `RestartBudget`, `ResumeBudget`, `ChannelBound`,
`MaxSupervisors`, and those that the `CONSTANTS` of the other modules mark *bound*.

## 4. Fairness

Futures that are spawned are polled by tokio, and its mutexes are fair queues: weak
fairness per dispatcher, supervisor and command, strong fairness for taking a lock
that others take in between. A cancelled engine leaves its loop at the next select,
which is part of the supervisor's steps. Nothing obliges a download that is not
cancelled to end: `CancelledRunsEnd` and `CommandsReturn` do not need it, and
`QueuedIsServed` assumes it by name (`TransfersEnd`), since a task behind an endless
transfer waits. Nothing obliges a user to issue a command. In `AppLifecycle` a cancelled run
releases its slot, a cancelled seeding ends, and a supervisor leaves its tail.

`ExitCompletes` and `RelaunchAnswers`, together `EndingsSettle`, hold unless `LockCycle` has closed; that exception is
the finding of section 6 and should go away with it.

In `CompletionRound` the dispatcher and the workers are fair, so transfers are assumed to end,
and a seeding ends (strong fairness, since it waits for one of the modelled workers).
`DrainIsDecided` excepts what the code documents or the findings name: a stopped or
deleted task, a preparation that failed, a verification that broke off.

`ScheduleFairness`: the timer of the monitor fires, a check goes on, the queue of a task lock is
served in order, a run that was cancelled or has completed ends, a retry that waits delivers or
ends, and a pass that began ends. Neither the clock nor the user owes a step: `ClosedWindowEmpties` and
`TaggedIsResumed`, together `WindowIsObeyed`, speak of windows that stay as they are.

`HandoffFairness`: the native host answers or fails, the timers of requests and of the bootstrap fire, and
a socket that connects opens or fails. A socket that is open owes nothing: `HandoffSettles` rests
on the timeout of the request and on the host behind it.

`ListFairness`: the back end answers every query, with an error perhaps. `ReloadIsServed` needs no
more. The other properties of the window are invariants and action properties.

## 5. Proofs

All theorems hold for every set of tasks, workers, commands, callers, queries and fields and every
limit; they assume only the named assumption of their module
(`SchedulerAssumption`, `LifecycleAssumption`, `RoundAssumption`, `HttpAssumption`, `TaskFilesAssumption`,
`ListQueryAssumption`, `UndoDeleteAssumption`, `RowCommandsAssumption`, `PreviewAssumption`,
`HandoffAssumption`, `NewDownloadAssumption`, `DetailPanesAssumption`, `SettingsFormAssumption`, `CaptureAssumption`), which say that
sets are finite where they are counted, not empty where one of them is chosen, that bounds are numbers and that sentinel values differ from
the real ones. Two theorems have a hypothesis more, which is stated with them below.

`Scheduler_proofs`. No safety property of the scheduler is inductive: that a run
owns its slot depends on where the dispatcher stands, that depends on the task lock. The invariant
is built in layers, each preserved by a step from a state of the layers before:

1. `TypeInv`: the types, and a command that is under way has a task.
2. `Locks`: a lock is held at exactly the places of the code that hold it.
3. `Slots` (`Registry`, `Pending`, `Drained`): owning supervisors and slots match one to
   one; a reserved slot without a supervisor belongs to the dispatcher between
   reservation and spawn; a command that applies has an empty slot. Gives `OneOwner` and
   `StopIsQuiet`.
4. `Handles`: a control without its handle is the dispatcher's under the task lock. Gives
   `StopFindsHandle`.
5. `Count`: the count of a pass is at least the number of slots. Gives `ActiveBound`.
6. `Converged`: a live row has a slot whose supervisor has not converged, or is at
   the dispatcher's hands. Gives `LiveRowHasOwner`.
7. `Incomplete`: the supervisor that could still overwrite a row has not seen it
   completed. Gives the action properties `CompletedIsKept` and `DrainedRowIsStill`.

`Files_proofs`, segments. What is recorded can be trusted because every copy of an offset is behind
the disk and the copies are ordered; both only mean something while segments tile the file:

1. `TypeInv`, and `Shape`: what exists outside of a run (`Rest`), what a segment that does not
   exist holds (`Blank`), and where a split in two steps stands (`Splitting`).
2. `Ranges`: no copy of an offset lies before the first byte of its segment.
3. `Tile`: every byte is in exactly one range. Gives `SegmentsTile`.
4. `Durable`: every copy of a segment's progress (recorded, known to the coordinator, in the channel,
   flushed) lies behind what is on the disk, and a published file is whole. Gives
   `DurableProgress` and `PublishedIsWhole`.
5. `Ordered`: the messages of a segment are sorted, none is ahead of what was flushed, what the
   coordinator knows is between the row and the channel, and a worker that ended without an error has
   reported everything. Gives the action properties `ProgressIsKept` and `PauseKeepsProgress`.

`DurableProgressAlways` and `PublishedIsWholeAlways` assume `InitialSegments >= 2`. With one
segment they are false, which is the finding behind the run `http_single_segment`.

`Files_proofs`, files. `FilesAreSound` speaks of files and rows, but what keeps it is what a run knows at each of
its steps: `RunsAreLive` (a run past the dispatcher has a live row, so that no command that wants a stopped row can
reach its files; operations are under way only while it writes or after it stopped), `Calm` (an undisturbed
run works under the path of its row, its temp file is there while it writes and whole when it is published) and `Published`
(from the rename on the file is there or was removed). They give `FilesAreSoundAlways` and `WritesAreOwnedAlways`.

`AppLifecycle_proofs`. `Gates` (who holds the gate where), `Claims` (one restart is prepared at a
time, and a caller that prepares implies its phase) and `Seals`: from the
release of the gate to the end of readiness the flag is up, nobody owns files, and
nobody who could start something is past its check. This is what makes the window
between the end of the drain and the write of the phase harmless. Theorems:
`ReadyIsDrainedAlways`, `ExitIsFinalAlways`, `RunningServesAlways`, `TypeCorrect`.

`CompletionRound_proofs`. `Generations` (a snapshot is never ahead; a decided round is closed or
has grown) gives `RoundDecidedOnce`. For the other two the key is that a *settled* task
cannot fail, complete or be verified anew without a start, which takes it out of
`settled` and voids the decision: `Runs` (one run per task, under its slot) and `Settled` say so,
`Recorded` and `Counted` follow the failure from the list to the decision, `Outcomes` and
`Verified` the checksum.

`Frontend_proofs`, list queries. The refinement: `ListQuery` implements `NewestAnswer` under the mapping that
takes the epoch for the number of the newest question and `shownEpoch` for that of the answer on screen
(`ShowsNewestAnswerAlways`; every step is a step of `NewestAnswer` or a stutter). `ListInv`
has `EpochInv` (no query is from the future, and no replacing query has the epoch of a chain), `AppendInv`
(an append that is not outdated asks for the query on screen) and `ChainInv` (what a current chain lacks of
the screen are pages that it has still to load), which gives
`SelectsWhatIsShownAlways`.

`Frontend_proofs`, deletions. `UndoInv` says that a stack holds only closures that exist (`UndoTypeInv`), that each
is settled once (`SettledOnce`), and, task by task, that a hidden task has a closure whose delete is
under way or that a stack holds unsettled (`PathInv`). The work is in the two stacks: a toast that is added may replace one with
its key, evict the oldest, move to the other stack or come back from it, and each of these must either keep a closure held or settle it;
the lemmas `CapSplits`, `GoneHolds`, `PushHolds` and `ReplaceHolds` say which. Gives `DeletionIsSettledAlways`.

`Frontend_proofs`, row actions. The argument has no order of events to follow: a command that has its turn meets some row, and
`OfferedIsServed` says, status by status and code by code, that a command which a row offers is neither guarded against nor illegal
for that row while no run of it is stopping. So a refusal means that the row is not the one of the copy, or the run is not over,
which is `RefusalIsExplainedAlways`. What time contributes is that rows, copies and what a dialog remembers stay in the range of the
tables (`RowTypeInv`, `RowTypeAlways`), through engines, failures, stops and commands. The copy may be as old as it likes.

`Frontend_proofs`, preview back end. `PreviewInv` adds to `PreviewIsSound` that the stored array is the one
in memory between steps (the commands end in a save), so that a reload changes nothing. The lemmas say what
`Scheduled`, the removal of tasks and an insertion in front keep of the array. Gives `PreviewIsSoundAlways`.

`Dialogs_proofs`, handoff. The answer that lets a download go is read from a socket long after it was written, so the
invariant is about answers under way: one that says *received* or *duplicate*, in whichever outbox, is
about a request in the table (`AnswersAreTrue`), and a request outside the table made no task
(`UnknownMadeNothing`). Gives `HandoffIsSafeAlways`.

`Dialogs_proofs`, new download. `LookFits` and `BatchFits` are the two halves of `DialogIsCurrent` for the states in the middle of an action,
with what they need: a probe under way whose answer the dialog waits for was asked with the credentials in the form if
the timer asked it, and a preview under way with the lines and options in it. `OnTheWay` collects the tasks that an
answer will announce. Give `DialogIsSoundAlways`.

`Dialogs_proofs`, panes. `CallsInv` (a poll that may still answer is of the task that is shown), `TimerInv` (the interval runs exactly
while a pane that polls is on screen and visible), `RowsInv` (the rows are of the task that is shown) and `LastFetchInv`: a pane that no
interval refreshes any more shows the last run, or the fetch that will show it is under way and was asked late enough. The attempt to prove an earlier form of
`PaneIsCurrent` failed, and TLC found why with five versions: when two runs follow each other so fast that the window
learns only the last of several statuses, the passport of the first run stays until the second ends. The property says so now
(`RunGoesOn`). Give `PaneIsCurrentAlways`.

`Frontend_proofs`, settings. `SettingsInv` and `CaptureInv` relate what the user has
edited, the timer and the updates under way; they give `AutosaveIsSoundAlways` and
`DraftIsPendingAlways`, for any number of fields, edits, saves and reads.

Model-checked only: every liveness property (fairness and ENABLED are out of the
prover's reach): `CancelledRunsEnd`, `CommandsReturn`, `QueuedIsServed`, `EndingsSettle`, `WindowIsObeyed`, which is all that
is stated of `ScheduleWindow`, `DrainIsDecided`, `HandoffSettles` and `ReloadIsServed`; and the two properties of `TaskStore`,
`StoreSettles` and `AnnouncedOnce`.

## 6. Where the code and the repository's text disagree

The `findings` of `PROJECT.json` quote the lines. Each disagreement below is one of them; where a
definition is named, the model states what the text says and TLC refutes it.

Shown by a run of the table: a pause may be undone by a dispatch that was under way (`PauseSticks`); a
task with one segment may be published with a hole (`PublishedIsWhole` with one segment);
`start_task` and the seeding command take the gate and the task lock in opposite orders (`NoLockCycle`); a
task whose run paused itself when the window stopped it is never resumed (`ScheduledRunsResume`).

Shown by a configuration run by hand: the automatic split may leave an offset that the next resume
rejects (`RowsStayResumable`); a task that starts while the gates are read does not void the
decision (`RacedDecisionIsDropped`); the list keeps an old row after a refresh that failed, after an answer that is older than the
events before it, and when a refresh merges the rows of before (`ListConverges`, three counterexamples); a handoff that waits for an authorization goes through the
native host and its browser download is cancelled (`KeptUntilAuthorized`); a manual pause during a check
of the window is resumed by it (`ManualPauseIsKept`); the storage cleanup takes the temp file of a task that started
after its look at the rows, and another name chosen while a run is prepared gives it an empty temp file with old offsets: both
end in a published hole (`WholeFiles`); a deletion removes a foreign file at the final path (`ForeignFilesAreKept`);
another name after a conflict loses the finished bytes (`ConflictIsRecoverable`).

Stated in a module, to be checked with its configuration and the property's name in it:
`FollowUpAsksLatestQuery` (`ListQuery`: the follow-up of a load asks with the search text of an older render),
`HoverPausesTimer` (`UndoDelete`: of pointer and focus the first that leaves restarts the timer),
`DiscardIsConfirmed`, `RestartIsRequired`, `DetailsOfferIsAccepted` and `NoDeadEnd` (`RowCommands`: a pause on an old copy discards
progress without the dialog, a recovery choice queues a failed row that has to be restarted, the details offer what the
back end refuses, and a row may have no way on), `QueuedMeansFull` (`PreviewBackend`: a queued task with free slots),
`DraftSurvives`, `AuthorizedProbe`, `GrantIsForItsLink` (`NewDownload`: an answer resets a newer draft, the probe after a
grant goes without it, a grant lands at another link), `MediaOfShownTask`, `PausedRangesAreFetched`,
`PagesOfShownTask`, `PassportIsFinal` (`DetailPanes`: rows of the task shown before, ranges of a tick before the
pause, a passport that stays old), `TypedIsKept`, `SettledSettings` (`SettingsForm`: edits made during a save are
overwritten, and of two refreshes the older may win), `NewerEditsSurvive`, `SettledCapture` (`CaptureDraft`: the
same for the capture settings, and the popup's change that is never announced).

Found by reading and behind no property: a crash after the rename ends in a conflict with the own file, a cleaned-up
task does not restart from zero but fails, staging files are never kept; the completion action
does not count tasks that wait for a retry or whose preparation failed, a checksum mismatch is
recorded late, seedings are counted too early, watchers die after a relaunch that was called off, a
second preparation has no claim of its own, restart of a completed task, the attempts of a restarted task,
a completion that is announced again after an old answer or a rollback has shown the task as downloading,
and several of the window and the extension.

What the properties therefore except, and so do not catch: `FilesAreSound` and `WritesAreOwned` the runs that the cleanup or another
name has disturbed (`disturbed`; `WholeFiles` has no exception); `StoreSettles` the rows named above; `AnnouncedOnce` the second
announcement after the window was told otherwise; `DrainIsDecided` preparations that failed and verifications that broke off.

## 7. What is not modelled, and why

The measure of what could be modelled is the program's own logic. Of the lines of the window a
quarter are tables of translations and another part are generated bindings and build scripts;
most of the rest is layout. Neither has states that a model could distinguish.

- Engines other than the segmented one (HLS, DASH, Metalink, FTP, SFTP, WebDAV, direct HTTP): sequential
  inside a run that `Scheduler` treats as one worker; what is hard in them is the other side's protocol.
- Publication across volumes, staging directories, backup and restore, opening and migrating the database: sequences
  of file system calls without a second actor.
- Credentials, profiles, classification, workflows, storage reports, tray, notifications: single
  statements, or input and output.
- In the scheduler: order within the queue, slots per host, the speed policy. They decide who is served
  first, and the model leaves that open.
- The paging and virtual scrolling of the list, the size limit of its entity cache, history of speeds.
- The watchers that return when the quit flag is up (`R/scheduler/mod.rs:178`): their end after
  a relaunch that was called off is a finding; in the models of the other components they go on.
- Statements that fail in the middle of a convergence (`R/scheduler/mod.rs:1109`) or of a decision about the completion action
  (`R/scheduler/mod.rs:761-765`): the first leaves a live row without a run until the next start, the second drops the decision.
- In `BrowserHandoff`, a request that was taken and whose task could not be created counts as taken.
- Losses of power: `TaskFiles` and `HttpSegments` let the process end, and what was written and synced stays.
- Duplicate delivery of a handoff file is covered only as far as the table of request ids goes (`HandoffIsSafe`).
