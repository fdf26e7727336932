----------------------------- MODULE PreviewBackend -----------------------------
(***************************************************************************)
(* The back end of the browser preview, src/src/lib/tauri-browser.ts: the  *)
(* same commands as the native one over an array of tasks in memory that   *)
(* is mirrored to localStorage, one interval timer that advances every     *)
(* active task, and a queue that starts tasks while slots are free.  Each  *)
(* command runs to its next await in one step; createTask and importUrls   *)
(* wait for a probe, and commands, ticks and page reloads come in between. *)
(*                                                                         *)
(* A task is its url, status, what is left to download (`sized` is FALSE   *)
(* for a magnet link, whose size is 0) and whether a duplicate of its url  *)
(* was allowed.  Left out: settings but maxActiveTasks, names and folders, *)
(* profiles, policies and proxies, and the tables that only answer.        *)
(***************************************************************************)
EXTENDS Naturals, Sequences, FiniteSets, SequencesExt

CONSTANTS
    Urls,
    FullSize,           \* ticks that a whole file takes
    MaxSlots,           \* largest maxActiveTasks, 8 in the code
    MaxPreviewTasks,    \* bound: tasks at a time, created or being created
    MaxListeners,       \* bound: subscriptions at a time
    MaxReloads          \* bound: page reloads

ASSUME PreviewAssumption ==
    /\ Urls # {} /\ {FullSize, MaxSlots} \subseteq Nat \ {0}
    /\ {MaxPreviewTasks, MaxListeners, MaxReloads} \subseteq Nat

VARIABLES
    tasks,              \* the array, newest first
    stored,             \* its copy in localStorage
    maxActiveTasks,
    progressTimer,
    progressListeners,  \* subscriptions to progress events
    creating,           \* calls of createTask that wait for their probe
    importing,          \* the running importUrls, or NoImport
    reloads

previewVars == <<tasks, stored, maxActiveTasks, progressTimer, progressListeners, creating,
                 importing, reloads>>

NoImport == [rest |-> << >>]
Indices(seq) == 1 .. Len(seq)
Active == {"downloading", "retrying"}

Task(url, status, left, sized, allowed) ==
    [url |-> url, status |-> status, left |-> left, sized |-> sized, allowed |-> allowed]

(* buildBrowserMockTasks, as far as the queue can tell.                    *)
SeedTasks ==
    LET u == CHOOSE x \in Urls : TRUE
    IN  <<Task(u, "downloading", FullSize, TRUE, TRUE), Task(u, "failed", 1, TRUE, TRUE)>>

-------------------------------------------------------------------------------
(* scheduleBrowserQueue and the progress timer                             *)

ActiveCount(ts) == Cardinality({i \in Indices(ts) : ts[i].status \in Active})

(* Queued tasks are started in the order of the array while slots last.    *)
Free(ts, slots) == IF slots > ActiveCount(ts) THEN slots - ActiveCount(ts) ELSE 0
Starts(ts, slots) ==
    {i \in Indices(ts) : /\ ts[i].status = "queued"
                         /\ Cardinality({j \in 1 .. i : ts[j].status = "queued"}) <= Free(ts, slots)}
Scheduled(ts, slots) ==
    [i \in Indices(ts) |-> IF i \in Starts(ts, slots) THEN [ts[i] EXCEPT !.status = "downloading"]
                           ELSE ts[i]]

(* scheduleBrowserQueue after a command that left the array `ts`: what is  *)
(* started is persisted, and the timer runs then.                          *)
ScheduleWithoutTimer(ts, slots) ==      \* Fault: a start does not look after the timer.
    /\ tasks' = Scheduled(ts, slots) /\ stored' = tasks'
    /\ UNCHANGED progressTimer
ScheduleBrowserQueue(ts, slots) ==
    /\ tasks' = Scheduled(ts, slots) /\ stored' = tasks'
    /\ progressTimer' = (progressTimer \/ Starts(ts, slots) # {})

(* advanceBrowserMockProgress                                              *)
Advances(t) == t.status \in Active /\ t.sized
Advanced(t) ==
    IF ~Advances(t) THEN t
    ELSE IF t.left <= 1 THEN [t EXCEPT !.left = 0, !.status = "completed"]
    ELSE [t EXCEPT !.left = @ - 1]

(* tickActiveDownloads                                                     *)
Tick ==
    /\ progressTimer
    /\ IF \E i \in Indices(tasks) : Advances(tasks[i])
       THEN ScheduleBrowserQueue([i \in Indices(tasks) |-> Advanced(tasks[i])], maxActiveTasks)
       ELSE UNCHANGED <<tasks, stored, progressTimer>>
    /\ UNCHANGED <<maxActiveTasks, progressListeners, creating, importing, reloads>>

(* stopProgressTimerIfIdle                                                 *)
HasActive(ts) == \E i \in Indices(ts) : ts[i].status \in Active /\ ts[i].left > 0

-------------------------------------------------------------------------------
(* Subscriptions and lists                                                 *)

(* listTasks, and every list that is built on it.                          *)
ListTasks ==
    /\ tasks' = IF tasks = << >> THEN SeedTasks ELSE tasks
    /\ stored' = IF tasks = << >> THEN SeedTasks ELSE stored
    /\ progressTimer' = TRUE
    /\ UNCHANGED <<maxActiveTasks, progressListeners, creating, importing, reloads>>

ListenProgress ==
    /\ progressListeners < MaxListeners /\ progressListeners' = progressListeners + 1
    /\ progressTimer' = TRUE
    /\ UNCHANGED <<tasks, stored, maxActiveTasks, creating, importing, reloads>>

UnlistenProgress ==
    /\ progressListeners > 0 /\ progressListeners' = progressListeners - 1
    /\ progressTimer' = (progressTimer /\ HasActive(tasks))
    /\ UNCHANGED <<tasks, stored, maxActiveTasks, creating, importing, reloads>>

-------------------------------------------------------------------------------
(* Commands on a task: updateTask and scheduleBrowserQueue                 *)

CommandRest == UNCHANGED <<maxActiveTasks, progressListeners, creating, importing, reloads>>
With(i, task) == [tasks EXCEPT ![i] = task]

PauseTask(i) ==
    /\ tasks[i].status \in Active \cup {"queued"}
    /\ ScheduleBrowserQueue(With(i, [tasks[i] EXCEPT !.status = "paused"]), maxActiveTasks)
    /\ CommandRest

(* resumeTask, retryTask, and resolveTaskAttention, which a restart makes  *)
(* begin anew; updateTorrentFileSelection.                                 *)
Requeue(i, restart) ==
    /\ tasks[i].status \in {"paused", "failed", "needs_attention", "waiting_network"}
    /\ ScheduleBrowserQueue(
         With(i, [tasks[i] EXCEPT !.status = "queued",
                                  !.left = IF restart /\ tasks[i].sized THEN FullSize ELSE @]),
         maxActiveTasks)
    /\ CommandRest

(* bulkResolveAttention does not look at the queue.                        *)
BulkResolveAttention(ids) ==
    LET taken == {i \in ids : tasks[i].status \in {"failed", "needs_attention"}}
    IN  /\ taken # {}
        /\ tasks' = [i \in Indices(tasks) |-> IF i \in taken THEN [tasks[i] EXCEPT !.status = "queued"]
                                              ELSE tasks[i]]
        /\ stored' = tasks'
        /\ UNCHANGED progressTimer /\ CommandRest

DeleteFromArray(i) ==
    LET rest == Scheduled(RemoveAt(tasks, i), maxActiveTasks)
    IN  /\ tasks' = rest /\ stored' = rest
        /\ progressTimer' = ((progressTimer \/ Starts(RemoveAt(tasks, i), maxActiveTasks) # {})
                                /\ HasActive(rest))
        /\ CommandRest

(* updateSettings and resetSettings: the limit is clamped.                 *)
UpdateSettings(n) ==
    /\ maxActiveTasks' = IF n < 1 THEN 1 ELSE IF n > MaxSlots THEN MaxSlots ELSE n
    /\ ScheduleBrowserQueue(tasks, maxActiveTasks')
    /\ UNCHANGED <<progressListeners, creating, importing, reloads>>

SeedMockTasks ==
    /\ tasks' = Scheduled(SeedTasks, maxActiveTasks) /\ stored' = tasks'
    /\ progressTimer' = TRUE
    /\ CommandRest

-------------------------------------------------------------------------------
(* createTask, redownloadTask, importUrls                                  *)

CreateCall(url, startPaused, sized, allowDuplicate) ==
    [url |-> url, startPaused |-> startPaused, sized |-> sized, allowed |-> allowDuplicate]
Room == Len(tasks) + Cardinality(creating) + Len(importing.rest) < MaxPreviewTasks

(* The call waits for its probe; redownloadTask allows a duplicate.        *)
CreateTask(call) ==
    /\ Room
    /\ creating' = creating \cup {call}
    /\ UNCHANGED <<tasks, stored, maxActiveTasks, progressTimer, progressListeners, importing, reloads>>

RedownloadTask(i) ==
    tasks[i].status = "completed" /\ CreateTask(CreateCall(tasks[i].url, FALSE, tasks[i].sized, TRUE))

(* duplicateTaskForProbe                                                   *)
DuplicateBySource(url) ==       \* Fault: finished tasks are no duplicates.
    \E i \in Indices(tasks) : tasks[i].url = url /\ tasks[i].status # "completed"
Duplicate(url) == \E i \in Indices(tasks) : tasks[i].url = url

Created(call) ==
    <<Task(call.url, IF call.startPaused THEN "paused" ELSE "queued",
           IF call.sized THEN FullSize ELSE 0, call.sized, call.allowed)>> \o tasks

(* The probe is answered: the rest runs without an await.                  *)
CreateAnswered(call, ok) ==
    /\ creating' = creating \ {call}
    /\ IF ok /\ (call.allowed \/ ~Duplicate(call.url))
       THEN ScheduleBrowserQueue(Created(call), maxActiveTasks)
       ELSE UNCHANGED <<tasks, stored, progressTimer>>
    /\ UNCHANGED <<maxActiveTasks, progressListeners, importing, reloads>>

ImportUrls(urls) ==
    /\ importing = NoImport /\ Room
    /\ importing' = [rest |-> urls, seen |-> {}]
    /\ UNCHANGED <<tasks, stored, maxActiveTasks, progressTimer, progressListeners, creating, reloads>>

(* One line of an import: a url seen before in the import and one that     *)
(* there is a task for are reported, others are probed and created; a      *)
(* failing probe ends the import.                                          *)
ImportLine(ok) ==
    LET url == Head(importing.rest)
    IN  /\ importing # NoImport
        /\ importing' = IF ~ok \/ Len(importing.rest) = 1 THEN NoImport
                        ELSE [rest |-> Tail(importing.rest), seen |-> importing.seen \cup {url}]
        /\ IF ok /\ url \notin importing.seen /\ ~Duplicate(url)
           THEN ScheduleBrowserQueue(Created(CreateCall(url, FALSE, TRUE, FALSE)), maxActiveTasks)
           ELSE UNCHANGED <<tasks, stored, progressTimer>>
        /\ UNCHANGED <<maxActiveTasks, progressListeners, creating, reloads>>

(* The page is reloaded: what is in localStorage remains.                  *)
Reload ==
    /\ reloads < MaxReloads /\ reloads' = reloads + 1
    /\ tasks' = stored
    /\ progressTimer' = FALSE /\ progressListeners' = 0
    /\ creating' = {} /\ importing' = NoImport
    /\ UNCHANGED <<stored, maxActiveTasks>>

-------------------------------------------------------------------------------
PreviewInit ==
    /\ tasks = SeedTasks /\ stored = SeedTasks
    /\ maxActiveTasks = 1
    /\ progressTimer = FALSE /\ progressListeners = 0
    /\ creating = {} /\ importing = NoImport
    /\ reloads = 0

PreviewNext ==
    \/ Tick \/ ListTasks \/ ListenProgress \/ UnlistenProgress \/ SeedMockTasks \/ Reload
    \/ \E i \in Indices(tasks) : PauseTask(i) \/ DeleteFromArray(i) \/ RedownloadTask(i)
    \/ \E i \in Indices(tasks), restart \in BOOLEAN : Requeue(i, restart)
    \/ \E ids \in SUBSET Indices(tasks) : BulkResolveAttention(ids)
    \/ \E n \in 0 .. MaxSlots + 1 : UpdateSettings(n)
    \/ \E url \in Urls, startPaused, sized, allow \in BOOLEAN : CreateTask(CreateCall(url, startPaused, sized, allow))
    \/ \E call \in creating, ok \in BOOLEAN : CreateAnswered(call, ok)
    \/ \E u, v \in Urls : ImportUrls(<<u, v>>)
    \/ \E ok \in BOOLEAN : ImportLine(ok)

PreviewSpec == PreviewInit /\ [][PreviewNext]_previewVars

-------------------------------------------------------------------------------
(* Properties                                                              *)

(* A download that a command started does not stand still: while the       *)
(* window listens, an active task with bytes left has the timer, whatever  *)
(* was deleted, unsubscribed or reloaded (stopProgressTimerIfIdle).        *)
ActiveIsDriven == progressListeners > 0 /\ HasActive(tasks) => progressTimer

(* Two tasks have the same url only when the later one was allowed to: the *)
(* check follows the last await of createTask, so two calls that wait for  *)
(* their probes at the same time, or an import beside them, cannot both    *)
(* find the url free.                                                      *)
DuplicatesAreAllowed ==
    \A i, j \in Indices(tasks) : i < j /\ tasks[i].url = tasks[j].url => tasks[i].allowed

(* What the preview back end keeps over commands, reloads and awaits.      *)
PreviewIsSound == ActiveIsDriven /\ DuplicatesAreAllowed

(* A task waits in the queue only while all slots are taken.               *)
QueuedMeansFull ==
    \A i \in Indices(tasks) : tasks[i].status = "queued" => ActiveCount(tasks) >= maxActiveTasks
===============================================================================
