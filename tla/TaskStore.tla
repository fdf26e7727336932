------------------------------- MODULE TaskStore -------------------------------
(***************************************************************************)
(* The rows of the task list between the back end and the screen: the      *)
(* store of src/src/stores/task-data-store.ts and the event hook of        *)
(* src/src/hooks/use-task-events.ts.  Progress events are buffered until   *)
(* the next frame, task_updated events are applied at once, queue-changed  *)
(* events wait 100 ms and become a query by ids or a full refresh; the     *)
(* counters are patched in place and recomputed by a timer.                *)
(*                                                                         *)
(* A row is a task and its status.  Everything else of a row is payload,   *)
(* and so are sizes and speeds: a progress event that changes no status    *)
(* takes the zero-delta path.  The query of the list is one navigation     *)
(* entry that stays (ListQuery models its changes); pages are one page.    *)
(***************************************************************************)
EXTENDS Integers, Sequences, FiniteSets, SequencesExt

CONSTANTS
    Tasks,
    InitialLists,   \* rows of the back end that the window may start with
    StoreNavs,      \* navigation entries the list may show
    MaxChanges,     \* bound: changes of the back end, reorders and failed queries
    MaxEvents,      \* bound: events that are under way at a time
    MaxOverlap      \* bound: queries that are under way at a time

VARIABLES
    back,               \* rows of the back end, in queue order
    changes,            \* changes of the back end, reorders and failures so far
    events,             \* events on their way to the window, in order
    refreshes,          \* queries under way, the one that replaces first
    deletions,          \* tasks whose deletion is not answered yet
    shownNav,           \* the navigation entry of the list
    store,              \* the collections of useTaskDataStore, see below
    notices,            \* keys of notifiedStatuses; completion toasts since the
                        \* window was told, or shown again, another status of
                        \* the task (history)
    pendingProgress,    \* buffered progress payloads
    pendingQueue,       \* QueueChangedAccumulator
    queueTimer, recalculateTimer,
    reloadWanted,       \* viewReloadToken was bumped, TaskList has to load
    previousTasks,      \* snapshot of an optimistic reorder, or NoReorder
    revived,            \* tasks that a refresh has kept live (history)
    astray,             \* tasks of which the window was last told by an answer
                        \* that was old when it came, or by none at all (history)
    missed              \* no page has come since a refresh failed (history)

backVars == <<back, changes>>
wireVars == <<events, refreshes, deletions>>
screenVars == <<store, notices, pendingProgress, recalculateTimer, revived, astray, missed>>
timerVars == <<pendingQueue, queueTimer, reloadWanted>>
storeVars == <<backVars, wireVars, shownNav, screenVars, timerVars, previousTasks>>

ShownStatuses == {"queued", "downloading", "completed"}
Row(t, s) == [id |-> t, status |-> s]
NoRow == [id |-> "none"]
NoReorder == [ordered |-> << >>]
Positions(seq) == 1 .. Len(seq)

(* A task has one row in the back end.                                     *)
ASSUME TaskStoreAssumption ==
    /\ \A list \in InitialLists :
         /\ list \in Seq([id : Tasks, status : ShownStatuses])
         /\ \A i, j \in Positions(list) : list[i].id = list[j].id => i = j
    /\ StoreNavs \subseteq {"all", "downloading"}
    /\ {MaxChanges, MaxEvents} \subseteq Nat /\ MaxOverlap \in Nat \ {0}

(* SelectSeq, as a function that the provers can expand: the elements at   *)
(* the positions in `where`, in their order.                               *)
Selected(seq, where) ==
    LET upTo[i \in 0 .. Len(seq)] ==
            IF i = 0 THEN << >>
            ELSE IF i \in where THEN Append(upTo[i - 1], seq[i]) ELSE upTo[i - 1]
    IN  upTo[Len(seq)]
Filter(seq, Test(_)) == Selected(seq, {i \in Positions(seq) : Test(seq[i])})

-------------------------------------------------------------------------------
(* The collections: the entity cache byId, the rows on screen, their ids   *)
(* (which keep the id of an evicted entity), the position of an id in rows *)
(* (0 when undefined) and the counters of the rows.                        *)

(* taskMatchesListQuery                                                    *)
Matches(row) == shownNav = "downloading" => row.status = "downloading"

(* indexTasks                                                              *)
IndexTasks(rows) ==
    [t \in Tasks |-> IF \E i \in Positions(rows) : rows[i].id = t
                     THEN CHOOSE i \in Positions(rows) :
                            rows[i].id = t /\ \A j \in Positions(rows) : j > i => rows[j].id # t
                     ELSE 0]

(* statusCounterKeys: each status has one counter.                         *)
(* calculateTaskStats                                                      *)
CalculateTaskStats(rows) ==
    [all |-> Len(rows),
     of |-> [s \in ShownStatuses |-> Cardinality({i \in Positions(rows) : rows[i].status = s})]]

(* viewFromIds: ids without an entity give no row.                         *)
ViewFromIds(byId, ids) ==
    LET present == Filter(ids, LAMBDA t : byId[t] # NoRow)
    IN  [i \in Positions(present) |-> byId[present[i]]]

(* rebuildViewCollections                                                  *)
RebuildView(byId, ids) ==
    LET rows == ViewFromIds(byId, ids)
    IN  [byId |-> byId, ids |-> ids, rows |-> rows,
         index |-> IndexTasks(rows), stats |-> CalculateTaskStats(rows)]

(* A change of status: the task that is said to have changed, and the row  *)
(* that has.                                                               *)
Transition(t, row) == [taskId |-> t, task |-> row]

(* notifyTaskStatusChanges: the rows of `after` with another status than   *)
(* the (last) row with their id before.                                    *)
Transitions(before, after) ==
    LET was == IndexTasks(before)
        changed == Filter(after, LAMBDA r : was[r.id] # 0 /\ before[was[r.id]].status # r.status)
    IN  [i \in Positions(changed) |-> Transition(changed[i].id, changed[i])]

-------------------------------------------------------------------------------
(* patchTasksBatch                                                         *)

LatestPayloads(payloads) ==
    [t \in {p.id : p \in ToSet(payloads)} |->
        payloads[CHOOSE i \in Positions(payloads) :
            payloads[i].id = t /\ \A j \in Positions(payloads) : j > i => payloads[j].id # t].status]

(* Payloads that change the status of the row at the index of their task.  *)
Patched(s, latest) ==
    {t \in DOMAIN latest : s.index[t] # 0 /\ s.rows[s.index[t]].status # latest[t]}

(* An index beyond the rows makes the update throw: the batch is lost.     *)
PatchThrows(s, latest) == \E t \in DOMAIN latest : s.index[t] > Len(s.rows)

(* The counters move by the difference that the patched rows make.         *)
PatchStats(s, latest, moved, removed) ==
    [all |-> s.stats.all - removed,
     of |-> [c \in ShownStatuses |-> s.stats.of[c]
                + Cardinality({t \in moved : latest[t] = c})
                - Cardinality({t \in moved : s.rows[s.index[t]].status = c})]]

(* A payload lands on the row at the index of its task, and that row also  *)
(* becomes the entity.  Rows that no longer match leave the view.  An id   *)
(* whose entity was evicted is dropped too, but not counted as removed,    *)
(* and the index is rebuilt only when a row was removed.                   *)
PatchTasks(s, payloads) ==
    LET latest == LatestPayloads(payloads)
        moved  == Patched(s, latest)
        patched(t) == Row(s.rows[s.index[t]].id, latest[t])
        at(i)  == {t \in moved : s.index[t] = i}
        rows   == [i \in Positions(s.rows) |->
                      IF at(i) = {} THEN s.rows[i] ELSE patched(CHOOSE t \in at(i) : TRUE)]
        byId   == [t \in Tasks |-> IF t \in moved THEN patched(t) ELSE s.byId[t]]
        ids    == Filter(s.ids, LAMBDA t : byId[t] # NoRow /\ Matches(byId[t]))
        removed == Cardinality({i \in Positions(s.ids) :
                        byId[s.ids[i]] # NoRow /\ ~Matches(byId[s.ids[i]])})
        shown  == IF Len(ids) # Len(s.ids) THEN ViewFromIds(byId, ids) ELSE rows
    IN  IF moved = {} THEN s
        ELSE [byId |-> byId, ids |-> ids, rows |-> shown,
              index |-> IF removed > 0 THEN IndexTasks(shown) ELSE s.index,
              stats |-> PatchStats(s, latest, moved, removed)]

(* Transitions that the patch reports: of rows that leave the view too, in *)
(* the order in which their tasks first occur.                             *)
PatchTransitions(s, payloads) ==
    LET latest == LatestPayloads(payloads)
        first == Selected(payloads, {i \in Positions(payloads) :
                     /\ payloads[i].id \in Patched(s, latest)
                     /\ \A j \in 1 .. i - 1 : payloads[j].id # payloads[i].id})
        patched(t) == Row(s.rows[s.index[t]].id, latest[t])
    IN  [i \in Positions(first) |-> Transition(first[i].id, patched(first[i].id))]

-------------------------------------------------------------------------------
(* upsertTask, upsertTasksBatch, setTaskCursorPage, evictTasks             *)

RowOf(rows, t) == CHOOSE r \in ToSet(rows) : r.id = t
IdsOf(rows) == [i \in Positions(rows) |-> rows[i].id]

(* mergeEntities                                                           *)
Merged(byId, rows) ==
    [t \in Tasks |-> IF t \in ToSet(IdsOf(rows)) THEN RowOf(rows, t) ELSE byId[t]]

(* A row in view that no longer matches leaves it.                         *)
UpsertRows(s, rows, inView) ==
    LET leaves(t) == t \in inView \cap ToSet(IdsOf(rows)) /\ ~Matches(RowOf(rows, t))
    IN  IF rows = << >> THEN s
        ELSE RebuildView(Merged(s.byId, rows), Filter(s.ids, LAMBDA t : ~leaves(t)))

(* upsertTask looks at the index only, upsertTasksBatch at the ids too.    *)
InIndex(s) == {t \in Tasks : s.index[t] # 0}
InBatch(s) == InIndex(s) \cup ToSet(s.ids)

(* One that should come into view asks for a reload instead of a guess of  *)
(* its place.  One in view does when its queue position is another, which  *)
(* it may be.                                                              *)
NeedsReload(s, rows, inView) == \E r \in ToSet(rows) : Matches(r) /\ r.id \notin inView
MayNeedReload(s, rows, inView) ==
    \E r \in ToSet(rows) : Matches(r) /\ (r.id \notin inView \/ s.byId[r.id] # NoRow)

(* upsertTask returns early for a row in view that equals its entity in    *)
(* all that is shown: with the same status it may.                         *)
MayBeEqual(s, row) ==
    /\ row.id \in InIndex(s) /\ Matches(row)
    /\ s.byId[row.id] # NoRow /\ s.byId[row.id].status = row.status

(* setTaskCursorPage(..., append = false)                                  *)
SetPage(s, rows) == RebuildView(Merged(s.byId, rows), IdsOf(rows))

(* evictTasks: ids, rows and index stay.                                   *)
EvictTasks(s, t) == [s EXCEPT !.byId[t] = NoRow]

(* recalculateTaskStats                                                    *)
RecalculateTaskStatsOfAll(s) ==   \* Fault: equal totals count as equal counters.
    IF s.stats.all = Len(s.rows) THEN s ELSE [s EXCEPT !.stats = CalculateTaskStats(s.rows)]
RecalculateTaskStats(s) == [s EXCEPT !.stats = CalculateTaskStats(s.rows)]

(* mergeTasksFromServer: a row that was live keeps its status.             *)
MergeFromServer(current, fresh) ==
    [i \in Positions(fresh) |->
        IF Row(fresh[i].id, "downloading") \in ToSet(current)
        THEN Row(fresh[i].id, "downloading") ELSE fresh[i]]

-------------------------------------------------------------------------------
(* notifyTaskStatusTransitions and the effect that prunes the keys         *)

(* A completion is announced unless its key is remembered; a status that   *)
(* is no outcome forgets the key of the task.                              *)
Announce(n, t) == [n EXCEPT !.keys = @ \cup {t}, !.toasts[t] = @ + 1]
NotifyOf(n, x) ==
    IF x.task.status # "completed" THEN [n EXCEPT !.keys = @ \ {x.taskId}]
    ELSE IF x.task.id \in n.keys THEN n
    ELSE Announce(n, x.task.id)

(* History: what the window is told of these tasks is no completion.       *)
Told(n, others) ==
    [n EXCEPT !.toasts = [t \in Tasks |-> IF t \in others THEN 0 ELSE @[t]]]
NotCompleted(rows) == {r.id : r \in {x \in ToSet(rows) : x.status # "completed"}}

NotifyForgetful(n, transitions) ==   \* Fault: keys are not remembered.
    LET after[i \in 0 .. Len(transitions)] ==
            IF i = 0 THEN n
            ELSE IF transitions[i].task.status # "completed" THEN after[i - 1]
            ELSE Announce(after[i - 1], transitions[i].task.id)
    IN  after[Len(transitions)]
Notify(n, transitions) ==
    LET after[i \in 0 .. Len(transitions)] ==
            IF i = 0 THEN n ELSE NotifyOf(after[i - 1], transitions[i])
    IN  after[Len(transitions)]

(* Keys of tasks without an id are pruned when the ids changed.            *)
PruneKeys(n, ids) == IF ids = store.ids THEN n ELSE [n EXCEPT !.keys = @ \cap ToSet(ids)]

-------------------------------------------------------------------------------
(* The back end, as far as the window can tell                             *)

Page == Filter(back, Matches)
IndexOf(t) == CHOOSE i \in Positions(back) : back[i].id = t
Exists(t) == t \in ToSet(IdsOf(back))

ProgressEvent(t, s) == [kind |-> "progress", id |-> t, status |-> s]
UpdatedEvent(t, s) == [kind |-> "updated", id |-> t, status |-> s]
QueueEvent(ids) == [kind |-> "queue", ids |-> ids, full |-> FALSE]
QueueChanged == [kind |-> "queue", ids |-> {}, full |-> TRUE]

Emits(emitted) ==
    /\ Len(events) + Len(emitted) <= MaxEvents
    /\ events' = events \o emitted

(* What a query covers, and the answers that a change of `t` makes old.    *)
Covered(c) == IF c.kind = "ids" THEN c.ids ELSE Tasks
Aged(t) ==
    [i \in Positions(refreshes) |->
        IF refreshes[i].answered /\ t \in Covered(refreshes[i])
        THEN [refreshes[i] EXCEPT !.old = @ \cup {t}] ELSE refreshes[i]]

(* The moves of the table of transitions among these statuses, and the     *)
(* retry and the restart that put a row back into the queue.               *)
MovesTo == [queued |-> {"downloading"}, downloading |-> {"queued", "completed"},
            completed |-> {"queued"}]

(* What a change of status sends: transition_task and a completion send    *)
(* task_updated first, start_task sends queue_changed before its engine    *)
(* has progress, and a run that is put back into the queue sends progress  *)
(* first.                                                                  *)
EventsOf(t, s) ==
    {<<UpdatedEvent(t, s), ProgressEvent(t, s), QueueEvent({t})>>}
        \cup (IF s = "queued" THEN {<<ProgressEvent(t, s), UpdatedEvent(t, s), QueueEvent({t})>>} ELSE {})
        \cup (IF s = "downloading" THEN {<<UpdatedEvent(t, s), QueueEvent({t}), ProgressEvent(t, s)>>} ELSE {})

ChangeStatus(t, s) ==
    /\ Exists(t)
    /\ s \in MovesTo[back[IndexOf(t)].status]
    /\ changes < MaxChanges /\ changes' = changes + 1
    /\ back' = [back EXCEPT ![IndexOf(t)] = Row(t, s)]
    /\ \E emitted \in EventsOf(t, s) : Emits(emitted)
    /\ refreshes' = Aged(t)
    /\ UNCHANGED <<deletions, shownNav, screenVars, timerVars, previousTasks>>

(* A hard delete: the event is sent before the call is answered.           *)
DeleteTask(t) ==
    /\ Exists(t)
    /\ changes < MaxChanges /\ changes' = changes + 1
    /\ back' = RemoveAt(back, IndexOf(t))
    /\ Emits(<<QueueChanged>>)
    /\ deletions' = deletions \cup {t}
    /\ UNCHANGED <<refreshes, shownNav, screenVars, timerVars, previousTasks>>

-------------------------------------------------------------------------------
(* useTaskEvents: handlers and timers                                      *)

(* flushProgressBatch: what it makes of the store, and whether it throws;  *)
(* the batch was taken before, so that it is lost then.                    *)
Flushed == IF pendingProgress = << >> THEN store ELSE PatchTasks(store, pendingProgress)
FlushThrows == pendingProgress # << >> /\ PatchThrows(store, LatestPayloads(pendingProgress))
FlushedNotices ==
    IF pendingProgress = << >> THEN notices
    ELSE Notify(Told(notices, NotCompleted(pendingProgress)),
                PatchTransitions(store, pendingProgress))

FlushedIds == {p.id : p \in ToSet(pendingProgress)}

(* A handler that begins with a flush and throws in it does nothing else.  *)
HandlerThrows ==
    /\ FlushThrows
    /\ UNCHANGED <<store, notices, recalculateTimer, revived, astray>>

(* What the screen becomes when the flush is all that touches it.          *)
ShowFlushed ==
    /\ ~FlushThrows
    /\ store' = Flushed
    /\ notices' = PruneKeys(FlushedNotices, Flushed.ids)
    /\ recalculateTimer' = (recalculateTimer \/ pendingProgress # << >>)
    /\ revived' = revived \ FlushedIds
    /\ UNCHANGED <<astray, missed>>

FlushProgressBatch ==
    /\ pendingProgress # << >>
    /\ pendingProgress' = << >>
    /\ (HandlerThrows /\ UNCHANGED missed) \/ ShowFlushed
    /\ UNCHANGED <<backVars, wireVars, shownNav, timerVars, previousTasks>>

(* Events come in the order they were sent in.                             *)
Receive(kind) ==
    /\ events # << >> /\ Head(events).kind = kind
    /\ events' = Tail(events)
    /\ UNCHANGED <<backVars, refreshes, deletions, shownNav, previousTasks>>

OnTaskProgress ==
    /\ Receive("progress")
    /\ pendingProgress' = Append(pendingProgress, Row(Head(events).id, Head(events).status))
    /\ UNCHANGED <<store, notices, recalculateTimer, revived, astray, missed, timerVars>>

(* upsertTask or upsertTasksBatch of `rows` made `next` of the store `s`:  *)
(* what changed is announced, and the counters are recomputed later.       *)
ShowUpserted(s, next, n, kept, rows) ==
    /\ store' = next
    /\ notices' = PruneKeys(Notify(Told(n, NotCompleted(rows)), Transitions(s.rows, next.rows)),
                            next.ids)
    /\ recalculateTimer' = TRUE
    /\ revived' = kept \ ToSet(IdsOf(rows))
    /\ UNCHANGED missed

(* Whether TaskList is asked to load.                                      *)
AskReload(s, rows, inView) ==
    \/ ~NeedsReload(s, rows, inView) /\ UNCHANGED reloadWanted
    \/ MayNeedReload(s, rows, inView) /\ reloadWanted' = TRUE

(* upsertTask *)
UpsertTask(s, n, kept, row) ==
    \/ /\ ShowUpserted(s, UpsertRows(s, <<row>>, InIndex(s)), n, kept, <<row>>)
       /\ AskReload(s, <<row>>, InIndex(s))
    \/ /\ MayBeEqual(s, row)
       /\ ShowUpserted(s, s, n, kept, <<row>>)
       /\ UNCHANGED reloadWanted

OnTaskUpdated ==
    /\ Receive("updated")
    /\ pendingProgress' = << >>
    /\ LET row == Row(Head(events).id, Head(events).status)
       IN  \/ HandlerThrows /\ UNCHANGED <<missed, reloadWanted>>
           \/ /\ ~FlushThrows
              /\ UpsertTask(Flushed, FlushedNotices, revived \ FlushedIds, row)
              /\ astray' = astray \ {row.id}
    /\ UNCHANGED <<pendingQueue, queueTimer>>

(* accumulateQueueChanged: a full refresh swallows the ids before and      *)
(* after it.                                                               *)
AccumulateLast(acc, e) == [ids |-> e.ids, full |-> e.full]  \* Fault: only the last event counts.
Accumulate(acc, e) ==
    IF acc.full \/ e.full THEN [ids |-> {}, full |-> TRUE]
    ELSE [acc EXCEPT !.ids = @ \cup e.ids]

(* An event whose handler throws asks for no refresh.                      *)
OnQueueChanged ==
    /\ Receive("queue")
    /\ pendingProgress' = << >>
    /\ \/ HandlerThrows /\ missed' = TRUE /\ UNCHANGED <<pendingQueue, queueTimer>>
       \/ /\ ShowFlushed
          /\ pendingQueue' = Accumulate(pendingQueue, Head(events)) /\ queueTimer' = TRUE
    /\ UNCHANGED reloadWanted

-------------------------------------------------------------------------------
(* Queries: asked, read by the back end, answered or failed.  Their        *)
(* answers come in no order, of events or of one another.                  *)

Asked(kind, ids, previous) ==
    [kind |-> kind, ids |-> ids, previous |-> previous,
     answered |-> FALSE, rows |-> << >>, old |-> {}]
Replaces(c) == c.kind # "ids"
Without(i) == [j \in 1 .. Len(refreshes) - 1 |-> IF j < i THEN refreshes[j] ELSE refreshes[j + 1]]

(* A replacing query makes the answers of older ones stale: they are taken *)
(* as gone at once (ListQuery has the epochs).                             *)
StartReplacing(kind, previous) ==
    LET others == Filter(refreshes, LAMBDA c : ~Replaces(c))
    IN  /\ Len(others) < MaxOverlap
        /\ refreshes' = <<Asked(kind, {}, previous)>> \o others

(* The queue timer: takeQueueFlushPlan and the query it asks for.  The     *)
(* rows that are merged later are read before the answer.                  *)
QueueTimerFires ==
    /\ queueTimer
    /\ queueTimer' = FALSE
    /\ pendingQueue' = [ids |-> {}, full |-> FALSE]
    /\ \/ pendingQueue.full /\ StartReplacing("event", store.rows)
       \/ /\ ~pendingQueue.full /\ Len(refreshes) < MaxOverlap
          /\ refreshes' = Append(refreshes, Asked("ids", pendingQueue.ids, << >>))
    /\ UNCHANGED <<backVars, events, deletions, shownNav, screenVars, reloadWanted, previousTasks>>

(* TaskList loads the first page when the reload token changed, one load   *)
(* at a time.                                                              *)
LoadPage ==
    /\ reloadWanted /\ reloadWanted' = FALSE
    /\ \A i \in Positions(refreshes) : refreshes[i].kind # "page"
    /\ StartReplacing("page", << >>)
    /\ UNCHANGED <<backVars, events, deletions, shownNav, screenVars, pendingQueue, queueTimer,
                   previousTasks>>

(* The back end reads its rows for a query.                                *)
ServeQuery(i) ==
    /\ ~refreshes[i].answered
    /\ refreshes' = [refreshes EXCEPT ![i].answered = TRUE,
           ![i].rows = Filter(IF Replaces(refreshes[i]) THEN Page ELSE back,
                              LAMBDA r : r.id \in Covered(refreshes[i]))]
    /\ UNCHANGED <<backVars, events, deletions, shownNav, screenVars, timerVars, previousTasks>>

(* A page replaces the list; the full refresh of an event merges the rows  *)
(* it remembers and announces what changed against them.                   *)
ReceivePage(c) ==
    LET rows == IF c.kind = "event" THEN MergeFromServer(c.previous, c.rows) ELSE c.rows
        seen == IF c.kind = "event" THEN Transitions(c.previous, rows) ELSE << >>
        next == SetPage(store, rows)
    IN  /\ store' = next
        /\ notices' = PruneKeys(Notify(Told(notices, NotCompleted(rows)), seen), next.ids)
        /\ recalculateTimer' = (recalculateTimer \/ c.kind = "event")
        /\ revived' = {rows[i].id : i \in {k \in Positions(rows) : rows[k] # c.rows[k]}}
        /\ missed' = FALSE
        /\ UNCHANGED reloadWanted

ReceiveAnswer(i) ==
    LET c == refreshes[i]
    IN  /\ c.answered
        /\ refreshes' = Without(i)
        /\ \/ c.kind # "ids" /\ ReceivePage(c)
           \/ /\ c.kind = "ids"
              /\ ShowUpserted(store, UpsertRows(store, c.rows, InBatch(store)),
                              notices, revived, c.rows)
              /\ AskReload(store, c.rows, InBatch(store))
        /\ astray' = (astray \ Covered(c)) \cup c.old
        /\ UNCHANGED <<backVars, events, deletions, shownNav, pendingProgress, pendingQueue, queueTimer,
                       previousTasks>>

(* A query fails: the refresh of an event logs it, a load or a refresh of  *)
(* the shell shows the error.  None is asked again.                        *)
QueryFails(i) ==
    /\ changes < MaxChanges /\ changes' = changes + 1
    /\ refreshes' = Without(i)
    /\ IF Replaces(refreshes[i]) THEN missed' = TRUE /\ UNCHANGED astray
       ELSE astray' = astray \cup refreshes[i].ids /\ UNCHANGED missed
    /\ UNCHANGED <<back, events, deletions, shownNav, store, notices, pendingProgress,
                   recalculateTimer, revived, timerVars, previousTasks>>

RecalculateTimerFires ==
    /\ recalculateTimer /\ recalculateTimer' = FALSE
    /\ store' = RecalculateTaskStats(store)
    /\ UNCHANGED <<backVars, wireVars, shownNav, notices, pendingProgress, revived, astray, missed,
                    timerVars, previousTasks>>

(* The answer of a hard delete.                                            *)
DeleteAnswered(t) ==
    /\ t \in deletions /\ deletions' = deletions \ {t}
    /\ store' = EvictTasks(store, t)
    /\ notices' = Told(notices, {t})
    /\ UNCHANGED <<backVars, events, refreshes, shownNav, pendingProgress, recalculateTimer, revived,
                   astray, missed, timerVars, previousTasks>>

-------------------------------------------------------------------------------
(* handleReorder: the first queued row goes behind the last one            *)

QueuedIds(s) == Filter(s.ids, LAMBDA t : s.byId[t] # NoRow /\ s.byId[t].status = "queued")

(* Tasks of `ordered` take the places that rows of them have, which are     *)
(* more of them where a task has two rows.                                 *)
PlacedIn(rows, ordered, rowOf(_)) ==
    LET places == {i \in Positions(rows) : rows[i].id \in ToSet(ordered)}
        rank(i) == Cardinality({j \in places : j <= i})
        moved == {i \in places : rank(i) <= Len(ordered)}
    IN  [i \in Positions(rows) |-> IF i \in moved THEN rowOf(ordered[rank(i)]) ELSE rows[i]]

WithRows(s, rows) == [s EXCEPT !.rows = rows, !.ids = IdsOf(rows), !.index = IndexTasks(rows)]

(* The rows move before the back end is asked (reorderTasksLocally).       *)
Reorder ==
    LET queued == QueuedIds(store)
        ordered == Append(Tail(queued), Head(queued))
        rows == PlacedIn(store.rows, ordered, LAMBDA t : store.byId[t])
    IN  /\ previousTasks = NoReorder /\ Len(queued) > 1
        /\ changes < MaxChanges /\ changes' = changes + 1
        /\ previousTasks' = [ordered |-> ordered, rows |-> store.rows]
        /\ store' = WithRows(store, rows)
        /\ notices' = PruneKeys(notices, IdsOf(rows))
        /\ UNCHANGED <<back, wireVars, shownNav, pendingProgress, recalculateTimer, revived, astray,
                       missed, timerVars>>

(* Each id is given its position in turn: of a task that a stale index has *)
(* put in the order twice, the last one counts.                            *)
LastOfEach(seq) ==
    Selected(seq, {i \in Positions(seq) : \A j \in Positions(seq) : j > i => seq[j] # seq[i]})

(* The back end takes the order and announces every row.                   *)
ReorderTaken ==
    LET ordered == previousTasks.ordered
    IN  /\ previousTasks # NoReorder
        /\ \A t \in ToSet(ordered) : Exists(t) /\ back[IndexOf(t)].status = "queued"
        /\ back' = PlacedIn(back, LastOfEach(ordered), LAMBDA t : Row(t, "queued"))
        /\ events' = events \o [i \in Positions(ordered) |-> UpdatedEvent(ordered[i], "queued")]
                            \o <<QueueChanged>>
        /\ previousTasks' = NoReorder
        /\ UNCHANGED <<changes, refreshes, deletions, shownNav, screenVars, timerVars>>

(* It fails: the rows of the snapshot come back, old as they may be, then  *)
(* a refresh is sent.                                                      *)
ReorderFails ==
    /\ previousTasks # NoReorder
    /\ store' = WithRows(store, previousTasks.rows)
    /\ notices' = PruneKeys(Told(notices, NotCompleted(previousTasks.rows)), IdsOf(previousTasks.rows))
    /\ StartReplacing("refresh", << >>)
    /\ previousTasks' = NoReorder
    /\ UNCHANGED <<backVars, events, deletions, shownNav, pendingProgress, recalculateTimer, revived,
                   astray, missed, timerVars>>

-------------------------------------------------------------------------------
StoreInit ==
    /\ back \in InitialLists
    /\ changes = 0
    /\ events = << >> /\ refreshes = << >> /\ deletions = {}
    /\ shownNav \in StoreNavs
    /\ store = SetPage(RebuildView([t \in Tasks |-> NoRow], << >>), Page)
    /\ notices = [keys |-> {}, toasts |-> [t \in Tasks |-> 0]]
    /\ pendingProgress = << >> /\ pendingQueue = [ids |-> {}, full |-> FALSE]
    /\ queueTimer = FALSE /\ recalculateTimer = FALSE
    /\ reloadWanted = FALSE
    /\ previousTasks = NoReorder
    /\ revived = {} /\ astray = {} /\ missed = FALSE

StoreNext ==
    \/ \E t \in Tasks : DeleteTask(t) \/ DeleteAnswered(t)
    \/ \E t \in Tasks, s \in ShownStatuses : ChangeStatus(t, s)
    \/ OnTaskProgress \/ OnTaskUpdated \/ OnQueueChanged \/ FlushProgressBatch
    \/ QueueTimerFires \/ RecalculateTimerFires \/ LoadPage
    \/ \E i \in Positions(refreshes) : ServeQuery(i) \/ ReceiveAnswer(i) \/ QueryFails(i)
    \/ Reorder \/ ReorderTaken \/ ReorderFails

StoreSpec == StoreInit /\ [][StoreNext]_storeVars

-------------------------------------------------------------------------------
(* Properties                                                              *)

Quiet ==
    /\ events = << >> /\ pendingProgress = << >>
    /\ ~queueTimer /\ ~reloadWanted
    /\ refreshes = << >> /\ previousTasks = NoReorder

(* Once nothing is on its way and no page failed since one came, the list  *)
(* shows the rows of the back end and finds each of them at its index: no  *)
(* sequence of events, debounced queries, refreshes and rollbacks leaves   *)
(* an old row on screen, although answers come in no order of the events.  *)
(* Excepted are rows of which the last that was heard was an answer that   *)
(* was old when it came, or of which a query by ids failed (`astray`), and *)
(* rows that a refresh has kept live against the answer (`revived`), which *)
(* say that they are downloading: nothing asks for these again.            *)
Shown(row) == IF row.id \in revived THEN Row(row.id, "downloading") ELSE row
Sure(rows) == Filter(rows, LAMBDA r : r.id \notin astray)
SettledRows ==
    Quiet /\ ~missed =>
        /\ Sure(store.rows) = [i \in Positions(Sure(Page)) |-> Shown(Sure(Page)[i])]
        /\ store.ids = IdsOf(store.rows) /\ store.index = IndexTasks(store.rows)

(* docs/project-improvement-audit.md:697, without those exceptions: after  *)
(* changes of status the result set agrees with the page of the back end.  *)
ListConverges == Quiet => store.rows = Page

PageUnderWay == \E i \in Positions(refreshes) : Replaces(refreshes[i])

(* The counters that were patched in place are those of the rows whenever  *)
(* no recount is pending and no page is under way: a patch counts a row    *)
(* that leaves the view under its new status, a patch under a stale index  *)
(* counts another row, and a rolled back reorder shows old rows under new  *)
(* counters, so what repairs them has to follow every such step            *)
(* (scheduleRecalculateStats, refreshTasks).  Excepted is a refresh that   *)
(* failed, until a page has come.                                          *)
SettledStats ==
    ~recalculateTimer /\ ~PageUnderWay /\ ~missed =>
        store.stats = CalculateTaskStats(store.rows)

(* What the window shows settles: its rows, and its counters.              *)
StoreSettles == SettledRows /\ SettledStats

(* A completion is announced at most once until the window is told, or is  *)
(* shown again by a failed reorder, that the task is anything else,        *)
(* however many events, refreshes and stale rows report it and in whatever *)
(* order they come: a refresh compares its answer with rows that are older *)
(* than the announcement, and only the key of the task stands against a    *)
(* second one (notifiedStatuses), which is pruned and cleared as the list  *)
(* changes.                                                                *)
AnnouncedOnce == \A t \in Tasks : notices.toasts[t] <= 1
===============================================================================
