----------------------------- MODULE DetailPanes -----------------------------
(***************************************************************************)
(* What the window shows of one task and asks the back end for again and   *)
(* again: the panes of the details panel                                   *)
(* (src/src/hooks/use-task-detail-queries.ts, MediaOutputPanel of          *)
(* TaskDetails.tsx) and the ranges of a row (use-row-segments.ts), driven  *)
(* by src/src/hooks/use-visibility-gated-poll.ts.                          *)
(*                                                                         *)
(* The panes share the task, the tab and the visibility of the window and  *)
(* nothing else, so a behaviour follows one of them.  The content of an    *)
(* answer is the version of the task that it was read from: whatever the   *)
(* back end does to a task makes a new version.  A run counts when the     *)
(* window learned that it began.  The HLS and DASH panes and the extras of *)
(* FTP repeat those that are here.                                         *)
(***************************************************************************)
EXTENDS Naturals, FiniteSets

CONSTANTS
    PaneTasks,
    Moving,         \* bound: tasks that the back end changes meanwhile
    MaxVersion,     \* bound: versions of a task
    MaxMoves        \* bound: changes of task, tab and visibility, and pages

ASSUME DetailPanesAssumption ==
    /\ PaneTasks # {} /\ Moving \subseteq PaneTasks
    /\ {MaxVersion, MaxMoves} \subseteq Nat

VARIABLES
    pane,           \* the pane that the behaviour follows
    paneView,       \* the task shown, the tab, whether the window is hidden
    backTask,       \* status, version, and the version that the last run left
    uiStatus,       \* the status in the store of the window
    timer,          \* the interval of the pane's effect
    calls,          \* queries under way; `current`: their effect still is
    rows,           \* what the pane shows: task and version, or NoRows
    cursor,         \* there is a next page of the task, by task
    appended,       \* tasks of which pages were appended
    pollFailed,     \* the last answer of a poll was an error, which is shown
    moves

paneVars == <<pane, paneView, backTask, uiStatus, timer, calls, rows, cursor, appended, pollFailed, moves>>

NoRows == [version |-> 0]
NoCursor == [task |-> "none"]
Panes == {"segments", "events", "requests", "media", "passport", "ranges"}
Tabs == {"overview", "diagnostics", "logs"}
LiveStatus == {"queued", "downloading"}

(***************************************************************************)
(* The options of each useVisibilityGatedPoll, and the effect that fetches *)
(* the passport, which neither polls nor looks at the visibility.          *)
(***************************************************************************)
Enabled(v, status) ==
    \/ pane = "segments" /\ v.tab \in {"overview", "diagnostics"}
    \/ pane = "events" /\ v.tab \in {"overview", "logs"}
    \/ pane = "requests" /\ v.tab = "diagnostics"
    \/ pane \in {"passport", "media"} /\ v.tab = "overview"
    \/ pane = "ranges" /\ status \in {"downloading", "paused"}

Polls(status) ==
    \/ pane \in {"events", "requests"} /\ status \in LiveStatus
    \/ pane \in {"segments", "media", "ranges"} /\ status = "downloading"

ReloadKey(v, status) ==
    IF pane \in {"media", "passport", "ranges"} THEN <<v.task, status>> ELSE <<v.task>>

Paged == pane \in {"segments", "events", "requests"}
Gated == pane # "passport"
Visible(v) == Gated => ~v.hidden

(* Fault: the effect does not restart when `poll` changes.                 *)
DependenciesWithoutPoll(v, status) == <<Enabled(v, status), ReloadKey(v, status)>>
Dependencies(v, status) == <<Enabled(v, status), Polls(status), ReloadKey(v, status)>>

(* What an answer may say of the pages that follow.                        *)
PagesOf(t) == IF Paged THEN {NoCursor, [task |-> t]} ELSE {NoCursor}

Shown == paneView.task
Running == \E c \in calls : c.poll /\ c.current

(* The ranges of a row that does not move are fetched once and kept.       *)
Skips(v, status, r) ==
    pane = "ranges" /\ ~Polls(status) /\ r # NoRows /\ r.task = v.task

PaneQuery(t, poll) == [task |-> t, version |-> backTask[t].version, poll |-> poll, current |-> TRUE]

(* start of the effect: a first tick, and the interval if it polls.        *)
Start(v, status, cs, r) ==
    /\ timer' = Polls(status)
    /\ calls' = IF Skips(v, status, r) THEN cs ELSE cs \cup {PaneQuery(v.task, TRUE)}

(***************************************************************************)
(* A render with a new task, tab or status: the panes of another task and  *)
(* those that are not enabled are emptied, but the media pane is only when *)
(* it leaves the screen; and the effect of the pane restarts when one of   *)
(* its dependencies changed.                                               *)
(***************************************************************************)
Rendered(v, status) ==
    LET other == v.task # paneView.task
        emptied == (other /\ pane # "media") \/ ~Enabled(v, status)
        kept == IF emptied THEN NoRows ELSE rows
        restarts == Dependencies(v, status) # Dependencies(paneView, uiStatus[Shown])
        left == {[c EXCEPT !.current = @ /\ ~c.poll] : c \in calls}
    IN  /\ paneView' = v
        /\ rows' = kept
        /\ cursor' = IF other THEN NoCursor ELSE cursor
        /\ appended' = IF kept = NoRows THEN {} ELSE appended
        /\ pollFailed' = (pollFailed /\ ~emptied)
        /\ IF restarts
           THEN IF Enabled(v, status) /\ Visible(v)
                THEN Start(v, status, left, kept)
                ELSE timer' = FALSE /\ calls' = left
           ELSE UNCHANGED <<timer, calls>>

Move == moves < MaxMoves /\ moves' = moves + 1

(* Another task is shown, and its overview: the render in between, of its  *)
(* old tab, leaves nothing but a call that is stale at once.               *)
ShowTask(t) ==
    /\ t # Shown /\ Move
    /\ Rendered([paneView EXCEPT !.task = t, !.tab = "overview"], uiStatus[t])
    /\ UNCHANGED <<pane, backTask, uiStatus>>

ShowTab(tab) ==
    /\ tab # paneView.tab /\ Move
    /\ Rendered([paneView EXCEPT !.tab = tab], uiStatus[Shown])
    /\ UNCHANGED <<pane, backTask, uiStatus>>

(* visibilitychange: stop, or start unless the interval is there.          *)
SetHidden ==
    /\ Move
    /\ paneView' = [paneView EXCEPT !.hidden = ~@]
    /\ IF ~Gated \/ ~Enabled(paneView, uiStatus[Shown]) THEN UNCHANGED <<timer, calls>>
       ELSE IF ~paneView.hidden THEN timer' = FALSE /\ UNCHANGED calls
       ELSE IF timer \/ Running THEN timer' = Polls(uiStatus[Shown]) /\ UNCHANGED calls
       ELSE Start(paneView, uiStatus[Shown], calls, rows)
    /\ UNCHANGED <<pane, backTask, uiStatus, rows, cursor, appended, pollFailed>>

Tick ==
    /\ timer /\ ~Running
    /\ calls' = calls \cup {PaneQuery(Shown, TRUE)}
    /\ UNCHANGED <<pane, paneView, backTask, uiStatus, timer, rows, cursor, appended, pollFailed, moves>>

(***************************************************************************)
(* Answers.                                                                *)
(***************************************************************************)
(* Fault: an answer is shown though its effect is gone.                    *)
AnyTaken(c) == TRUE
Taken(c) == c.current

PollAnswered(c) ==
    /\ c.poll
    /\ calls' = calls \ {c}
    /\ \/ /\ Taken(c)
          /\ \/ /\ rows' = [task |-> c.task, version |-> c.version]
                /\ cursor' \in PagesOf(c.task)
                /\ appended' = {}
                /\ pollFailed' = FALSE
             \/ /\ pollFailed' = TRUE
                /\ rows' = IF pane = "ranges" THEN NoRows ELSE rows
                /\ UNCHANGED <<cursor, appended>>
       \/ ~Taken(c) /\ UNCHANGED <<rows, cursor, appended, pollFailed>>
    /\ UNCHANGED <<pane, paneView, backTask, uiStatus, timer, moves>>

(* The pages behind the first: nothing looks whether the task still is the *)
(* one that is shown.                                                      *)
LoadMore ==
    /\ Paged /\ Enabled(paneView, uiStatus[Shown])
    /\ cursor # NoCursor /\ rows # NoRows
    /\ Move
    /\ calls' = calls \cup {PaneQuery(Shown, FALSE)}
    /\ UNCHANGED <<pane, paneView, backTask, uiStatus, timer, rows, cursor, appended, pollFailed>>

MoreAnswered(c) ==
    /\ ~c.poll
    /\ calls' = calls \ {c}
    /\ appended' = appended \cup {c.task}
    /\ cursor' \in PagesOf(c.task)
    /\ UNCHANGED <<pane, paneView, backTask, uiStatus, timer, rows, pollFailed, moves>>

(***************************************************************************)
(* The back end: the life of a task, with its progress and, once it is     *)
(* completed, its verification; the window learns of a status by an event. *)
(***************************************************************************)
Successors ==
    [queued |-> {"downloading", "paused"}, downloading |-> {"downloading", "paused", "completed"},
     paused |-> {"queued"}, completed |-> {"completed"}]

Advance(t) ==
    /\ t \in Moving /\ backTask[t].version < MaxVersion
    /\ \E status \in Successors[backTask[t].status] :
          LET version == backTask[t].version + 1
          IN  backTask' = [backTask EXCEPT ![t] =
                 [status |-> status, version |-> version,
                  since |-> IF @.status = "downloading" /\ uiStatus[t] = @.status /\ status # @.status
                           THEN version ELSE @.since]]
    /\ UNCHANGED <<pane, paneView, uiStatus, timer, calls, rows, cursor, appended, pollFailed, moves>>

Learn(t) ==
    /\ uiStatus[t] # backTask[t].status
    /\ uiStatus' = [uiStatus EXCEPT ![t] = backTask[t].status]
    /\ IF t = Shown THEN Rendered(paneView, backTask[t].status)
       ELSE UNCHANGED <<paneView, timer, calls, rows, cursor, appended, pollFailed>>
    /\ UNCHANGED <<pane, backTask, moves>>

------------------------------------------------------------------------------
(* A panel that has just been opened on a task.                            *)
PanesInit ==
    /\ pane \in Panes
    /\ paneView \in [task : PaneTasks, tab : {"overview"}, hidden : {FALSE}]
    /\ backTask = [t \in PaneTasks |-> [status |-> "queued", version |-> 1, since |-> 1]]
    /\ uiStatus = [t \in PaneTasks |-> "queued"]
    /\ timer = (Enabled(paneView, "queued") /\ Polls("queued"))
    /\ calls = IF Enabled(paneView, "queued") THEN {PaneQuery(Shown, TRUE)} ELSE {}
    /\ rows = NoRows
    /\ cursor = NoCursor
    /\ appended = {}
    /\ pollFailed = FALSE
    /\ moves = 0

PanesNext ==
    \/ \E t \in PaneTasks : ShowTask(t) \/ Advance(t) \/ Learn(t)
    \/ \E tab \in Tabs : ShowTab(tab)
    \/ SetHidden \/ Tick \/ LoadMore
    \/ \E c \in calls : PollAnswered(c) \/ MoreAnswered(c)

PanesSpec == PanesInit /\ [][PanesNext]_paneVars

------------------------------------------------------------------------------
PanesTypeOK ==
    /\ pane \in Panes
    /\ paneView \in [task : PaneTasks, tab : Tabs, hidden : BOOLEAN]
    /\ timer \in BOOLEAN /\ pollFailed \in BOOLEAN
    /\ appended \subseteq PaneTasks

(* The pane is on screen, nothing is on its way to it, and it waits for no *)
(* interval.                                                               *)
AtRest ==
    /\ Enabled(paneView, uiStatus[Shown]) /\ Visible(paneView)
    /\ uiStatus[Shown] = backTask[Shown].status
    /\ ~Running /\ ~timer /\ ~pollFailed

(* A run that the window did not see the end of, as another began before   *)
(* it learned of a status: the passport then is of the run before, and is  *)
(* fetched again when the window learns that this one ended.               *)
RunGoesOn == pane = "passport" /\ uiStatus[Shown] = "downloading"

(* A pane shows the task that is shown, whatever answers were on their way *)
(* when the task changed; and once it rests, it shows that task as its     *)
(* last run left it or newer, though the poll ended with that run and the  *)
(* end may have come while the window was hidden or another task shown.    *)
(* The media pane shows the old task until the first answer for the new    *)
(* one, and the ranges of a row that stopped are not fetched again.        *)
PaneIsCurrent ==
    /\ rows # NoRows /\ pane # "media" => rows.task = Shown
    /\ AtRest /\ pane # "ranges" =>
          /\ rows # NoRows /\ rows.task = Shown
          /\ RunGoesOn \/ rows.version >= backTask[Shown].since

(***************************************************************************)
(* What comments of the code say, and the code does not do.                *)
(***************************************************************************)
(* TaskDetails.tsx:611: "task identity resets the panel".                  *)
MediaOfShownTask == pane = "media" /\ rows # NoRows => rows.task = Shown

(* use-row-segments.ts:56-57: the ranges of a paused row are fetched "once *)
(* per status change".                                                     *)
PausedRangesAreFetched ==
    AtRest /\ pane = "ranges" => rows # NoRows /\ rows.version >= backTask[Shown].since

(* Pages that were loaded on request are of the task that is shown.        *)
PagesOfShownTask == appended \subseteq {Shown}

(* TaskDetails.tsx:624-626: detail data is fetched anew "when this task's  *)
(* status/metadata changes": a passport at rest shows the verification.    *)
PassportIsFinal ==
    AtRest /\ pane = "passport" => rows.version = backTask[Shown].version
==============================================================================
