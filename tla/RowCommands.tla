------------------------------ MODULE RowCommands ------------------------------
(***************************************************************************)
(* The commands a row of the list offers and what becomes of them: the     *)
(* action gate of src/src/components/tasks/row-recovery.ts, the handlers   *)
(* of src/src/components/shell/AppShell.tsx that send commands, and the    *)
(* commands of the back end that serve them.  A handler decides on the     *)
(* copy of the row that is on screen; the row itself may have moved on,    *)
(* and does so again before the command is served, while it waits for the  *)
(* run of the task to stop, and before its answer comes.                   *)
(*                                                                         *)
(* A row is its status, whether bytes are on disk, whether the source can  *)
(* resume and the stable code of its last error.  Left out: toasts and     *)
(* their actions, the order of the list, which row has the focus, actions  *)
(* that only open a folder or another page.                                *)
(***************************************************************************)
EXTENDS TaskStatus, Naturals, FiniteSets, Sequences, SequencesExt

CONSTANTS
    RowTasks,
    MaxCommands,        \* bound: commands sent
    MaxTurns            \* bound: steps that engines and dispatches take

ASSUME RowCommandsAssumption == IsFiniteSet(RowTasks) /\ MaxCommands \in Nat /\ MaxTurns \in Nat

VARIABLES
    rowOf,              \* rows of the back end, or Deleted
    run,                \* the entry of a task in DownloadMap: "none", "running", or
                        \* "stopping" when its token was cancelled
    copyOf,             \* the copy of each row in the store of the window
    turns, sent,        \* counters for the bounds
    calls,              \* commands that were sent and not answered yet
    attentionRequest,   \* the dialog about a row: its task, copy and action, or NoRequest
    picker              \* the folder picker: the task and copy it is open for, or NoRequest

dialogs == <<attentionRequest, picker>>
windowVars == <<copyOf, sent, dialogs>>
rowCommandVars == <<rowOf, run, copyOf, turns, sent, calls, dialogs>>

Deleted == [status |-> "absent", bytes |-> FALSE, resumes |-> FALSE, code |-> "none"]
NoRequest == [task |-> << >>]

Pausable == {"downloading", "retrying", "queued"}
Stopped == {"paused", "waiting_network"}
Stuck == {"failed", "needs_attention"}

-------------------------------------------------------------------------------
(* Errors: the actions that the back end stores with a code, or that       *)
(* fallbackActionsForCode gives when it stored none.                       *)
(* resume_unavailable stands for temp_file_missing and                     *)
(* temp_file_smaller_than_progress too, which are in the same tables.      *)

RecoveryActionsForCode ==
    [none                 |-> << >>,
     timeout              |-> <<"retry", "check_url">>,
     server_rate_limited  |-> <<"retry_later">>,
     remote_changed       |-> <<"restart", "open_folder">>,
     resume_unavailable   |-> <<"restart", "open_folder">>,
     resume_mismatch      |-> <<"restart", "open_folder">>,
     final_path_conflict  |-> <<"choose_another_name", "choose_another_folder", "retry">>,
     disk_write_failed    |-> <<"free_disk_space", "choose_another_folder", "retry">>,
     auth_headers_expired |-> <<"check_url", "restart">>]

Codes == DOMAIN RecoveryActionsForCode

(* RESTART_REQUIRED_CODES of the window, restart_required_error_code of    *)
(* the back end, NEEDS_ATTENTION_CODES, and the codes that retry alone.    *)
RestartRequiredOfBackEnd == {"remote_changed", "resume_unavailable"}
RestartRequiredCodes == RestartRequiredOfBackEnd \cup {"resume_mismatch"}
NeedsAttentionCodes == {"final_path_conflict", "auth_headers_expired", "remote_changed"}
AutoRetryCodes == {"timeout", "server_rate_limited"}

-------------------------------------------------------------------------------
(* row-recovery.ts                                                         *)

ResumeVerdict(row) ==
    IF row.status \notin Stopped THEN "not_applicable"
    ELSE IF row.code \in RestartRequiredCodes \/ ~row.resumes THEN "restart_required"
    ELSE "available"

PauseWouldDiscardProgress(row) == row.status \in Pausable /\ row.bytes /\ ~row.resumes

(* Fault: the code of a stuck row is not looked at.                        *)
AllowedByStatus(row) ==
    {a \in {"pause", "resume", "retry"} :
        \/ a = "pause" /\ row.status \in Pausable
        \/ a = "resume" /\ ResumeVerdict(row) = "available"
        \/ a = "retry" /\ row.status \in Stuck}
AllowedTransferActions(row) ==
    {a \in {"pause", "resume", "retry"} :
        \/ a = "pause" /\ row.status \in Pausable
        \/ a = "resume" /\ ResumeVerdict(row) = "available"
        \/ /\ a = "retry" /\ row.status \in Stuck
           /\ row.code \notin RestartRequiredCodes \cup {"final_path_conflict"}}

RecoveryActionsForTask(row) == RecoveryActionsForCode[row.code]
InlineRecoveryActions(row) == ToSet(RecoveryActionsForTask(row)) \ {"open_folder"}

HasInlineRecovery(row) ==
    row.status \in Stuck /\ row.code # "none" /\ InlineRecoveryActions(row) # {}

(* The actions that the banner and the menu hand to resolveAttention, of   *)
(* which Mod+R takes the first (primaryRecoveryAction), and those that the *)
(* details panel does: the recovery actions of every error.                *)
InlineOffers(row) ==
    IF HasInlineRecovery(row) THEN InlineRecoveryActions(row) ELSE {}
OfferedByDetails(row) == ToSet(RecoveryActionsForTask(row))

(* Actions that are answered without a command to the task.                *)
Navigating == {"open_folder", "free_disk_space", "check_url"}

-------------------------------------------------------------------------------
(* The back end: which commands are refused, and what the others do        *)

(* retry_task is sent for the retry of a row, resolve_task_attention for   *)
(* that of its banner.                                                     *)
Drains == {"pause", "retry", "restart", "delete"}
Queues == {"resume", "retry", "resolve_retry", "retry_later", "choose_another_name",
           "choose_another_folder"}

(* Refused before anything is stopped.                                     *)
Guarded(row, stopping, command) ==
    \/ row = Deleted /\ command # "delete"
    \/ /\ command = "resume"
       /\ \/ stopping
          \/ row.status \in Stuck \cup {"completed"}
          \/ ~row.resumes \/ row.code \in RestartRequiredOfBackEnd
    \/ command = "retry" /\ row.status \in Stuck /\ row.code \in RestartRequiredOfBackEnd
    \/ /\ command \in {"resolve_retry", "retry_later"}
       /\ row.status = "needs_attention" /\ row.code \in RestartRequiredOfBackEnd
    \/ command = "redownload" /\ row.status # "completed"

(* Refused by the table of transitions, when nothing runs any more.        *)
Illegal(row, command) ==
    \/ command = "pause" /\ "paused" \notin CanTransition[row.status]
    \/ command \in Queues /\ "queued" \notin CanTransition[row.status]

(* The row after a command that was accepted.  A restart deletes what is   *)
(* on disk and probes the source again.                                    *)
After(row, command) ==
    IF command \in {"redownload", "recheck"} THEN {row}
    ELSE IF command = "delete" THEN {Deleted}
    ELSE IF command = "restart"
    THEN {[status |-> "queued", bytes |-> FALSE, resumes |-> r, code |-> "none"] : r \in BOOLEAN}
    ELSE {[row EXCEPT !.status = IF command = "pause" THEN "paused" ELSE "queued", !.code = "none"]}

(* A restart whose probe fails, a name or a folder that is not taken, a    *)
(* copy or a check that fails leave the row; a deletion whose clean-up     *)
(* fails pauses one that would run again.                                  *)
AfterFailure(row, command) ==
    CASE command \in {"restart", "choose_another_name", "choose_another_folder",
                      "redownload", "recheck"} -> {row}
      [] command = "delete" /\ row # Deleted ->
            {IF row.status \in LiveStatuses \cup {"queued", "waiting_network"}
             THEN [row EXCEPT !.status = "paused", !.code = "none"] ELSE row}
      [] OTHER -> {}

-------------------------------------------------------------------------------
(* Engines and the scheduler                                               *)

(* A failure goes to the delayed queue, which keeps its error, to          *)
(* needs_attention or to failed, by its code.                              *)
Fail(row, c) ==
    [row EXCEPT !.code = c,
                !.status = IF c \in AutoRetryCodes THEN "queued"
                           ELSE IF c \in NeedsAttentionCodes THEN "needs_attention" ELSE "failed"]

(* A command that waits for the run to stop holds the lock of the task.    *)
Serving(c) == Len(c.answers) < Len(c.tasks)
TaskOf(c) == c.tasks[Len(c.answers) + 1]
LockedBy(c, t) == Serving(c) /\ c.phase = "draining" /\ TaskOf(c) = t
Unlocked(t) == \A c \in calls : ~LockedBy(c, t)

Live(t) == rowOf[t].status \in LiveStatuses

Moves(t, row, state) ==
    /\ rowOf' = [rowOf EXCEPT ![t] = row]
    /\ run' = [run EXCEPT ![t] = state]
    /\ UNCHANGED <<calls, windowVars>>
Turn == turns < MaxTurns /\ turns' = turns + 1

(* start_task, of a row that waits or that an old page of the queue says   *)
(* to wait, and a start that fails before there is a run.                  *)
StartTask(t) ==
    /\ run[t] = "none" /\ Unlocked(t)
    /\ Turn
    /\ \/ /\ rowOf[t].status \in {"queued", "paused"}
          /\ Moves(t, [rowOf[t] EXCEPT !.status = "downloading", !.code = "none"], "running")
       \/ /\ rowOf[t].status = "queued"
          /\ \E c \in {"none", "auth_headers_expired"} : Moves(t, Fail(rowOf[t], c), "none")

Progresses(t) ==
    /\ Live(t) /\ run[t] # "none"
    /\ Turn
    /\ \E row \in {[rowOf[t] EXCEPT !.bytes = TRUE], [rowOf[t] EXCEPT !.resumes = FALSE]} :
           row # rowOf[t] /\ Moves(t, row, run[t])

(* The outcome of a run.  One that was cancelled may still have completed. *)
Settles(t) ==
    /\ Live(t)
    /\ Turn
    /\ \/ /\ run[t] # "none" /\ rowOf[t].status = "downloading"
          /\ Moves(t, [rowOf[t] EXCEPT !.status = "completed"], run[t])
       \/ /\ run[t] = "running" /\ rowOf[t].status = "downloading"
          /\ Moves(t, [rowOf[t] EXCEPT !.status = "waiting_network"], run[t])
       \/ /\ run[t] = "running"
          /\ \/ \E c \in Codes : Moves(t, Fail(rowOf[t], c), run[t])
             \/ Moves(t, [rowOf[t] EXCEPT !.status = "failed", !.code = "timeout"], run[t])

(* converge_download_outcome: a cancelled run leaves its row paused, then  *)
(* every run leaves the map.                                               *)
ConvergeCanceled(t) ==
    /\ run[t] = "stopping" /\ Live(t)
    /\ Moves(t, [rowOf[t] EXCEPT !.status = "paused", !.code = "none"], "stopping")
    /\ UNCHANGED turns
RunEnds(t) ==
    /\ run[t] # "none" /\ ~Live(t)
    /\ Moves(t, rowOf[t], "none")
    /\ UNCHANGED turns

(* An event brings the row to the window.                                  *)
ReceiveRow(t) ==
    /\ copyOf' = [copyOf EXCEPT ![t] = rowOf[t]]
    /\ UNCHANGED <<rowOf, run, turns, sent, calls, dialogs>>

-------------------------------------------------------------------------------
(* Handlers of the shell                                                   *)

(* A call: its command and tasks, the copies it was sent on, where it came *)
(* from, and what it was answered task by task.  A global one picks its    *)
(* rows in the back end and looks at each again before its turn.           *)
FirstPhase(origin) == IF origin = "global" THEN "listed" ELSE "asked"
Call(command, tasks, seen, origin) ==
    [id |-> sent, command |-> command, tasks |-> tasks, seen |-> seen, origin |-> origin,
     answers |-> << >>, phase |-> FirstPhase(origin)]

Send(command, tasks, seen, origin) ==
    /\ tasks # << >> /\ sent < MaxCommands /\ sent' = sent + 1
    /\ calls' = calls \cup {Call(command, tasks, seen, origin)}
    /\ UNCHANGED <<rowOf, run, copyOf, turns>>
SendOne(command, t) == Send(command, <<t>>, copyOf, "row")

OnScreen == UNCHANGED <<rowOf, run, copyOf, turns, sent, calls>>
OpenedOn(t, a) == [task |-> t, copy |-> copyOf[t], action |-> a]
Ask(t, a) == attentionRequest' = OpenedOn(t, a) /\ OnScreen /\ UNCHANGED picker

NoDialog == attentionRequest = NoRequest /\ picker = NoRequest

(* toggleTransfer                                                          *)
ToggleTransfer(t) ==
    /\ NoDialog
    /\ \E a \in AllowedTransferActions(copyOf[t]) \ {"retry"} :
         IF a = "pause" /\ PauseWouldDiscardProgress(copyOf[t])
         THEN Ask(t, "pause")
         ELSE SendOne(a, t) /\ UNCHANGED dialogs

(* retry; redownload and recheck of a completed row                        *)
Retry(t) ==
    NoDialog /\ "retry" \in AllowedTransferActions(copyOf[t]) /\ SendOne("retry", t)
        /\ UNCHANGED dialogs
OfCompleted(t, command) ==
    NoDialog /\ copyOf[t].status = "completed" /\ SendOne(command, t) /\ UNCHANGED dialogs

(* resolveAttention with an action of the banner, the details panel or     *)
(* Mod+R: a dialog, the folder picker, or the command; navigation is left  *)
(* out.                                                                    *)
CommandOf(a) == IF a = "retry" THEN "resolve_retry" ELSE a
ResolveAttention(t, a) ==
    /\ NoDialog
    /\ a \in InlineOffers(copyOf[t]) \cup OfferedByDetails(copyOf[t])
    /\ \/ a \in {"choose_another_name", "restart"} /\ Ask(t, a)
       \/ /\ a = "choose_another_folder" /\ picker' = OpenedOn(t, a)
          /\ OnScreen /\ UNCHANGED attentionRequest
       \/ a \in {"retry", "retry_later"} /\ SendOne(CommandOf(a), t) /\ UNCHANGED dialogs

(* The dialog and the picker are left with or without consent: what is     *)
(* sent then is about the copy they were opened on.                        *)
Decide(request, consent) ==
    IF consent
    THEN Send(request.action, <<request.task>>, [copyOf EXCEPT ![request.task] = request.copy], "row")
    ELSE OnScreen

LeaveDialog(consent) ==
    /\ attentionRequest # NoRequest /\ attentionRequest' = NoRequest
    /\ Decide(attentionRequest, consent)
    /\ UNCHANGED picker

LeavePicker(chosen) ==
    /\ picker # NoRequest /\ picker' = NoRequest
    /\ Decide(picker, chosen)
    /\ UNCHANGED attentionRequest

(* bulkPause, bulkResume, bulkRetry over the ticked rows that the store    *)
(* still has; a pause that would discard progress is left out.             *)
BulkTransfer(a, ticked) ==
    /\ NoDialog
    /\ \E order \in SetToSeqs({t \in ticked : /\ a \in AllowedTransferActions(copyOf[t])
                                             /\ ~(a = "pause" /\ PauseWouldDiscardProgress(copyOf[t]))}) :
           Send(a, order, copyOf, "bulk")
    /\ UNCHANGED dialogs

(* pauseAll, resumeAll: the back end picks the rows by their status.       *)
Eligible(row, a) ==
    \/ a = "pause" /\ row.status \in Pausable
    \/ a = "resume" /\ row.status \in Stopped
TransferAll(a) ==
    /\ \E order \in SetToSeqs({t \in RowTasks : Eligible(rowOf[t], a)}) :
           Send(a, order, copyOf, "global")
    /\ UNCHANGED dialogs

(* Delete with files, after its own dialog: of one row or of ticked rows.  *)
DeleteFiles(t) == NoDialog /\ copyOf[t] # Deleted /\ SendOne("delete", t) /\ UNCHANGED dialogs
BulkDeleteFiles(ticked) ==
    /\ NoDialog
    /\ \E order \in SetToSeqs({t \in ticked : copyOf[t] # Deleted}) :
           Send("delete", order, copyOf, "bulk")
    /\ UNCHANGED dialogs

-------------------------------------------------------------------------------
(* Commands are served                                                     *)

Answered(c, ok, row) ==
    (calls \ {c}) \cup
        {[c EXCEPT !.answers = Append(@, [ok |-> ok, row |-> row]),
                   !.phase = FirstPhase(c.origin), !.seen[TaskOf(c)] = row]}

(* bulk_task_action_global looks at a row: it is skipped, or its command   *)
(* begins.                                                                 *)
CheckListed(c) ==
    LET row == rowOf[TaskOf(c)]
    IN  /\ Serving(c) /\ c.phase = "listed"
        /\ calls' = IF /\ Eligible(row, c.command)
                       /\ ~(c.command = "pause" /\ PauseWouldDiscardProgress(row))
                    THEN (calls \ {c}) \cup {[c EXCEPT !.phase = "asked", !.seen = rowOf]}
                    ELSE Answered(c, FALSE, row)
        /\ UNCHANGED <<rowOf, run, turns, windowVars>>

(* It is the turn of the command: its task is not locked by another one,   *)
(* and the run of the task has ended where the command stops it.           *)
HasTurn(c) == Serving(c) /\ c.phase # "listed" /\ (Unlocked(TaskOf(c)) \/ LockedBy(c, TaskOf(c)))
Passes(c) ==
    \/ c.phase = "draining"
    \/ ~Guarded(rowOf[TaskOf(c)], run[TaskOf(c)] = "stopping", c.command)
Drained(c) == c.command \in Drains => run[TaskOf(c)] = "none"

(* Refused: by a guard, because the run did not stop in time, or by the    *)
(* table of transitions.                                                   *)
Refuses(c) ==
    \/ ~Passes(c)
    \/ c.phase = "draining" /\ run[TaskOf(c)] = "stopping"
    \/ Drained(c) /\ Illegal(rowOf[TaskOf(c)], c.command)

Refuse(c) ==
    /\ HasTurn(c) /\ Refuses(c)
    /\ calls' = Answered(c, FALSE, rowOf[TaskOf(c)])
    /\ UNCHANGED <<rowOf, run, turns, windowVars>>

(* remove_and_drain_control begins: the token of the run is cancelled.     *)
StopRun(c) ==
    /\ HasTurn(c) /\ Passes(c) /\ c.phase = "asked" /\ ~Drained(c)
    /\ run' = [run EXCEPT ![TaskOf(c)] = "stopping"]
    /\ calls' = (calls \ {c}) \cup {[c EXCEPT !.phase = "draining"]}
    /\ UNCHANGED <<rowOf, turns, windowVars>>

Perform(c) ==
    LET t == TaskOf(c)
    IN  /\ HasTurn(c) /\ Passes(c) /\ Drained(c) /\ ~Illegal(rowOf[t], c.command)
        /\ \E ok \in BOOLEAN :
           \E row \in (IF ok THEN After(rowOf[t], c.command) ELSE AfterFailure(rowOf[t], c.command)) :
                rowOf' = [rowOf EXCEPT ![t] = row] /\ calls' = Answered(c, ok, row)
        /\ UNCHANGED <<run, turns, windowVars>>

(* The answer: the row is taken over, or evicted; a bulk call ends with a  *)
(* refresh of the list or with the eviction of all its rows; an error      *)
(* leaves the copies.                                                      *)
TakeAnswer(c) ==
    LET t == c.tasks[1]
        ok == \A i \in DOMAIN c.answers : c.answers[i].ok
        shows == c.origin = "row" /\ ok /\ c.command \notin {"redownload", "delete"}
        evicts == c.command = "delete" /\ ok
        refreshes == c.origin # "row" /\ c.command # "delete"
    IN  /\ ~Serving(c)
        /\ calls' = calls \ {c}
        /\ copyOf' = [u \in RowTasks |->
                          IF refreshes THEN rowOf[u]
                          ELSE IF evicts /\ u \in ToSet(c.tasks) THEN Deleted
                          ELSE IF shows /\ u = t THEN c.answers[1].row ELSE copyOf[u]]
        /\ UNCHANGED <<rowOf, run, turns, sent, dialogs>>

-------------------------------------------------------------------------------
NewRow(resumes) == [status |-> "queued", bytes |-> FALSE, resumes |-> resumes, code |-> "none"]

RowCommandsInit ==
    /\ rowOf \in [RowTasks -> {NewRow(r) : r \in BOOLEAN}]
    /\ run = [t \in RowTasks |-> "none"]
    /\ copyOf = rowOf
    /\ turns = 0 /\ sent = 0 /\ calls = {}
    /\ attentionRequest = NoRequest /\ picker = NoRequest

RowCommandsNext ==
    \/ \E t \in RowTasks : StartTask(t) \/ Progresses(t) \/ Settles(t) \/ ConvergeCanceled(t) \/ RunEnds(t)
    \/ \E t \in RowTasks : ReceiveRow(t) \/ ToggleTransfer(t) \/ Retry(t) \/ DeleteFiles(t)
    \/ \E t \in RowTasks, command \in {"redownload", "recheck"} : OfCompleted(t, command)
    \/ \E t \in RowTasks : \E c \in Codes : \E a \in ToSet(RecoveryActionsForCode[c]) :
           ResolveAttention(t, a)
    \/ \E yes \in BOOLEAN : LeaveDialog(yes) \/ LeavePicker(yes)
    \/ \E ticked \in (SUBSET RowTasks) :
           BulkDeleteFiles(ticked) \/ \E a \in {"pause", "resume", "retry"} : BulkTransfer(a, ticked)
    \/ \E a \in {"pause", "resume"} : TransferAll(a)
    \/ \E c \in calls : CheckListed(c) \/ Refuse(c) \/ StopRun(c) \/ Perform(c) \/ TakeAnswer(c)

RowCommandsSpec == RowCommandsInit /\ [][RowCommandsNext]_rowCommandVars

-------------------------------------------------------------------------------
(* Properties                                                              *)

(* What the row, its menu, its banner, the keyboard and the bar over       *)
(* ticked rows send for a row that is shown.                               *)
Offers(row) ==
    AllowedTransferActions(row)
        \cup {CommandOf(a) : a \in InlineOffers(row) \ Navigating}
        \cup (IF row.status = "completed" THEN {"redownload", "recheck"} ELSE {})
        \cup (IF row # Deleted THEN {"delete"} ELSE {})

(* A command that the copy on screen offered is refused for two reasons    *)
(* only: the run of its task is still stopping, or the row has become      *)
(* another since that copy, one that does not offer the command any more.  *)
(* So the gate of the window, its table of codes and the guards of the     *)
(* commands agree wherever a command is served, however old the copy, the  *)
(* dialog or the folder picker that it came from, and whatever engines,    *)
(* stops and other commands have made of the row by then.                  *)
RefusalIsExplained ==
    \A c \in calls :
        LET t == TaskOf(c)
        IN  HasTurn(c) /\ c.command \in Offers(c.seen[t]) /\ Refuses(c) =>
                \/ run[t] = "stopping"
                \/ rowOf[t] # c.seen[t] /\ c.command \notin Offers(rowOf[t])

(* row-recovery.ts:52-55, for a copy that is old: what is paused without   *)
(* the dialog loses no progress.                                           *)
DiscardIsConfirmed ==
    \A c \in calls :
        HasTurn(c) /\ c.phase = "asked" /\ c.command = "pause"
            /\ PauseWouldDiscardProgress(rowOf[TaskOf(c)])
        => PauseWouldDiscardProgress(c.seen[TaskOf(c)])

(* A command never finds a row that needs a restart on its way into the    *)
(* queue again: what retry_task refuses, resolve_task_attention does too.  *)
RestartIsRequired ==
    \A c \in calls :
        HasTurn(c) /\ Passes(c) /\ c.command \in Queues /\ ~Illegal(rowOf[TaskOf(c)], c.command)
        => ~(rowOf[TaskOf(c)].status \in Stuck
             /\ rowOf[TaskOf(c)].code \in RestartRequiredOfBackEnd)

(* row-recovery.ts:65, for the details panel: what it offers for a row as  *)
(* it is, is not refused while nothing runs.                               *)
DetailsOfferIsAccepted ==
    \A t \in RowTasks : \A a \in OfferedByDetails(rowOf[t]) \ Navigating :
        /\ ~Guarded(rowOf[t], FALSE, CommandOf(a)) /\ ~Illegal(rowOf[t], CommandOf(a))

(* en.ts:220, row-recovery.ts:101-107: a task that stands still has some   *)
(* way to move again that is offered.                                      *)
NoDeadEnd ==
    \A t \in RowTasks : rowOf[t].status \in Stuck \cup {"paused"} =>
        (AllowedTransferActions(rowOf[t]) \cup InlineOffers(rowOf[t])
            \cup OfferedByDetails(rowOf[t])) \ {"open_folder", "free_disk_space"} # {}
===============================================================================
