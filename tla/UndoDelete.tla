------------------------------ MODULE UndoDelete ------------------------------
(***************************************************************************)
(* Deleting with undo: softDelete and softDeleteBulk of                    *)
(* src/src/components/shell/AppShell.tsx, the toast stack of               *)
(* src/src/stores/toast-store.ts and its items of                          *)
(* src/src/components/ui/toast.tsx.  A deleted task is only hidden; the    *)
(* hard delete is sent when its undo toast leaves without undo: by its     *)
(* timer, the close button, "clear all", eviction from the full stack or   *)
(* replacement by a toast with the same key.  While a dialog is open, new  *)
(* toasts wait in a second stack.                                          *)
(*                                                                         *)
(* A closure is one call of softDelete or softDeleteBulk: the commit and   *)
(* undo functions that share `settled`.  Toast texts are left out, and so  *)
(* is the part of the stack that is folded away (undo toasts never are).   *)
(***************************************************************************)
EXTENDS Naturals, Sequences, FiniteSets, SequencesExt

CONSTANTS
    UndoTasks,
    StackLimit,         \* TOAST_STACK_LIMIT
    MaxToasts,          \* bound: toasts made
    MaxPointer          \* bound: times the pointer or the focus goes in

ASSUME UndoDeleteAssumption ==
    /\ {StackLimit, MaxToasts, MaxPointer} \subseteq Nat
    /\ StackLimit > 0

VARIABLES
    toasts,             \* the stack on screen, newest first
    deferredToasts,     \* the stack that waits for the last dialog to close
    modalDepth,         \* dialogs that own the focus
    made,               \* toasts made so far
    visits,             \* times the pointer or the focus went in
    closures,           \* closures made so far: ids and how often each was used
    ghosts,             \* closures of items that were unmounted unsettled
    pendingDeleteIds,   \* hidden tasks
    deleteCalls,        \* closures whose hard delete is under way
    rows                \* tasks of the back end

undoVars == <<toasts, deferredToasts, modalDepth, made, visits, closures, ghosts,
              pendingDeleteIds, deleteCalls, rows>>

MaxDialogs == 2     \* bound: dialogs at a time
NoClosure == 0
NoKey == << >>
Stacked(seq) == {seq[i] : i \in 1 .. Len(seq)}
SoftKey(t) == <<"soft-delete", t>>
BulkKey == <<"bulk-soft-delete">>
ResultKey == <<"bulk-delete">>

(* A toast and, while it is on screen, its item: the timers that run, the  *)
(* paused flag, and whether pointer and focus are inside.                  *)
Toast(key, closure) ==
    [key |-> key, closure |-> closure,
     timers |-> 1, paused |-> FALSE, pointer |-> FALSE, focus |-> FALSE]

(* commit of closures `cs`: one that is not settled becomes so and sends   *)
(* its hard delete.  `cls` are the closures there are, `calls` the deletes *)
(* under way before.                                                       *)
CommitAgain(cls, cs, calls) ==        \* Fault: commit does not look at settled.
    /\ closures' = [c \in DOMAIN cls |->
                       IF c \in cs THEN [cls[c] EXCEPT !.commits = @ + 1] ELSE cls[c]]
    /\ deleteCalls' = calls \cup cs
Commit(cls, cs, calls) ==
    LET fresh == {c \in cs : cls[c].commits + cls[c].undone = 0}
    IN  /\ closures' = [c \in DOMAIN cls |->
                           IF c \in fresh THEN [cls[c] EXCEPT !.commits = 1] ELSE cls[c]]
        /\ deleteCalls' = calls \cup fresh

ClosuresOf(seq) == {x.closure : x \in Stacked(seq)} \ {NoClosure}

(* capToasts: what stays, and the closures that are committed on the way.  *)
Kept(seq) == SubSeq(seq, 1, IF Len(seq) < StackLimit THEN Len(seq) ELSE StackLimit)
EvictedSilently(seq) == {}            \* Fault: eviction drops the toast.
Evicted(seq) == ClosuresOf(SubSeq(seq, StackLimit + 1, Len(seq)))

(* The toast with the same business key: one on screen before one that     *)
(* waits.  Its closure is committed before it is replaced.                 *)
SameKey(seq, key) == {x \in Stacked(seq) : x.key = key /\ key # NoKey}
Replaced(key) ==
    LET same == IF SameKey(toasts, key) # {} THEN SameKey(toasts, key)
                ELSE SameKey(deferredToasts, key)
    IN  {x.closure : x \in same} \ {NoClosure}

(* addToast.  A toast that replaces another keeps its item, with its timer *)
(* and what is left of it; errors do not wait for dialogs (`defers`).      *)
AddToast(key, closure, defers, cls, calls) ==
    LET inStack == SameKey(toasts, key) # {}
        inDeferred == ~inStack /\ SameKey(deferredToasts, key) # {}
        waits == defers /\ modalDepth > 0
        replace(seq) == [i \in 1 .. Len(seq) |->
                            IF seq[i].key = key THEN [seq[i] EXCEPT !.closure = closure] ELSE seq[i]]
        push(seq) == <<Toast(key, closure)>> \o seq
    IN  /\ made' = made + 1
        /\ \/ inStack /\ Commit(cls, Replaced(key), calls)
              /\ toasts' = replace(toasts) /\ UNCHANGED <<deferredToasts, ghosts>>
           \/ inDeferred /\ Commit(cls, Replaced(key), calls)
              /\ deferredToasts' = replace(deferredToasts) /\ UNCHANGED <<toasts, ghosts>>
           \/ ~inStack /\ ~inDeferred /\ waits
              /\ Commit(cls, Evicted(push(deferredToasts)), calls)
              /\ deferredToasts' = Kept(push(deferredToasts)) /\ UNCHANGED <<toasts, ghosts>>
           \/ ~inStack /\ ~inDeferred /\ ~waits
              /\ Commit(cls, Evicted(push(toasts)), calls)
              /\ toasts' = Kept(push(toasts))
              /\ ghosts' = ghosts \cup (Evicted(push(toasts)) \cap ClosuresOf(toasts))
              /\ UNCHANGED deferredToasts

MayAdd == made < MaxToasts

-------------------------------------------------------------------------------
(* The shell                                                               *)

(* softDelete, softDeleteBulk: tasks that are hidden already are skipped.  *)
DeleteWithUndo(ids, key) ==
    LET fresh == ids \ pendingDeleteIds
    IN  /\ MayAdd /\ fresh # {}
        /\ pendingDeleteIds' = pendingDeleteIds \cup fresh
        /\ AddToast(key, Len(closures) + 1, TRUE,
                    Append(closures, [ids |-> fresh, bulk |-> key = BulkKey, commits |-> 0, undone |-> 0]), deleteCalls)
        /\ UNCHANGED <<modalDepth, visits, rows>>

SoftDelete(t) == t \in rows /\ DeleteWithUndo({t}, SoftKey(t))
SoftDeleteBulk(ids) == ids \subseteq rows /\ DeleteWithUndo(ids, BulkKey)

(* The hard delete is answered.  The tasks are shown again when it failed, *)
(* and then, and after a bulk delete, another toast is made.               *)
HardDeleteAnswered(c, ok) ==
    LET ids == closures[c].ids
        calls == deleteCalls \ {c}
    IN  /\ c \in deleteCalls
        /\ rows' = IF ok THEN rows \ ids ELSE rows
        /\ pendingDeleteIds' = pendingDeleteIds \ ids
        /\ IF ok /\ ~closures[c].bulk
           THEN /\ deleteCalls' = calls
                /\ UNCHANGED <<toasts, deferredToasts, made, closures, ghosts>>
           ELSE AddToast(IF closures[c].bulk THEN ResultKey ELSE NoKey, NoClosure, ok, closures, calls)
        /\ UNCHANGED <<modalDepth, visits>>

(* Any other message.                                                      *)
Message(defers) ==
    /\ MayAdd
    /\ AddToast(NoKey, NoClosure, defers, closures, deleteCalls)
    /\ UNCHANGED <<modalDepth, visits, pendingDeleteIds, rows>>

(* acquireModalFocus and its release; the last release flushes the stack   *)
(* that waits.                                                             *)
AcquireModalFocus ==
    /\ modalDepth < MaxDialogs /\ modalDepth' = modalDepth + 1
    /\ UNCHANGED <<toasts, deferredToasts, made, visits, closures, ghosts, pendingDeleteIds,
                   deleteCalls, rows>>

ReleaseModalFocus ==
    LET flushed == Reverse(deferredToasts) \o toasts
    IN  /\ modalDepth > 0 /\ modalDepth' = modalDepth - 1
        /\ IF modalDepth = 1
           THEN /\ toasts' = Kept(flushed) /\ deferredToasts' = << >>
                /\ Commit(closures, Evicted(flushed), deleteCalls)
                /\ ghosts' = ghosts \cup (Evicted(flushed) \cap ClosuresOf(toasts))
           ELSE UNCHANGED <<toasts, deferredToasts, closures, deleteCalls, ghosts>>
        /\ UNCHANGED <<made, visits, pendingDeleteIds, rows>>

-------------------------------------------------------------------------------
(* Items of the stack on screen                                            *)

Item(i) == toasts[i]
Gone(i) == toasts' = RemoveAt(toasts, i)
ItemStep == UNCHANGED <<deferredToasts, modalDepth, made, pendingDeleteIds, rows>>

(* settleCommit: by a timer, or by the close button.                       *)
SettleCommit(i) ==
    /\ Commit(closures, {Item(i).closure} \ {NoClosure}, deleteCalls)
    /\ Gone(i)
    /\ UNCHANGED <<visits, ghosts>> /\ ItemStep

TimerFires(i) == i <= Len(toasts) /\ Item(i).timers > 0 /\ SettleCommit(i)
Dismiss(i) == i <= Len(toasts) /\ SettleCommit(i)

(* undo of a closure that is not settled shows its tasks again.            *)
UndoOf(c) ==
    IF c # NoClosure /\ closures[c].commits + closures[c].undone = 0
    THEN /\ closures' = [closures EXCEPT ![c].undone = 1]
         /\ pendingDeleteIds' = pendingDeleteIds \ closures[c].ids
    ELSE UNCHANGED <<closures, pendingDeleteIds>>

SettleUndo(i) ==
    /\ i <= Len(toasts) /\ Item(i).closure # NoClosure
    /\ UndoOf(Item(i).closure) /\ Gone(i)
    /\ UNCHANGED <<deferredToasts, modalDepth, made, visits, ghosts, deleteCalls, rows>>

(* pauseTimer clears the timer it knows of, which is the last one started; *)
(* resumeTimer starts one without asking whether one runs.                 *)
PauseTimer(x) == IF x.paused THEN x ELSE [x EXCEPT !.timers = @ - 1, !.paused = TRUE]
ResumeTimer(x) == [x EXCEPT !.timers = @ + 1, !.paused = FALSE]

Inside(i, place) ==
    /\ i <= Len(toasts) /\ visits < MaxPointer /\ visits' = visits + 1
    /\ ~Item(i)[place]
    /\ toasts' = [toasts EXCEPT ![i] = PauseTimer([@ EXCEPT ![place] = TRUE])]
    /\ UNCHANGED <<closures, ghosts, deleteCalls>> /\ ItemStep

Outside(i, place) ==
    /\ i <= Len(toasts) /\ Item(i)[place]
    /\ toasts' = [toasts EXCEPT ![i] = ResumeTimer([@ EXCEPT ![place] = FALSE])]
    /\ UNCHANGED <<visits, closures, ghosts, deleteCalls>> /\ ItemStep

(* "Clear all".                                                            *)
ClearToasts ==
    /\ Len(toasts) > 1
    /\ toasts' = << >> /\ deferredToasts' = << >>
    /\ Commit(closures, ClosuresOf(toasts \o deferredToasts), deleteCalls)
    /\ ghosts' = ghosts \cup ClosuresOf(toasts)
    /\ UNCHANGED <<modalDepth, made, visits, pendingDeleteIds, rows>>

(* An item that was unmounted without being settled fades out for a while: *)
(* its buttons, or a timer that was not cleared, still reach its closure.  *)
GhostActs(c) ==
    /\ c \in ghosts /\ ghosts' = ghosts \ {c}
    /\ \/ Commit(closures, {c}, deleteCalls) /\ UNCHANGED pendingDeleteIds
       \/ UndoOf(c) /\ UNCHANGED deleteCalls
       \/ UNCHANGED <<closures, deleteCalls, pendingDeleteIds>>
    /\ UNCHANGED <<toasts, deferredToasts, modalDepth, made, visits, rows>>

-------------------------------------------------------------------------------
UndoInit ==
    /\ toasts = << >> /\ deferredToasts = << >> /\ modalDepth = 0
    /\ made = 0 /\ visits = 0
    /\ closures = << >> /\ ghosts = {}
    /\ pendingDeleteIds = {} /\ deleteCalls = {}
    /\ rows = UndoTasks

UndoNext ==
    \/ \E t \in UndoTasks : SoftDelete(t)
    \/ \E ids \in SUBSET UndoTasks : SoftDeleteBulk(ids)
    \/ \E c \in DOMAIN closures : \E ok \in BOOLEAN : HardDeleteAnswered(c, ok)
    \/ \E c \in DOMAIN closures : GhostActs(c)
    \/ \E defers \in BOOLEAN : Message(defers)
    \/ AcquireModalFocus \/ ReleaseModalFocus \/ ClearToasts
    \/ \E i \in 1 .. StackLimit : TimerFires(i) \/ Dismiss(i) \/ SettleUndo(i)
    \/ \E i \in 1 .. StackLimit, place \in {"pointer", "focus"} : Inside(i, place) \/ Outside(i, place)

UndoSpec == UndoInit /\ [][UndoNext]_undoVars

-------------------------------------------------------------------------------
(* Properties                                                              *)

(* A hidden task can always come out of hiding (toast-store.ts:50-54): its *)
(* hard delete is under way, or the toast of an unsettled closure with it  *)
(* is on one of the stacks, whatever was evicted, replaced, cleared,       *)
(* deferred or failed.                                                     *)
PendingHasCommitPath ==
    \A t \in pendingDeleteIds : \E c \in DOMAIN closures :
        /\ t \in closures[c].ids
        /\ \/ c \in deleteCalls
           \/ /\ c \in ClosuresOf(toasts \o deferredToasts)
              /\ closures[c].commits + closures[c].undone = 0

(* Commit or undo, never both and never twice, whichever buttons, timers   *)
(* and evictions race for it (toast.tsx:110).                              *)
SettledOnce == \A c \in DOMAIN closures : closures[c].commits + closures[c].undone <= 1

(* A deletion that may be undone is settled once, and never forgotten.     *)
DeletionIsSettled == PendingHasCommitPath /\ SettledOnce

(* toast-store.ts:36-38: the timer of an undo toast, and with it the       *)
(* commit, is paused while the pointer is over it.                         *)
HoverPausesTimer == \A i \in 1 .. Len(toasts) : toasts[i].pointer => toasts[i].timers = 0
===============================================================================
