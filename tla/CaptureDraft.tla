----------------------------- MODULE CaptureDraft -----------------------------
(***************************************************************************)
(* The browser capture settings of the settings page: a draft that is      *)
(* saved after a pause, with an epoch that drops the answers of older      *)
(* saves (src/src/components/settings/SettingsPage.tsx 1053-1150,          *)
(* src/src/lib/browser-capture-draft.ts).  Every save makes the back end   *)
(* announce a change, upon which the page reads the settings anew          *)
(* (src-tauri/src/commands/browser.rs).                                    *)
(*                                                                         *)
(* A save carries the whole draft, so the draft is one value.  A render    *)
(* and its effect belong to the step that caused them.                     *)
(***************************************************************************)
EXTENDS Naturals, FiniteSets

CONSTANTS
    MaxCaptureEdits,    \* bound: edits of the draft, and changes by others
    CaptureCalls,       \* bound: saves under way at once, by name
    CaptureReads        \* bound: refreshes under way at once, by name

ASSUME CaptureAssumption == MaxCaptureEdits \in Nat

VARIABLES
    draft,              \* browserCaptureDraft
    capture,            \* browserCapture, what the page takes for saved
    captureStored,      \* what the database holds
    captureTimer,
    saves,              \* updates under way
    statusReads,        \* refreshes under way
    integrationChanges, \* browser-integration-changed events not yet delivered
    captureFailed,      \* the newest save failed (a toast said so; history)
    captureEdits

captureVars == <<draft, capture, captureStored, captureTimer, saves, statusReads,
                 integrationChanges, captureFailed, captureEdits>>

(* What can be entered; 2 stands for what the back end normalises to 1.    *)
Enterable == 0 .. 2
NormalCapture(v) == IF v = 2 THEN 1 ELSE v
Unread == 3             \* null, before the first answer

NoSave == [state |-> "none"]
Saves == [snapshot : Enterable, newest : BOOLEAN, state : {"sent", "done", "failed"}]
NoStatusRead == [state |-> "none"]
StatusReads == [state : {"asked", "done", "failed"}, answer : 0 .. 1]

(* The page asks when it is opened.                                        *)
CaptureInit ==
    /\ draft = Unread /\ capture = Unread /\ captureStored = 0
    /\ captureTimer = FALSE /\ captureFailed = FALSE
    /\ saves = [c \in CaptureCalls |-> NoSave]
    /\ statusReads \in {[r \in CaptureReads |-> IF r = first THEN [state |-> "asked", answer |-> 0]
                                                ELSE NoStatusRead] : first \in CaptureReads}
    /\ integrationChanges = 0 /\ captureEdits = 0

CaptureBudget == captureEdits < MaxCaptureEdits /\ captureEdits' = captureEdits + 1

(* patchBrowserCaptureDraft, and the effect that starts the pause anew.    *)
EnterCapture(v) ==
    /\ draft # Unread /\ v # draft /\ CaptureBudget
    /\ draft' = v
    /\ captureTimer' = (v # capture)
    /\ UNCHANGED <<capture, captureStored, saves, statusReads, integrationChanges, captureFailed>>

PersistDraft(c) ==
    /\ captureTimer /\ saves[c] = NoSave
    /\ saves' = [d \in CaptureCalls |->
                    IF d = c THEN [snapshot |-> draft, newest |-> TRUE, state |-> "sent"]
                    ELSE IF saves[d] = NoSave THEN NoSave ELSE [saves[d] EXCEPT !.newest = FALSE]]
    /\ captureTimer' = FALSE /\ captureFailed' = FALSE
    /\ UNCHANGED <<draft, capture, captureStored, statusReads, integrationChanges, captureEdits>>

(* The back end takes the saves in any order.                              *)
StoreCapture(c) ==
    /\ saves[c].state = "sent"
    /\ captureStored' = NormalCapture(saves[c].snapshot)
    /\ saves' = [saves EXCEPT ![c].state = "done"]
    /\ integrationChanges' = integrationChanges + 1
    /\ UNCHANGED <<draft, capture, captureTimer, statusReads, captureFailed, captureEdits>>

(* It refuses one, or fails to clear the headers after it wrote the row.   *)
RefuseCapture(c) ==
    /\ saves[c].state = "sent"
    /\ captureStored' \in {captureStored, NormalCapture(saves[c].snapshot)}
    /\ saves' = [saves EXCEPT ![c].state = "failed"]
    /\ UNCHANGED <<draft, capture, captureTimer, statusReads, integrationChanges, captureFailed,
                   captureEdits>>

(* A browser is connected or disconnected.                                 *)
IntegrationChanges ==
    /\ CaptureBudget
    /\ integrationChanges' = integrationChanges + 1
    /\ UNCHANGED <<draft, capture, captureStored, captureTimer, saves, statusReads, captureFailed>>

(* The popup of the extension stores a setting over the socket, and no     *)
(* event tells the page.                                                   *)
PopupStores(v) ==
    /\ CaptureBudget /\ v # captureStored
    /\ captureStored' = v
    /\ UNCHANGED <<draft, capture, captureTimer, saves, statusReads, integrationChanges,
                   captureFailed>>

(* resolveCaptureDraftAfterSave: a draft edited since is kept.             *)
Resolved(d, submitted, saved) == IF d = submitted THEN saved ELSE d

(* Fault: the effect does not depend on what is saved, only on the draft.  *)
PausesForDraft(d, saved) == captureTimer /\ d = draft
(* The effect after an answer: the pause starts anew unless nothing differs. *)
PausesAfter(d, saved) == d # saved

SaveAnswered(c) ==
    LET q == saves[c]
        answer == NormalCapture(q.snapshot)
    IN  /\ q.state \in {"done", "failed"}
        /\ saves' = [saves EXCEPT ![c] = NoSave]
        /\ IF q.newest /\ q.state = "done"
           THEN /\ capture' = answer
                /\ draft' = Resolved(draft, q.snapshot, answer)
                /\ captureTimer' = PausesAfter(draft', answer)
                /\ UNCHANGED captureFailed
           ELSE /\ captureFailed' = (captureFailed \/ q.newest)
                /\ UNCHANGED <<draft, capture, captureTimer>>
        /\ UNCHANGED <<captureStored, statusReads, integrationChanges, captureEdits>>

(* refreshBrowserIntegration, upon the event.                              *)
IntegrationChanged(r) ==
    /\ integrationChanges > 0 /\ statusReads[r] = NoStatusRead
    /\ integrationChanges' = integrationChanges - 1
    /\ statusReads' = [statusReads EXCEPT ![r] = [state |-> "asked", answer |-> captureStored]]
    /\ UNCHANGED <<draft, capture, captureStored, captureTimer, saves, captureFailed, captureEdits>>

ReadStatus(r) ==
    /\ statusReads[r].state = "asked"
    /\ \E outcome \in {"done", "failed"} :
          statusReads' = [statusReads EXCEPT ![r] = [state |-> outcome, answer |-> captureStored]]
    /\ UNCHANGED <<draft, capture, captureStored, captureTimer, saves, integrationChanges,
                   captureFailed, captureEdits>>

(* The draft becomes what was read, whatever was entered meanwhile.        *)
StatusAnswered(r) ==
    /\ statusReads[r].state \in {"done", "failed"}
    /\ statusReads' = [statusReads EXCEPT ![r] = NoStatusRead]
    /\ IF statusReads[r].state = "done"
       THEN /\ capture' = statusReads[r].answer /\ draft' = statusReads[r].answer
            /\ captureTimer' = FALSE
       ELSE UNCHANGED <<capture, draft, captureTimer>>
    /\ UNCHANGED <<captureStored, saves, integrationChanges, captureFailed, captureEdits>>

CaptureNext ==
    \/ \E v \in Enterable : EnterCapture(v)
    \/ \E c \in CaptureCalls : \/ PersistDraft(c) \/ StoreCapture(c)
                              \/ RefuseCapture(c) \/ SaveAnswered(c)
    \/ IntegrationChanges
    \/ \E v \in 0 .. 1 : PopupStores(v)
    \/ \E r \in CaptureReads : IntegrationChanged(r) \/ ReadStatus(r) \/ StatusAnswered(r)

CaptureSpec == CaptureInit /\ [][CaptureNext]_captureVars

-----------------------------------------------------------------------------
CaptureTypeOK ==
    /\ draft \in Enterable \cup {Unread}
    /\ capture \in {0, 1, Unread} /\ captureStored \in 0 .. 1
    /\ (capture = Unread) = (draft = Unread)
    /\ {captureTimer, captureFailed} \subseteq BOOLEAN
    /\ saves \in [CaptureCalls -> Saves \cup {NoSave}]
    /\ statusReads \in [CaptureReads -> StatusReads \cup {NoStatusRead}]
    /\ {integrationChanges, captureEdits} \subseteq Nat

(***************************************************************************)
(* A draft that differs from what the page takes for saved is on its way:  *)
(* the pause runs, the newest save is under way, or the newest one failed  *)
(* and a toast said so (SettingsPage.tsx 1061-1107).  Edits made while a   *)
(* save is under way are neither dropped by its answer nor left unsaved.   *)
(***************************************************************************)
DraftIsPending ==
    draft # capture =>
        \/ captureTimer \/ captureFailed
        \/ \E c \in CaptureCalls : saves[c] # NoSave /\ saves[c].newest

(***************************************************************************)
(* Not so: an edit is not clobbered (browser-capture-draft.ts:57).  The    *)
(* page's own save makes it read the settings anew, and that answer is     *)
(* copied over the draft (SettingsPage.tsx:1139).                          *)
(***************************************************************************)
NewerEditsSurvive ==
    [][\/ draft' \in {draft, NormalCapture(draft)} \/ draft = capture
       \/ \E v \in Enterable : EnterCapture(v)]_captureVars

(***************************************************************************)
(* Not so: when nothing is under way the page shows what is stored.  Two   *)
(* refreshes may be answered in the other order (SettingsPage.tsx:1132),   *)
(* and what the popup stored is neither announced nor kept by the next     *)
(* save, which carries the whole draft (browser_realtime.rs:419).          *)
(***************************************************************************)
SettledCapture ==
    /\ \A c \in CaptureCalls : saves[c] = NoSave
    /\ \A r \in CaptureReads : statusReads[r] = NoStatusRead
    /\ integrationChanges = 0 /\ ~captureTimer /\ ~captureFailed /\ draft # Unread
    => draft = captureStored
=============================================================================
