----------------------------- MODULE SettingsForm -----------------------------
(***************************************************************************)
(* The settings page that saves by itself                                  *)
(* (src/src/components/settings/SettingsPage.tsx): a copy of the settings  *)
(* store that is edited, a timer that saves what differs, and the other    *)
(* ways into the store: answers, the speed limit of the status bar, the    *)
(* reset to defaults, and the refresh that every change asks for           *)
(* (AppShell.tsx).  update_settings merges a patch into the stored row     *)
(* under one lock (src-tauri/src/commands/settings.rs).                    *)
(*                                                                         *)
(* Behaviours begin when the settings are loaded.  A render and its        *)
(* effects belong to the step that caused them.  Left out: the proxy       *)
(* password, which is sent with a save and never shown, and the wording of *)
(* the save state.                                                         *)
(***************************************************************************)
EXTENDS Naturals, FiniteSets

CONSTANTS
    SettingFields,
    SetElsewhere,       \* the fields that the status bar sets too
    MaxSettingEdits,    \* bound: changes made by the user, anywhere
    SettingCalls,       \* bound: updates under way at once, by name
    SettingReads        \* bound: refreshes under way at once, by name

ASSUME SettingsFormAssumption ==
    /\ SetElsewhere \subseteq SettingFields
    /\ MaxSettingEdits \in Nat

VARIABLES
    pageOpen,
    pageForm,           \* the fields of the page
    settings,           \* the settings store of the window
    settingsRow,        \* the row of the database
    saveTimer,          \* autoSaveTimer is set
    saveError,          \* error of the store
    updates,            \* updates and resets under way
    reads,              \* refreshes under way
    settingsChanges,    \* settings-changed events not yet delivered
    typed,              \* fields edited since the form was copied (history)
    settingEdits

settingsVars == <<pageOpen, pageForm, settings, settingsRow, saveTimer, saveError, updates,
                  reads, settingsChanges, typed, settingEdits>>

(***************************************************************************)
(* What can be typed, and what the back end makes of it: 2 stands for a    *)
(* value that is clamped or trimmed to 1, 0 for the default.               *)
(***************************************************************************)
Typeable == 0 .. 2
Storable == 0 .. 1
NormalSetting(v) == IF v = 2 THEN 1 ELSE v
DefaultSettings == [f \in SettingFields |-> 0]

NoUpdate == [kind |-> "none"]
Patches == UNION {[S -> Typeable] : S \in SUBSET SettingFields}
SettingRows == [SettingFields -> Storable]
Updates == [kind : {"save", "limit", "reset"}, patch : Patches, newest : BOOLEAN,
             own : BOOLEAN, state : {"sent", "done", "failed"}, answer : SettingRows]
NoRead == [state |-> "none"]
Reads == [state : {"asked", "done", "failed"}, answer : SettingRows]

SettingsInit ==
    /\ pageOpen = FALSE
    /\ settings = DefaultSettings /\ settingsRow = DefaultSettings /\ pageForm = DefaultSettings
    /\ saveTimer = FALSE /\ saveError = FALSE
    /\ updates = [c \in SettingCalls |-> NoUpdate]
    /\ reads = [r \in SettingReads |-> NoRead]
    /\ settingsChanges = 0 /\ typed = {} /\ settingEdits = 0

(* The fields that a save sends: those that differ from the store.         *)
Differing == {f \in SettingFields : pageForm[f] # settings[f]}
SettingsPatch == [f \in Differing |-> pageForm[f]]

EditBudget == settingEdits < MaxSettingEdits /\ settingEdits' = settingEdits + 1

(* The effect of the fields: the timer starts anew unless nothing differs. *)
EditField(f, v) ==
    /\ pageOpen /\ EditBudget /\ v # pageForm[f]
    /\ pageForm' = [pageForm EXCEPT ![f] = v]
    /\ typed' = typed \cup {f}
    /\ saveTimer' = (pageForm' # settings)
    /\ UNCHANGED <<pageOpen, settings, settingsRow, saveError, updates, reads, settingsChanges>>

SendUpdate(c, kind, patch, rs) ==
    /\ updates[c] = NoUpdate
    /\ updates' = [rs EXCEPT ![c] = [kind |-> kind, patch |-> patch, newest |-> TRUE,
                                      own |-> kind = "save", state |-> "sent",
                                      answer |-> settingsRow]]

(* ++saveVersion: what this page asked before is no longer the newest.     *)
OutdatedBySave(rs) ==
    [c \in SettingCalls |-> IF rs[c] # NoUpdate /\ rs[c].own
                            THEN [rs[c] EXCEPT !.newest = FALSE] ELSE rs[c]]

SaveSettings(c) ==
    /\ pageOpen /\ saveTimer
    /\ SendUpdate(c, "save", SettingsPatch, OutdatedBySave(updates))
    /\ saveTimer' = FALSE /\ saveError' = FALSE
    /\ UNCHANGED <<pageOpen, pageForm, settings, settingsRow, reads, settingsChanges, typed,
                   settingEdits>>

(* The status bar and the palette.                                         *)
ApplyLimit(c, f, v) ==
    /\ EditBudget /\ f \in SetElsewhere
    /\ SendUpdate(c, "limit", [g \in {f} |-> v], updates)
    /\ UNCHANGED <<pageOpen, pageForm, settings, settingsRow, saveTimer, saveError, reads,
                   settingsChanges, typed>>

ResetDefaults(c) ==
    /\ pageOpen /\ EditBudget
    /\ \A d \in SettingCalls : updates[d].kind # "reset"
    /\ SendUpdate(c, "reset", DefaultSettings, updates)
    /\ UNCHANGED <<pageOpen, pageForm, settings, settingsRow, saveTimer, saveError, reads,
                   settingsChanges, typed>>

(***************************************************************************)
(* The back end takes the updates in any order.  It may refuse one, and    *)
(* it may fail after the row was written and before the event.             *)
(***************************************************************************)
MergedPatch(patch) ==
    [f \in SettingFields |-> IF f \in DOMAIN patch THEN NormalSetting(patch[f]) ELSE settingsRow[f]]

StoreUpdate(c) ==
    /\ updates[c] # NoUpdate /\ updates[c].state = "sent"
    /\ settingsRow' = MergedPatch(updates[c].patch)
    /\ updates' = [updates EXCEPT ![c].state = "done", ![c].answer = settingsRow']
    /\ settingsChanges' = settingsChanges + 1
    /\ UNCHANGED <<pageOpen, pageForm, settings, saveTimer, saveError, reads, typed, settingEdits>>

RefuseUpdate(c) ==
    /\ updates[c] # NoUpdate /\ updates[c].state = "sent"
    /\ settingsRow' \in {settingsRow, MergedPatch(updates[c].patch)}
    /\ updates' = [updates EXCEPT ![c].state = "failed"]
    /\ UNCHANGED <<pageOpen, pageForm, settings, saveTimer, saveError, reads, settingsChanges,
                   typed, settingEdits>>

(* Fault: one field was forgotten in the effect that copies the settings.  *)
CopiedButOne(s) == LET f == CHOOSE g \in SettingFields : TRUE IN [s EXCEPT ![f] = pageForm[f]]
Copied(s) == s

(***************************************************************************)
(* setSettings: the effect of the page copies every field, which also ends *)
(* the timer, whatever was typed.                                          *)
(***************************************************************************)
TakeSettings(s) ==
    /\ settings' = s
    /\ pageForm' = IF pageOpen THEN Copied(s) ELSE s
    /\ typed' = {}
    /\ saveTimer' = (pageOpen /\ pageForm' # s)

(* Fault: the failure of a save is only logged.                            *)
FailureIsLogged(q) == FALSE
FailureIsShown(q) == q.kind = "save" /\ q.newest

UpdateAnswered(c) ==
    LET q == updates[c]
    IN  /\ q # NoUpdate /\ q.state # "sent"
        /\ updates' = [updates EXCEPT ![c] = NoUpdate]
        /\ IF q.state = "done" /\ q.newest
           THEN TakeSettings(q.answer) /\ UNCHANGED saveError
           ELSE /\ saveError' = (saveError \/ FailureIsShown(q))
                /\ UNCHANGED <<settings, pageForm, typed, saveTimer>>
        /\ UNCHANGED <<pageOpen, settingsRow, reads, settingsChanges, settingEdits>>

(* The window learns of a change and reads the settings anew.              *)
ChangeDelivered(r) ==
    /\ settingsChanges > 0 /\ reads[r] = NoRead
    /\ settingsChanges' = settingsChanges - 1
    /\ reads' = [reads EXCEPT ![r] = [state |-> "asked", answer |-> settingsRow]]
    /\ UNCHANGED <<pageOpen, pageForm, settings, settingsRow, saveTimer, saveError, updates,
                   typed, settingEdits>>

GetSettings(r) ==
    /\ reads[r].state = "asked"
    /\ \E outcome \in {"done", "failed"} :
          reads' = [reads EXCEPT ![r] = [state |-> outcome, answer |-> settingsRow]]
    /\ UNCHANGED <<pageOpen, pageForm, settings, settingsRow, saveTimer, saveError, updates,
                   settingsChanges, typed, settingEdits>>

Refreshed(r) ==
    /\ reads[r].state \in {"done", "failed"}
    /\ reads' = [reads EXCEPT ![r] = NoRead]
    /\ saveError' = (reads[r].state = "failed")
    /\ IF reads[r].state = "done"
       THEN TakeSettings(reads[r].answer)
       ELSE UNCHANGED <<settings, pageForm, typed, saveTimer>>
    /\ UNCHANGED <<pageOpen, settingsRow, updates, settingsChanges, settingEdits>>

OpenPage ==
    /\ ~pageOpen /\ pageOpen' = TRUE
    /\ pageForm' = settings
    /\ UNCHANGED <<settings, settingsRow, saveTimer, saveError, updates, reads, settingsChanges,
                   typed, settingEdits>>

(* Leaving the page ends its timer and with it what was not yet sent.      *)
ClosePage ==
    /\ pageOpen /\ pageOpen' = FALSE
    /\ pageForm' = settings /\ typed' = {} /\ saveTimer' = FALSE
    /\ updates' = [c \in SettingCalls |-> IF updates[c] = NoUpdate THEN NoUpdate
                                           ELSE [updates[c] EXCEPT !.own = FALSE]]
    /\ UNCHANGED <<settings, settingsRow, saveError, reads, settingsChanges, settingEdits>>

SettingsNext ==
    \/ \E f \in SettingFields, v \in Typeable : EditField(f, v)
    \/ \E c \in SettingCalls : \/ SaveSettings(c) \/ ResetDefaults(c) \/ StoreUpdate(c)
                               \/ RefuseUpdate(c)
                               \/ UpdateAnswered(c)
                               \/ \E f \in SetElsewhere, v \in Storable : ApplyLimit(c, f, v)
    \/ \E r \in SettingReads : ChangeDelivered(r) \/ GetSettings(r) \/ Refreshed(r)
    \/ OpenPage \/ ClosePage

SettingsSpec == SettingsInit /\ [][SettingsNext]_settingsVars

-----------------------------------------------------------------------------
SettingsTypeOK ==
    /\ {pageOpen, saveTimer, saveError} \subseteq BOOLEAN
    /\ pageForm \in [SettingFields -> Typeable]
    /\ settings \in SettingRows /\ settingsRow \in SettingRows
    /\ updates \in [SettingCalls -> Updates \cup {NoUpdate}]
    /\ reads \in [SettingReads -> Reads \cup {NoRead}]
    /\ typed \subseteq SettingFields /\ {settingsChanges, settingEdits} \subseteq Nat

(***************************************************************************)
(* What the page shows and the store does not have is on its way: the      *)
(* timer runs, the newest save is under way, or the page shows an error.   *)
(* Answers that are dropped, timers that are cleared and pages that are    *)
(* left must not strand an edit (SettingsPage.tsx 664-876).                *)
(***************************************************************************)
UnsavedIsPending ==
    pageOpen /\ pageForm # settings =>
        \/ saveTimer \/ saveError
        \/ \E c \in SettingCalls : updates[c].kind = "save" /\ updates[c].own /\ updates[c].newest

(***************************************************************************)
(* The page saves only what was typed into it: a field that differs from   *)
(* the store was edited here since the store was copied, so a change made  *)
(* elsewhere is never taken back by a save (SettingsPage.tsx 618-661).     *)
(***************************************************************************)
OnlyEditsAreSent == Differing \subseteq typed

(* Saving by itself neither forgets an edit nor invents one.               *)
AutosaveIsSound == UnsavedIsPending /\ OnlyEditsAreSent

(***************************************************************************)
(* Not so: what was typed stays until it is stored.  An answer or a        *)
(* refresh copies the store over it (SettingsPage.tsx:618).                *)
(***************************************************************************)
TypedIsKept ==
    [][\A f \in typed : \/ pageForm'[f] \in {pageForm[f], NormalSetting(pageForm[f])} \/ ~pageOpen'
                        \/ \E v \in Typeable : EditField(f, v)]_settingsVars

(***************************************************************************)
(* Not so: when nothing is under way the window shows what is stored.  Two *)
(* refreshes may be answered in the other order, and an update that fails  *)
(* after the row was written tells nobody (AppShell.tsx:1142).             *)
(***************************************************************************)
SettledSettings ==
    /\ \A c \in SettingCalls : updates[c] = NoUpdate
    /\ \A r \in SettingReads : reads[r] = NoRead
    /\ settingsChanges = 0
    => settings = settingsRow
=============================================================================
