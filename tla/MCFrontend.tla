------------------------------ MODULE MCFrontend ------------------------------
(***************************************************************************)
(* The parts of the window that share no state are checked in one run:     *)
(* `part` says which one moves, the others stay in one initial state.      *)
(***************************************************************************)
EXTENDS TaskStore, UndoDelete, RowCommands, PreviewBackend, SettingsForm, CaptureDraft

(* The list at the start: one row that waits and one that runs.  Which     *)
(* task is which makes no difference.                                      *)
First == CHOOSE t \in Tasks : TRUE
TwoRows == {<<Row(First, "queued"), Row(t, "downloading")>> : t \in Tasks \ {First}}

VARIABLE part

shownVars == <<storeVars, undoVars, rowCommandVars, previewVars>>
pageVars == <<settingsVars, captureVars>>
frontendVars == <<part, shownVars, pageVars>>

Parts == {"store", "undo", "rows", "preview", "settings", "capture"}

(* A part that does not move starts in one of its initial states only.     *)
Parked ==
    /\ part # "store" => /\ shownNav = (CHOOSE n \in StoreNavs : TRUE)
    /\ part # "rows" => \A t \in RowTasks : rowOf[t].resumes
    /\ part # "capture" => statusReads[CHOOSE r \in CaptureReads : TRUE].state = "asked"

Init ==
    /\ part \in Parts
    /\ StoreInit /\ UndoInit /\ RowCommandsInit /\ PreviewInit
    /\ SettingsInit /\ CaptureInit
    /\ Parked

StoreStep == part = "store" /\ StoreNext /\ UNCHANGED <<part, undoVars, rowCommandVars, previewVars, pageVars>>
UndoStep == part = "undo" /\ UndoNext /\ UNCHANGED <<part, storeVars, rowCommandVars, previewVars, pageVars>>
RowStep == part = "rows" /\ RowCommandsNext /\ UNCHANGED <<part, storeVars, undoVars, previewVars, pageVars>>
PreviewStep == part = "preview" /\ PreviewNext /\ UNCHANGED <<part, storeVars, undoVars, rowCommandVars, pageVars>>
SettingsStep == part = "settings" /\ SettingsNext /\ UNCHANGED <<part, shownVars, captureVars>>
CaptureStep == part = "capture" /\ CaptureNext /\ UNCHANGED <<part, shownVars, settingsVars>>

Next ==
    \/ StoreStep \/ UndoStep \/ RowStep \/ PreviewStep
    \/ SettingsStep \/ CaptureStep

Spec == Init /\ [][Next]_frontendVars
===============================================================================
