------------------------------- MODULE MCFiles -------------------------------
(***************************************************************************)
(* The transfer of one task and the files of several share no state and    *)
(* are checked in one run: `part` says which of them moves, the other      *)
(* stays in its initial state.                                             *)
(***************************************************************************)
EXTENDS HttpSegments, TaskFiles, TLC

VARIABLE part

partVars == <<part, vars, taskFileVars>>

FileSymmetry == Permutations(FileTasks)

PartsInit == part \in {"transfer", "files"} /\ Init /\ FilesInit

PartsNext ==
    \/ part = "transfer" /\ Next /\ UNCHANGED <<part, taskFileVars>>
    \/ part = "files" /\ FilesNext /\ UNCHANGED <<part, vars>>

PartsSpec == PartsInit /\ [][PartsNext]_partVars
=============================================================================
