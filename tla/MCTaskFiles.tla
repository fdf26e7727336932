---- MODULE MCTaskFiles ----
(* Model-checking instance of TaskFiles. *)
EXTENDS TaskFiles, TLC

FileSymmetry == Permutations(FileTasks)
====
