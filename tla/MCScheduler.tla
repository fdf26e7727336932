---- MODULE MCScheduler ----
(* Model-checking instance of Scheduler. *)
EXTENDS Scheduler, TLC

\* Tasks and supervisor identities are interchangeable, and so are commands.
Symmetry == Permutations(Tasks) \cup Permutations(Workers) \cup Permutations(Users)

====
