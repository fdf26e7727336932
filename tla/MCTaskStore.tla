---------------------------- MODULE MCTaskStore ----------------------------
EXTENDS TaskStore

(* The list at the start: one row that waits and one that runs.  Which     *)
(* task is which makes no difference.                                      *)
First == CHOOSE t \in Tasks : TRUE
TwoRows == {<<Row(First, "queued"), Row(t, "downloading")>> : t \in Tasks \ {First}}
=============================================================================
