---- MODULE MCCompletionRound ----
(* CompletionRound for TLC. *)
EXTENDS CompletionRound, TLC
====
