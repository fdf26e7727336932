---- MODULE MCScheduleWindow ----
(* Model-checking instance of ScheduleWindow.                              *)
EXTENDS ScheduleWindow
====
