---- MODULE MCAppLifecycle ----
(* Model-checking instance of AppLifecycle. *)
EXTENDS AppLifecycle
====
