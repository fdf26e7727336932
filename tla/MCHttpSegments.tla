---- MODULE MCHttpSegments ----
(* Model-checking instance of HttpSegments. *)
EXTENDS HttpSegments
====
