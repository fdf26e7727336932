----------------------------- MODULE NewestAnswer -----------------------------
(***************************************************************************)
(* What a list that is filled by asynchronous queries promises: questions  *)
(* are numbered as they are asked, the answer on screen is that of one of  *)
(* them, and an answer is put on screen only while no newer question has   *)
(* been asked.  ListQuery implements it.                                   *)
(***************************************************************************)
EXTENDS Naturals

VARIABLES
    asked,      \* number of the newest question
    shown       \* number of the question whose answer is on screen

vars == <<asked, shown>>

Init == asked \in Nat /\ shown = 0

(* Questions are asked, or the answer to the newest one is put on screen;  *)
(* the handler of an answer may ask again before it returns.               *)
Next ==
    /\ asked' \in Nat
    /\ asked' >= asked
    /\ shown' \in {shown, asked}

Spec == Init /\ [][Next]_vars
===============================================================================
