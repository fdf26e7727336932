------------------------------ MODULE MCDialogs ------------------------------
(***************************************************************************)
(* What asks for answers and may get them late: the browser handoff, the   *)
(* dialog of new downloads, the panes of the details and the query of the  *)
(* list.  They share no state and are checked in one run: `part` says      *)
(* which of them moves, the others stay in one initial state.              *)
(***************************************************************************)
EXTENDS BrowserHandoff, NewDownload, DetailPanes, ListQuery

VARIABLE part

dialogsVars == <<part, handoffVars, dialogVars, paneVars, listVars>>

Parts == {"handoff", "dialog", "panes", "list"}

(* A part that does not move starts in one of its initial states only.     *)
Parked ==
    /\ part # "handoff" => ~bridge
    /\ part # "panes" => pane = (CHOOSE p \in Panes : TRUE) /\ Shown = (CHOOSE t \in PaneTasks : TRUE)
    /\ part # "list" => nav = (CHOOSE n \in Navs : TRUE) /\ search = (CHOOSE s \in Searches : TRUE)

Init == part \in Parts /\ HandoffInit /\ DialogInit /\ PanesInit /\ ListInit /\ Parked

InHandoff(step) == part = "handoff" /\ step /\ UNCHANGED <<part, dialogVars, paneVars, listVars>>
InList(step) == part = "list" /\ step /\ UNCHANGED <<part, handoffVars, dialogVars, paneVars>>

DialogStep == part = "dialog" /\ DialogNext /\ UNCHANGED <<part, handoffVars, paneVars, listVars>>
PaneStep == part = "panes" /\ PanesNext /\ UNCHANGED <<part, handoffVars, dialogVars, listVars>>
HandoffStep == InHandoff(HandoffNext)
ListStep == InList(ListNext)

Next == HandoffStep \/ DialogStep \/ PaneStep \/ ListStep

(* HandoffFairness and ListFairness, each of the part that moves.          *)
Fairness ==
    /\ \A h \in Handoffs : /\ WF_dialogsVars(InHandoff(HostAnswers(h)))
                           /\ WF_dialogsVars(InHandoff(RequestTimesOut(h)))
    /\ \A a \in Actors : WF_dialogsVars(InHandoff(BootstrapAnswered(a) \/ BootstrapFails(a)))
    /\ \A s \in Sockets : WF_dialogsVars(
          InHandoff(sockets[s].state = "connecting" /\ (SocketOpens(s) \/ SocketCloses(s))))
    /\ \A from \in Senders : WF_dialogsVars(InList(AnswerOf(from)))

Spec == Init /\ [][Next]_dialogsVars /\ Fairness
=============================================================================
