---------------------------- MODULE BrowserHandoff ----------------------------
(***************************************************************************)
(* The handoff of a browser download to the application: the service       *)
(* worker of the extension (browser/extension-core/src/background.js), the *)
(* websocket bridge and the native messaging host it talks to, and the     *)
(* application's side of both (browser_realtime.rs, commands/browser.rs).  *)
(*                                                                         *)
(* A handoff is one call of sendDownloadUrl; those of `Captured` come from *)
(* handleBrowserDownload and own a browser download that was paused, the   *)
(* others from the menu or the popup.  The worker runs one event at a      *)
(* time: an action is an event and what runs until the next await that     *)
(* waits for the outside.  The keeper is the ensureBridge of the start of  *)
(* the worker and of the reconnect timer.                                  *)
(*                                                                         *)
(* Left out: that the browser stops the worker while a handoff runs, or    *)
(* refuses to pause; tokens, headers, the list of recent handoffs, task    *)
(* snapshots, capture settings and their requests, which share pendingWs.  *)
(***************************************************************************)
EXTENDS Naturals, Sequences, SequencesExt

CONSTANTS
    Handoffs,               \* calls of sendDownloadUrl
    Captured,               \* those of them that own a paused browser download
    MaxSockets              \* bound: sockets that the worker opens

ASSUME HandoffAssumption ==
    /\ Captured \subseteq Handoffs
    /\ MaxSockets \in Nat \ {0}

VARIABLES
    pc,                     \* where each handoff and the keeper waits
    download,               \* the browser download of each captured handoff
    bridge,                 \* whether the worker holds an address and a token
    ws,                     \* the socket of the module variable ws, 0 for null
    sockets,                \* every socket: its state, owner and both directions
    pendingWs,              \* requests without an answer, in the order of the Map
    reconnectTimer,
    messages,               \* browser_messages: status of every request id
    created,                \* tasks that the application created for a handoff
    files,                  \* handoff files, by handoff and request id
    asked                   \* handoffs that the user has to authorize (history)

workerVars == <<pc, download, bridge, ws, sockets, pendingWs, reconnectTimer>>
appVars == <<messages, created, files, asked>>
handoffVars == <<workerVars, appVars>>

Keeper == "keeper"
Actors == Handoffs \cup {Keeper}
Sockets == 1 .. MaxSockets
Unused == [state |-> "unused", owner |-> Keeper, inbox |-> << >>, outbox |-> << >>]
Waiting == {"bootstrap", "socket", "ws", "native"}

(* The request id: made once with the payload, whichever way it goes.      *)
RequestIdOfWay(h, way) == <<h, way>>    \* Fault: every way makes its own.
RequestId(h, way) == <<h, "payload">>
RequestIds == Handoffs \X {"payload", "ws", "file"}

HandoffTypeOK ==
    /\ pc \in [Actors -> Waiting \cup {"idle", "done"}]
    /\ download \in [Handoffs -> {"running", "paused", "cancelled"}]
    /\ bridge \in BOOLEAN /\ ws \in 0 .. MaxSockets /\ reconnectTimer \in BOOLEAN
    /\ \A s \in Sockets : sockets[s].state \in {"unused", "connecting", "open", "closed"}
    /\ messages \in [RequestIds -> {"none", "received", "failed"}]
    /\ created \in [Handoffs -> Nat] /\ files \subseteq Handoffs

(* The worker starts with or without a bridge of its earlier session, and  *)
(* asks for a connection at once.                                          *)
HandoffInit ==
    /\ bridge \in BOOLEAN
    /\ pc = [a \in Actors |-> IF a # Keeper THEN "idle" ELSE IF bridge THEN "socket" ELSE "bootstrap"]
    /\ sockets = [s \in Sockets |-> IF bridge /\ s = 1 THEN [Unused EXCEPT !.state = "connecting"] ELSE Unused]
    /\ ws = IF bridge THEN 1 ELSE 0
    /\ download = [h \in Handoffs |-> "running"]
    /\ pendingWs = << >> /\ reconnectTimer = FALSE
    /\ messages = [r \in RequestIds |-> "none"] /\ created = [h \in Handoffs |-> 0]
    /\ files = {} /\ asked = {}

-------------------------------------------------------------------------------
(* Connecting                                                              *)

WsOpen(table) == ws # 0 /\ table[ws].state = "open"

Fresh == {s \in Sockets : sockets[s].state = "unused"}

(* connectWs: a new socket takes the place of the old one in ws, whatever  *)
(* that one is doing.                                                      *)
ConnectWs(a) ==
    \E s \in Fresh :
        /\ \A t \in Fresh : s <= t
        /\ sockets' = [sockets EXCEPT ![s].state = "connecting", ![s].owner = a]
        /\ ws' = s
        /\ pc' = [pc EXCEPT ![a] = "socket"]

(* The second half of sendDownloadUrl: through the socket in ws when that  *)
(* one is open, else through the native host.  `table` is the sockets at    *)
(* this moment.                                                            *)
Send(h, table) ==
    IF WsOpen(table)
    THEN /\ sockets' = [table EXCEPT ![ws].inbox = Append(@, h)]
         /\ pendingWs' = Append(pendingWs, h)
         /\ pc' = [pc EXCEPT ![h] = "ws"]
    ELSE /\ sockets' = table /\ UNCHANGED pendingWs
         /\ pc' = [pc EXCEPT ![h] = "native"]

(* ensureBridge, when the socket is not open.                              *)
EnsureBridge(a) ==
    IF bridge
    THEN ConnectWs(a)
    ELSE pc' = [pc EXCEPT ![a] = "bootstrap"] /\ UNCHANGED <<sockets, ws>>

(* A captured download is paused and handed over; a manual handoff pauses  *)
(* nothing.                                                                *)
StartHandoff(h) ==
    /\ pc[h] = "idle"
    /\ download' = [download EXCEPT ![h] = IF h \in Captured THEN "paused" ELSE @]
    /\ IF WsOpen(sockets)
       THEN Send(h, sockets) /\ UNCHANGED ws
       ELSE EnsureBridge(h) /\ UNCHANGED pendingWs
    /\ UNCHANGED <<bridge, reconnectTimer, appVars>>

(* The answer of the host to bootstrap.                                    *)
BootstrapAnswered(a) ==
    /\ pc[a] = "bootstrap"
    /\ bridge' = TRUE /\ ConnectWs(a)
    /\ UNCHANGED <<download, pendingWs, reconnectTimer, appVars>>

(* The host has no bridge to offer: the keeper gives up, a handoff goes    *)
(* through the host all the same.                                          *)
BootstrapFails(a) ==
    /\ pc[a] = "bootstrap"
    /\ pc' = [pc EXCEPT ![a] = IF a = Keeper THEN "idle" ELSE "native"]
    /\ UNCHANGED <<download, bridge, ws, sockets, pendingWs, reconnectTimer, appVars>>

(* A socket opens and its owner goes on, through the socket that ws names  *)
(* now.                                                                    *)
SocketOpens(s) ==
    /\ sockets[s].state = "connecting"
    /\ LET opened == [sockets EXCEPT ![s].state = "open"]
           a == sockets[s].owner
       IN  IF a = Keeper
           THEN sockets' = opened /\ pc' = [pc EXCEPT ![a] = "idle"] /\ UNCHANGED pendingWs
           ELSE Send(a, opened)
    /\ UNCHANGED <<download, bridge, ws, reconnectTimer, appVars>>

(* What becomes of the owner of a socket that closes: connectWs rejects.   *)
OwnerForgotten(s) == {}     \* Fault: a failed connection is never reported.
OwnerRejected(s) == IF sockets[s].state = "connecting" THEN {sockets[s].owner} ELSE {}

(* A socket closes, or fails to open, which ends in close too.  ws and     *)
(* bridge are cleared and all requests rejected, whichever socket it was.  *)
SocketCloses(s) ==
    /\ sockets[s].state \in {"connecting", "open"}
    /\ LET rejected == OwnerRejected(s) \cup {h \in Handoffs : pc[h] = "ws"}
       IN  pc' = [a \in Actors |-> IF a \notin rejected THEN pc[a]
                                  ELSE IF a = Keeper THEN "idle" ELSE "native"]
    /\ sockets' = [sockets EXCEPT ![s].state = "closed", ![s].outbox = << >>]
    /\ ws' = 0 /\ bridge' = FALSE /\ pendingWs' = << >> /\ reconnectTimer' = TRUE
    /\ UNCHANGED <<download, appVars>>

ReconnectTimerFires ==
    /\ reconnectTimer /\ pc[Keeper] = "idle"
    /\ reconnectTimer' = FALSE
    /\ IF WsOpen(sockets) THEN UNCHANGED <<pc, sockets, ws>> ELSE EnsureBridge(Keeper)
    /\ UNCHANGED <<download, bridge, pendingWs, appVars>>

-------------------------------------------------------------------------------
(* Answers                                                                 *)

(* The end of handleBrowserDownload.  The browser may refuse to cancel,    *)
(* then the download is resumed; that it refuses that as well is left out. *)
ReleaseAlways(h, status) == {"cancelled"}   \* Fault: a refusal cancels too.
Release(h, status) ==
    IF status \in {"authorization_required", "failed"} THEN {"running"} ELSE {"cancelled", "running"}

Finish(h, status) ==
    /\ pc' = [pc EXCEPT ![h] = "done"]
    /\ IF h \in Captured THEN \E d \in Release(h, status) : download' = [download EXCEPT ![h] = d]
       ELSE UNCHANGED download

ToHost(h) ==
    /\ pc' = [pc EXCEPT ![h] = "native"]
    /\ UNCHANGED download

(* The application handles a request with id r for handoff h: a known id   *)
(* is a duplicate, or breaks the primary key when it was looked up before  *)
(* the other call recorded it; a private target waits for the user; the    *)
(* others are recorded, and fail, are created, or break after they were    *)
(* recorded.                                                               *)
Outcomes(r) == IF messages[r] # "none" THEN {"duplicate", "error"}
               ELSE {"authorization_required", "failed", "received", "error"}

Record(h, r, outcome) ==
    /\ messages' = IF messages[r] = "none" /\ outcome \in {"failed", "received", "error"}
                   THEN [messages EXCEPT ![r] = IF outcome = "failed" THEN "failed" ELSE "received"]
                   ELSE messages
    /\ created' = IF outcome = "received" THEN [created EXCEPT ![h] = @ + 1] ELSE created
    /\ asked' = IF outcome = "authorization_required" THEN asked \cup {h} ELSE asked

(* handle_socket serves the requests of one socket in their order; a       *)
(* create request is first measured against the quota.  What the socket    *)
(* received before it closed is still served.                              *)
ServeRequest(s) ==
    /\ sockets[s].inbox # << >>
    /\ LET id == Head(sockets[s].inbox)
           answer(status) == IF sockets[s].state = "open"
                             THEN Append(sockets[s].outbox, [id |-> id, status |-> status])
                             ELSE << >>
           served(status) == sockets' = [sockets EXCEPT ![s].inbox = Tail(@), ![s].outbox = answer(status)]
       IN  \/ served("limited") /\ UNCHANGED appVars
           \/ /\ \E o \in Outcomes(RequestId(id, "ws")) :
                   served(o) /\ Record(id, RequestId(id, "ws"), o)
              /\ UNCHANGED files
    /\ UNCHANGED <<pc, download, bridge, ws, pendingWs, reconnectTimer>>

(* handleWsMessage.  A result settles the request it names; an error names *)
(* none and settles the oldest request that waits.                         *)
ReceiveMessage(s) ==
    /\ sockets[s].outbox # << >>
    /\ LET m == Head(sockets[s].outbox)
           isError == m.status \in {"limited", "error"}
           id == IF isError /\ pendingWs # << >> THEN Head(pendingWs) ELSE m.id
       IN  /\ sockets' = [sockets EXCEPT ![s].outbox = Tail(@)]
           /\ pendingWs' = SelectSeq(pendingWs, LAMBDA p : p # id)
           /\ IF ~Contains(pendingWs, id) THEN UNCHANGED <<pc, download>>
              ELSE IF m.status = "error" THEN ToHost(id)
              ELSE Finish(id, IF m.status = "limited" THEN "failed" ELSE m.status)
    /\ UNCHANGED <<bridge, ws, reconnectTimer, appVars>>

(* The timer of sendWsRequest: a handoff falls back to the host although   *)
(* the application may still serve the request.                            *)
RequestTimesOut(h) ==
    /\ Contains(pendingWs, h)
    /\ pendingWs' = SelectSeq(pendingWs, LAMBDA p : p # h)
    /\ ToHost(h)
    /\ UNCHANGED <<bridge, ws, sockets, reconnectTimer, appVars>>

(* The host writes the handoff file and answers "accepted", refuses, or    *)
(* dies between the two.                                                   *)
HostAnswers(h) ==
    /\ pc[h] = "native"
    /\ \E wrote, accepted \in BOOLEAN :
        /\ accepted => wrote
        /\ files' = IF wrote THEN files \cup {h} ELSE files
        /\ Finish(h, IF accepted THEN "accepted" ELSE "failed")
    /\ UNCHANGED <<bridge, ws, sockets, pendingWs, reconnectTimer, messages, created, asked>>

(* process_browser_handoff_paths: the file goes unless the call failed.    *)
ReplayFile(h) ==
    /\ h \in files
    /\ \E o \in Outcomes(RequestId(h, "file")) :
        /\ Record(h, RequestId(h, "file"), o)
        /\ files' = IF o = "error" THEN files ELSE files \ {h}
    /\ UNCHANGED <<workerVars>>

HandoffNext ==
    \/ \E h \in Handoffs : StartHandoff(h) \/ HostAnswers(h) \/ ReplayFile(h) \/ RequestTimesOut(h)
    \/ \E a \in Actors : BootstrapAnswered(a) \/ BootstrapFails(a)
    \/ \E s \in Sockets : SocketOpens(s) \/ SocketCloses(s) \/ ServeRequest(s) \/ ReceiveMessage(s)
    \/ ReconnectTimerFires

(* The host answers or its process ends, a connection opens or fails, a    *)
(* timer of the worker fires.  The application owes no answer.             *)
HandoffFairness ==
    /\ \A h \in Handoffs : WF_handoffVars(HostAnswers(h)) /\ WF_handoffVars(RequestTimesOut(h))
    /\ \A a \in Actors : WF_handoffVars(BootstrapAnswered(a) \/ BootstrapFails(a))
    /\ \A s \in Sockets : WF_handoffVars(sockets[s].state = "connecting" /\ (SocketOpens(s) \/ SocketCloses(s)))

HandoffSpec == HandoffInit /\ [][HandoffNext]_handoffVars /\ HandoffFairness

-------------------------------------------------------------------------------
(* A download is cancelled in the browser only when the host or the        *)
(* application took its request: into a file, the table, or to the user.   *)
(* Refused, unanswered and misdirected requests leave it to the browser.   *)
CancelledWasTaken ==
    \A h \in Captured : download[h] = "cancelled" =>
        h \in files \cup asked \/ \E r \in RequestIds : r[1] = h /\ messages[r] # "none"

(* A request that goes both ways, because its answer was late, lost or     *)
(* taken for the answer of another, makes one task.                        *)
OneTaskPerRequest == \A h \in Handoffs : created[h] <= 1

(* A captured download ends in one place: it is neither cancelled without  *)
(* a taker nor made twice, whichever way its request went.                 *)
HandoffIsSafe == CancelledWasTaken /\ OneTaskPerRequest

(* Every handoff ends, and with it the pause of its browser download: no   *)
(* failed connection, lost answer or replaced socket leaves it waiting.    *)
HandoffSettles == \A h \in Handoffs : pc[h] \in Waiting ~> pc[h] = "done"

(* What docs/optimization-plan-2026-09-29.md:218 says: a download that the  *)
(* user has to authorize is not cancelled in the browser before that.      *)
KeptUntilAuthorized == \A h \in Captured : h \in asked => download[h] # "cancelled"
===============================================================================
