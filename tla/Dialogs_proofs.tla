---------------------------- MODULE Dialogs_proofs ----------------------------
(***************************************************************************)
(* Proofs about what the window shows of answers that it waits for, for    *)
(* every number of handoffs, sockets, links, calls, edits and versions:    *)
(* BrowserHandoff cancels no download that the application does not have,  *)
(* NewDownload shows the answer to what stands in the form and loses no    *)
(* task that it made, and a pane of DetailPanes at rest shows what the     *)
(* last run of its task left.                                              *)
(***************************************************************************)
EXTENDS BrowserHandoff, NewDownload, DetailPanes, TLAPS

-------------------------------------------------------------------------------
(* BrowserHandoff                                                          *)

(* What a request may be answered with, and the answers that say that the  *)
(* application has the request.                                            *)
AnswerStatus == {"limited", "error", "failed", "received", "duplicate", "authorization_required"}
Answer == [id : Handoffs, status : AnswerStatus]
Socket == [state : {"unused", "connecting", "open", "closed"}, owner : Actors,
           inbox : Seq(Handoffs), outbox : Seq(Answer)]
Known(h) == messages[RequestId(h, "ws")] # "none"

(* The types, socket by socket.                                            *)
HandoffTypeInv ==
    /\ pc \in [Actors -> Waiting \cup {"idle", "done"}]
    /\ download \in [Handoffs -> {"running", "paused", "cancelled"}]
    /\ bridge \in BOOLEAN /\ ws \in 0 .. MaxSockets /\ reconnectTimer \in BOOLEAN
    /\ sockets \in [Sockets -> Socket]
    /\ messages \in [RequestIds -> {"none", "received", "failed"}]
    /\ created \in [Handoffs -> 0 .. 1] /\ files \subseteq Handoffs

(* An answer on its way that says so is right: the request was recorded.   *)
AnswersAreTrue ==
    \A s \in Sockets : \A k \in 1 .. Len(sockets[s].outbox) :
        sockets[s].outbox[k].status \in {"received", "duplicate"} => Known(sockets[s].outbox[k].id)

(* A request that was not recorded made no task.                           *)
UnknownMadeNothing == \A h \in Handoffs : ~Known(h) => created[h] = 0

HandoffInv == HandoffTypeInv /\ AnswersAreTrue /\ UnknownMadeNothing /\ CancelledWasTaken

-------------------------------------------------------------------------------
LEMMA RequestIdRange ==
  ASSUME NEW h \in Handoffs, NEW way
  PROVE  RequestId(h, way) \in RequestIds /\ RequestId(h, way)[1] = h
BY DEF RequestId, RequestIds

LEMMA HandoffInvInit == HandoffInit => HandoffInv
<1> SUFFICES ASSUME HandoffInit PROVE HandoffInv
  OBVIOUS
<1> USE HandoffAssumption
<1>0. << >> \in Seq(Handoffs) /\ << >> \in Seq(Answer) /\ Keeper \in Actors
  BY DEF Actors
<1>1. Unused \in Socket /\ [Unused EXCEPT !.state = "connecting"] \in Socket
  BY <1>0 DEF Unused, Socket
<1>2. \A s \in Sockets : sockets[s].outbox = << >>
  BY DEF HandoffInit, Unused
<1>3. AnswersAreTrue
  BY <1>2 DEF AnswersAreTrue
<1>4. HandoffTypeInv
  <2>1. bridge \in BOOLEAN /\ reconnectTimer \in BOOLEAN /\ files \subseteq Handoffs
    BY DEF HandoffInit
  <2>2. ws \in 0 .. MaxSockets
    BY HandoffAssumption DEF HandoffInit
  <2>3. pc \in [Actors -> Waiting \cup {"idle", "done"}]
    BY DEF HandoffInit, Waiting
  <2>4. sockets \in [Sockets -> Socket]
    BY <1>1 DEF HandoffInit
  <2>5. /\ download \in [Handoffs -> {"running", "paused", "cancelled"}]
        /\ messages \in [RequestIds -> {"none", "received", "failed"}]
        /\ created \in [Handoffs -> 0 .. 1]
    BY DEF HandoffInit
  <2>6. QED
    BY <2>1, <2>2, <2>3, <2>4, <2>5 DEF HandoffTypeInv
<1>5. UnknownMadeNothing /\ CancelledWasTaken
  BY HandoffAssumption DEF HandoffInit, UnknownMadeNothing, CancelledWasTaken
<1>6. QED
  BY <1>3, <1>4, <1>5 DEF HandoffInv

-------------------------------------------------------------------------------
(* Types                                                                   *)

LEMMA ConnectWsType ==
  ASSUME HandoffTypeInv, NEW a \in Actors, ConnectWs(a)
  PROVE  /\ sockets' \in [Sockets -> Socket] /\ ws' \in 0 .. MaxSockets
         /\ pc' \in [Actors -> Waiting \cup {"idle", "done"}]
         /\ \A s \in Sockets : sockets'[s].outbox = sockets[s].outbox
<1> USE HandoffAssumption DEF HandoffTypeInv
<1>1. PICK s \in Fresh :
        /\ sockets' = [sockets EXCEPT ![s].state = "connecting", ![s].owner = a]
        /\ ws' = s /\ pc' = [pc EXCEPT ![a] = "socket"]
  BY DEF ConnectWs
<1>2. s \in Sockets /\ s \in 0 .. MaxSockets
  BY DEF Fresh, Sockets
<1>3. [sockets[s] EXCEPT !.state = "connecting", !.owner = a] \in Socket
  BY <1>2 DEF Socket
<1>4. sockets' = [sockets EXCEPT ![s] = [sockets[s] EXCEPT !.state = "connecting", !.owner = a]]
  BY <1>1, <1>2
<1>5. \A t \in Sockets : sockets'[t].outbox = sockets[t].outbox
  <2> TAKE t \in Sockets
  <2>1. sockets[s] \in Socket
    BY <1>2
  <2>2. [sockets[s] EXCEPT !.state = "connecting", !.owner = a].outbox = sockets[s].outbox
    BY <2>1 DEF Socket
  <2>3. QED
    BY <1>2, <1>4, <2>2
<1>6. QED
  BY <1>1, <1>2, <1>3, <1>4, <1>5 DEF Waiting

LEMMA SendType ==
  ASSUME HandoffTypeInv, NEW h \in Handoffs, NEW table \in [Sockets -> Socket], Send(h, table)
  PROVE  /\ sockets' \in [Sockets -> Socket]
         /\ pc' \in [Actors -> Waiting \cup {"idle", "done"}]
         /\ \A s \in Sockets : sockets'[s].outbox = table[s].outbox
<1> USE HandoffAssumption DEF HandoffTypeInv
<1>1. CASE WsOpen(table)
  <2>1. ws \in Sockets
    BY <1>1 DEF WsOpen, Sockets
  <2> DEFINE sent == [table[ws] EXCEPT !.inbox = Append(@, h)]
  <2>2. table[ws] \in Socket
    BY <2>1
  <2>3. sent \in Socket /\ sent.outbox = table[ws].outbox
    <3>1. Append(table[ws].inbox, h) \in Seq(Handoffs)
      BY <2>2 DEF Socket
    <3>2. QED
      BY <2>2, <3>1 DEF Socket
  <2>4. sockets' = [table EXCEPT ![ws] = sent] /\ pc' = [pc EXCEPT ![h] = "ws"]
    BY <1>1, <2>1 DEF Send
  <2>5. QED
    BY <2>1, <2>3, <2>4 DEF Waiting
<1>2. CASE ~WsOpen(table)
  BY <1>2 DEF Send, Waiting
<1>3. QED
  BY <1>1, <1>2

LEMMA EnsureBridgeType ==
  ASSUME HandoffTypeInv, NEW a \in Actors, EnsureBridge(a)
  PROVE  /\ sockets' \in [Sockets -> Socket] /\ ws' \in 0 .. MaxSockets
         /\ pc' \in [Actors -> Waiting \cup {"idle", "done"}]
         /\ \A s \in Sockets : sockets'[s].outbox = sockets[s].outbox
<1>1. CASE bridge
  BY <1>1, ConnectWsType DEF EnsureBridge
<1>2. CASE ~bridge
  BY <1>2 DEF EnsureBridge, HandoffTypeInv, Waiting
<1>3. QED
  BY <1>1, <1>2

-------------------------------------------------------------------------------
(* Steps that touch no socket but its state, owner or inbox, and keep what *)
(* the application knows, keep the invariant if the browser only gets      *)
(* downloads back.                                                         *)
LEMMA WorkerStep ==
  ASSUME HandoffInv, HandoffTypeInv',
         UNCHANGED appVars,
         \A s \in Sockets : sockets'[s].outbox \in {sockets[s].outbox, << >>},
         \A h \in Handoffs : download'[h] = "cancelled" => download[h] = "cancelled"
  PROVE  HandoffInv'
<1> USE DEF HandoffInv, appVars
<1>1. \A h \in Handoffs : Known(h)' <=> Known(h)
  BY DEF Known
<1>2. AnswersAreTrue'
  <2> SUFFICES ASSUME NEW s \in Sockets, NEW k \in 1 .. Len(sockets[s].outbox)',
                      sockets'[s].outbox[k].status \in {"received", "duplicate"}
               PROVE  Known(sockets[s].outbox[k].id)'
    BY DEF AnswersAreTrue, Known
  <2>1. sockets'[s].outbox = sockets[s].outbox
    OBVIOUS
  <2>2. QED
    BY <2>1 DEF AnswersAreTrue, Known
<1>3. UnknownMadeNothing'
  BY DEF UnknownMadeNothing, Known
<1>4. CancelledWasTaken'
  BY HandoffAssumption DEF CancelledWasTaken
<1>5. QED
  BY <1>2, <1>3, <1>4
-------------------------------------------------------------------------------
(* Connecting                                                              *)

LEMMA StartHandoffStep ==
  ASSUME HandoffInv, NEW h \in Handoffs, StartHandoff(h)
  PROVE  HandoffInv'
<1> USE DEF HandoffInv
<1>1. h \in Actors
  BY DEF Actors
<1>2. /\ sockets' \in [Sockets -> Socket] /\ ws' \in 0 .. MaxSockets
      /\ pc' \in [Actors -> Waiting \cup {"idle", "done"}]
      /\ \A s \in Sockets : sockets'[s].outbox = sockets[s].outbox
  BY <1>1, SendType, EnsureBridgeType DEF StartHandoff, HandoffTypeInv
<1>3. /\ download' \in [Handoffs -> {"running", "paused", "cancelled"}]
      /\ \A g \in Handoffs : download'[g] = "cancelled" => download[g] = "cancelled"
  BY DEF StartHandoff, HandoffTypeInv
<1>4. UNCHANGED <<bridge, reconnectTimer, appVars>>
  BY DEF StartHandoff
<1>5. HandoffTypeInv'
  BY <1>2, <1>3, <1>4 DEF HandoffTypeInv, appVars
<1>6. QED
  BY <1>2, <1>3, <1>4, <1>5, WorkerStep

LEMMA ConnectingStep ==
  ASSUME HandoffInv,
         \/ \E a \in Actors : BootstrapAnswered(a) \/ BootstrapFails(a)
         \/ ReconnectTimerFires
  PROVE  HandoffInv'
<1> USE DEF HandoffInv
<1>1. Keeper \in Actors
  BY DEF Actors
<1>2. /\ UNCHANGED appVars /\ UNCHANGED download
      /\ sockets' \in [Sockets -> Socket] /\ ws' \in 0 .. MaxSockets
      /\ pc' \in [Actors -> Waiting \cup {"idle", "done"}]
      /\ \A s \in Sockets : sockets'[s].outbox = sockets[s].outbox
      /\ bridge' \in BOOLEAN /\ reconnectTimer' \in BOOLEAN
  <2>1. ASSUME NEW a \in Actors, BootstrapAnswered(a)
        PROVE  <1>2
    BY <2>1, ConnectWsType DEF BootstrapAnswered, HandoffTypeInv
  <2>2. ASSUME NEW a \in Actors, BootstrapFails(a)
        PROVE  <1>2
    BY <2>2 DEF BootstrapFails, HandoffTypeInv, Waiting
  <2>3. ASSUME ReconnectTimerFires
        PROVE  <1>2
    BY <1>1, <2>3, EnsureBridgeType DEF ReconnectTimerFires, HandoffTypeInv
  <2>4. QED
    BY <2>1, <2>2, <2>3
<1>3. HandoffTypeInv'
  BY <1>2 DEF HandoffTypeInv, appVars
<1>4. QED
  BY <1>2, <1>3, WorkerStep

LEMMA SocketOpensStep ==
  ASSUME HandoffInv, NEW s \in Sockets, SocketOpens(s)
  PROVE  HandoffInv'
<1> USE DEF HandoffInv
<1> DEFINE opened == [sockets EXCEPT ![s].state = "open"]
<1>1. opened \in [Sockets -> Socket] /\ \A t \in Sockets : opened[t].outbox = sockets[t].outbox
  <2>1. sockets[s] \in Socket
    BY DEF HandoffTypeInv
  <2>2. /\ [sockets[s] EXCEPT !.state = "open"] \in Socket
        /\ [sockets[s] EXCEPT !.state = "open"].outbox = sockets[s].outbox
    BY <2>1 DEF Socket
  <2>3. opened = [sockets EXCEPT ![s] = [sockets[s] EXCEPT !.state = "open"]]
    OBVIOUS
  <2>4. QED
    BY <2>2, <2>3 DEF HandoffTypeInv
<1>2. sockets[s].owner \in Actors
  BY DEF HandoffTypeInv, Socket
<1>3. /\ sockets' \in [Sockets -> Socket]
      /\ pc' \in [Actors -> Waiting \cup {"idle", "done"}]
      /\ \A t \in Sockets : sockets'[t].outbox = sockets[t].outbox
  <2>1. CASE sockets[s].owner = Keeper
    BY <1>1, <2>1 DEF SocketOpens, HandoffTypeInv
  <2>2. CASE sockets[s].owner # Keeper
    <3>1. sockets[s].owner \in Handoffs /\ Send(sockets[s].owner, opened)
      BY <1>2, <2>2 DEF SocketOpens, Actors
    <3> HIDE DEF opened
    <3>2. QED
      BY <1>1, <3>1, SendType
  <2>3. QED
    BY <2>1, <2>2
<1>4. UNCHANGED <<download, bridge, ws, reconnectTimer, appVars>>
  BY DEF SocketOpens
<1>5. HandoffTypeInv'
  BY <1>3, <1>4 DEF HandoffTypeInv, appVars
<1>6. QED
  BY <1>3, <1>4, <1>5, WorkerStep

LEMMA SocketClosesStep ==
  ASSUME HandoffInv, NEW s \in Sockets, SocketCloses(s)
  PROVE  HandoffInv'
<1> USE DEF HandoffInv
<1> DEFINE closed == [sockets[s] EXCEPT !.state = "closed", !.outbox = << >>]
<1>1. sockets[s] \in Socket
  BY DEF HandoffTypeInv
<1>2. closed \in Socket /\ closed.outbox = << >>
  <2>1. << >> \in Seq(Answer)
    OBVIOUS
  <2>2. QED
    BY <1>1, <2>1 DEF Socket
<1>3. sockets' = [sockets EXCEPT ![s] = closed]
  BY DEF SocketCloses
<1> HIDE DEF closed
<1>4. /\ sockets' \in [Sockets -> Socket]
      /\ \A t \in Sockets : sockets'[t].outbox \in {sockets[t].outbox, << >>}
  BY <1>2, <1>3 DEF HandoffTypeInv
<1>5. pc' \in [Actors -> Waiting \cup {"idle", "done"}]
  BY DEF SocketCloses, HandoffTypeInv, Waiting
<1>6. ws' = 0 /\ bridge' = FALSE /\ reconnectTimer' = TRUE /\ UNCHANGED <<download, appVars>>
  BY DEF SocketCloses
<1>7. HandoffTypeInv'
  <2>1. bridge' \in BOOLEAN /\ reconnectTimer' \in BOOLEAN
    BY <1>6
  <2>2. ws' \in 0 .. MaxSockets
    BY <1>6, HandoffAssumption
  <2>3. QED
    BY <1>4, <1>5, <1>6, <2>1, <2>2 DEF HandoffTypeInv, appVars
<1>8. QED
  BY <1>4, <1>6, <1>7, WorkerStep
-------------------------------------------------------------------------------
(* Answers                                                                 *)

(* Whatever happens to a handoff, its browser download is in a state.      *)
LEMMA FinishType ==
  ASSUME HandoffTypeInv, NEW h, NEW status, Finish(h, status)
  PROVE  /\ pc' \in [Actors -> Waiting \cup {"idle", "done"}]
         /\ download' \in [Handoffs -> {"running", "paused", "cancelled"}]
         /\ \A g \in Handoffs : download'[g] = "cancelled" =>
               download[g] = "cancelled" \/ (g = h /\ status \notin {"authorization_required", "failed"})
BY DEF HandoffTypeInv, Finish, Release, Waiting

(* The application learns of requests and forgets none; a task is made for *)
(* a request that was unknown before; the answers that say so are true.    *)
LEMMA RecordStep ==
  ASSUME HandoffInv, NEW h \in Handoffs, NEW way, NEW o \in Outcomes(RequestId(h, way)),
         Record(h, RequestId(h, way), o)
  PROVE  /\ messages' \in [RequestIds -> {"none", "received", "failed"}]
         /\ created' \in [Handoffs -> 0 .. 1]
         /\ o \in AnswerStatus
         /\ \A q \in RequestIds : messages[q] # "none" => messages'[q] # "none"
         /\ \A g \in Handoffs : Known(g) => Known(g)'
         /\ o \in {"received", "duplicate", "failed", "error"} => Known(h)'
         /\ o = "authorization_required" => h \in asked'
         /\ asked \subseteq asked'
         /\ UnknownMadeNothing'
<1> USE DEF HandoffInv
<1> DEFINE r == RequestId(h, way)
<1>1. r \in RequestIds /\ \A v : RequestId(h, v) = r
  BY RequestIdRange DEF RequestId
<1>2. o \in AnswerStatus /\ (o \notin {"duplicate", "error"} => messages[r] = "none")
      /\ (o = "duplicate" => messages[r] # "none")
  BY DEF Outcomes, AnswerStatus
<1>3. messages' \in [RequestIds -> {"none", "received", "failed"}]
  BY DEF Record, HandoffTypeInv
<1>4. \A q \in RequestIds : messages[q] # "none" => messages'[q] # "none"
  BY DEF Record, HandoffTypeInv
<1>5. \A g \in Handoffs : Known(g) => Known(g)'
  BY <1>4, RequestIdRange DEF Known
<1>6. o \in {"received", "duplicate", "failed", "error"} => messages'[r] # "none"
  BY <1>1, <1>2 DEF Record, HandoffTypeInv
<1>7. o \in {"received", "duplicate", "failed", "error"} => Known(h)'
  BY <1>1, <1>6 DEF Known
<1>8. o = "received" => created[h] = 0
  BY <1>1, <1>2 DEF UnknownMadeNothing, Known
<1>9. created' = IF o = "received" THEN [created EXCEPT ![h] = 1] ELSE created
  <2>1. CASE o = "received"
    <3>1. created' = [created EXCEPT ![h] = created[h] + 1] /\ created[h] + 1 = 1
      BY <1>8, <2>1 DEF Record
    <3>2. QED
      BY <2>1, <3>1
  <2>2. CASE o # "received"
    BY <2>2 DEF Record
  <2>3. QED
    BY <2>1, <2>2
<1>10. created' \in [Handoffs -> 0 .. 1]
  BY <1>9 DEF HandoffTypeInv
<1>11. UnknownMadeNothing'
  <2> SUFFICES ASSUME NEW g \in Handoffs, ~Known(g)'
               PROVE  created'[g] = 0
    BY DEF UnknownMadeNothing
  <2>1. ~Known(g) /\ created[g] = 0
    BY <1>5 DEF UnknownMadeNothing
  <2>2. o = "received" => g # h
    BY <1>7
  <2>3. QED
    BY <1>9, <2>1, <2>2 DEF HandoffTypeInv
<1>12. (o = "authorization_required" => h \in asked') /\ asked \subseteq asked'
  BY DEF Record
<1>13. QED
  BY <1>2, <1>3, <1>4, <1>5, <1>7, <1>10, <1>11, <1>12

(* Who has a request of a handoff: a file, the user or the application.    *)
HasTaker(h) == h \in files \cup asked \/ \E r \in RequestIds : r[1] = h /\ messages[r] # "none"

LEMMA KnownIsTaken ==
  ASSUME NEW h \in Handoffs, Known(h)
  PROVE  HasTaker(h)
BY RequestIdRange DEF Known, HasTaker

(* An answer on its way names a handoff.                                   *)
LEMMA OutboxIds ==
  ASSUME HandoffInv, NEW s \in Sockets, NEW k \in 1 .. Len(sockets[s].outbox)
  PROVE  sockets[s].outbox[k].id \in Handoffs
<1>1. sockets[s].outbox \in Seq(Answer)
  BY DEF HandoffInv, HandoffTypeInv, Socket
<1>2. sockets[s].outbox[k] \in Answer
  BY <1>1
<1>3. QED
  BY <1>2 DEF Answer

LEMMA ServeRequestStep ==
  ASSUME HandoffInv, NEW s \in Sockets, ServeRequest(s)
  PROVE  HandoffInv'
<1> USE DEF HandoffInv
<1>0. PICK id \in Handoffs : id = Head(sockets[s].inbox)
  BY DEF ServeRequest, HandoffTypeInv, Socket
<1> DEFINE answer(status) == IF sockets[s].state = "open"
                             THEN Append(sockets[s].outbox, [id |-> id, status |-> status])
                             ELSE << >>
           after(status) == [sockets[s] EXCEPT !.inbox = Tail(@), !.outbox = answer(status)]
<1>1. sockets[s] \in Socket /\ Tail(sockets[s].inbox) \in Seq(Handoffs)
  BY DEF ServeRequest, HandoffTypeInv, Socket
<1>2. ASSUME NEW status \in AnswerStatus
      PROVE  answer(status) \in Seq(Answer) /\ after(status) \in Socket
             /\ after(status).outbox = answer(status)
  <2>1. [id |-> id, status |-> status] \in Answer /\ sockets[s].outbox \in Seq(Answer)
    BY <1>1, <1>2 DEF Answer, Socket
  <2>2. answer(status) \in Seq(Answer)
    BY <2>1
  <2>3. QED
    BY <1>1, <2>2 DEF Socket
<1>3. ASSUME NEW status \in AnswerStatus, sockets' = [sockets EXCEPT ![s] = after(status)],
             UnknownMadeNothing', messages' \in [RequestIds -> {"none", "received", "failed"}],
             created' \in [Handoffs -> 0 .. 1],
             \A q \in RequestIds : messages[q] # "none" => messages'[q] # "none",
             \A g \in Handoffs : Known(g) => Known(g)',
             status \in {"received", "duplicate"} => Known(id)',
             asked \subseteq asked', files' = files
      PROVE  HandoffInv'
  <2>1. UNCHANGED <<pc, download, bridge, ws, pendingWs, reconnectTimer>>
    BY DEF ServeRequest
  <2>2. sockets' \in [Sockets -> Socket]
    BY <1>2, <1>3 DEF HandoffTypeInv
  <2>3. HandoffTypeInv'
    BY <1>3, <2>1, <2>2 DEF HandoffTypeInv
  <2>4. AnswersAreTrue'
    <3> SUFFICES ASSUME NEW t \in Sockets, NEW k \in 1 .. Len(sockets[t].outbox)',
                        sockets'[t].outbox[k].status \in {"received", "duplicate"}
                 PROVE  Known(sockets[t].outbox[k].id)'
      BY DEF AnswersAreTrue, Known
    <3>1. CASE t # s
      <4>1. sockets'[t] = sockets[t]
        BY <1>3, <3>1 DEF HandoffTypeInv
      <4>2. Known(sockets[t].outbox[k].id)
        BY <4>1 DEF AnswersAreTrue
      <4>3. sockets[t].outbox[k].id \in Handoffs
        BY <4>1, OutboxIds
      <4>4. Known(sockets[t].outbox[k].id)'
        BY <1>3, <4>1, <4>2, <4>3 DEF Known
      <4>5. QED
        BY <4>4
    <3>2. CASE t = s
      <4>1. sockets'[t].outbox = answer(status)
        BY <1>2, <1>3, <3>2 DEF HandoffTypeInv
      <4>2. sockets[s].outbox \in Seq(Answer)
        BY <1>1 DEF Socket
      <4>3. CASE k \in 1 .. Len(sockets[s].outbox) /\ sockets'[t].outbox[k] = sockets[s].outbox[k]
        <5>1. Known(sockets[s].outbox[k].id) /\ sockets[s].outbox[k].id \in Handoffs
          BY <4>3, OutboxIds DEF AnswersAreTrue
        <5>2. QED
          BY <1>3, <4>3, <5>1 DEF Known
      <4>4. CASE sockets'[t].outbox[k] = [id |-> id, status |-> status]
        <5>1. Known(id)'
          BY <1>3, <4>4
        <5>2. QED
          BY <4>4, <5>1 DEF Known
      <4>5. QED
        BY <4>1, <4>2, <4>3, <4>4
    <3>3. QED
      BY <3>1, <3>2
  <2>5. CancelledWasTaken'
    BY <1>3, <2>1, HandoffAssumption DEF CancelledWasTaken
  <2>6. QED
    BY <1>3, <2>3, <2>4, <2>5
<1>4. CASE sockets' = [sockets EXCEPT ![s] = after("limited")] /\ UNCHANGED appVars
  <2>1. "limited" \in AnswerStatus
    BY DEF AnswerStatus
  <2>2. /\ UnknownMadeNothing' /\ messages' \in [RequestIds -> {"none", "received", "failed"}]
        /\ created' \in [Handoffs -> 0 .. 1]
        /\ \A q \in RequestIds : messages[q] # "none" => messages'[q] # "none"
        /\ \A g \in Handoffs : Known(g) => Known(g)'
        /\ asked \subseteq asked' /\ files' = files
    BY <1>4 DEF appVars, UnknownMadeNothing, Known, HandoffTypeInv
  <2> HIDE DEF after
  <2>3. QED
    BY <1>3, <1>4, <2>1, <2>2
<1>5. CASE \E o \in Outcomes(RequestId(id, "ws")) :
              /\ sockets' = [sockets EXCEPT ![s] = after(o)]
              /\ Record(id, RequestId(id, "ws"), o) /\ UNCHANGED files
  <2>1. PICK o \in Outcomes(RequestId(id, "ws")) :
              /\ sockets' = [sockets EXCEPT ![s] = after(o)]
              /\ Record(id, RequestId(id, "ws"), o) /\ UNCHANGED files
    BY <1>5
  <2> HIDE DEF after
  <2>2. /\ messages' \in [RequestIds -> {"none", "received", "failed"}]
        /\ created' \in [Handoffs -> 0 .. 1] /\ o \in AnswerStatus
        /\ \A q \in RequestIds : messages[q] # "none" => messages'[q] # "none"
        /\ \A g \in Handoffs : Known(g) => Known(g)'
        /\ o \in {"received", "duplicate"} => Known(id)'
        /\ asked \subseteq asked' /\ UnknownMadeNothing'
    BY <1>1, <2>1, RecordStep
  <2>3. QED
    BY <1>3, <2>1, <2>2
<1>6. QED
  BY <1>0, <1>4, <1>5 DEF ServeRequest

LEMMA ReceiveMessageStep ==
  ASSUME HandoffInv, NEW s \in Sockets, ReceiveMessage(s)
  PROVE  HandoffInv'
<1> USE DEF HandoffInv
<1> DEFINE m == Head(sockets[s].outbox)
           isError == m.status \in {"limited", "error"}
           id == IF isError /\ pendingWs # << >> THEN Head(pendingWs) ELSE m.id
<1>1. sockets[s] \in Socket /\ sockets[s].outbox \in Seq(Answer) /\ sockets[s].outbox # << >>
  BY DEF ReceiveMessage, HandoffTypeInv, Socket
<1>2. /\ Tail(sockets[s].outbox) \in Seq(Answer)
      /\ Len(Tail(sockets[s].outbox)) = Len(sockets[s].outbox) - 1
      /\ \A k \in 1 .. Len(Tail(sockets[s].outbox)) :
            Tail(sockets[s].outbox)[k] = sockets[s].outbox[k + 1] /\ k + 1 \in 1 .. Len(sockets[s].outbox)
      /\ m \in Answer /\ m = sockets[s].outbox[1] /\ 1 \in 1 .. Len(sockets[s].outbox)
  BY <1>1
<1> DEFINE after == [sockets[s] EXCEPT !.outbox = Tail(sockets[s].outbox)]
<1>3. after \in Socket /\ after.outbox = Tail(sockets[s].outbox)
  BY <1>1, <1>2 DEF Socket
<1>4. sockets' = [sockets EXCEPT ![s] = after] /\ UNCHANGED <<bridge, ws, reconnectTimer, appVars>>
  BY DEF ReceiveMessage
<1> HIDE DEF after
<1>5. sockets' \in [Sockets -> Socket]
  BY <1>3, <1>4 DEF HandoffTypeInv
<1>6. \/ UNCHANGED <<pc, download>>
      \/ ToHost(id)
      \/ m.status # "error" /\ Finish(id, IF m.status = "limited" THEN "failed" ELSE m.status)
  BY DEF ReceiveMessage
<1>7. /\ pc' \in [Actors -> Waiting \cup {"idle", "done"}]
      /\ download' \in [Handoffs -> {"running", "paused", "cancelled"}]
      /\ \A g \in Handoffs : download'[g] = "cancelled" =>
            download[g] = "cancelled" \/ (g = m.id /\ m.status \in {"received", "duplicate"})
  <2>1. CASE UNCHANGED <<pc, download>>
    BY <2>1 DEF HandoffTypeInv
  <2>2. CASE ToHost(id)
    BY <2>2 DEF ToHost, HandoffTypeInv, Waiting
  <2>3. CASE m.status # "error" /\ Finish(id, IF m.status = "limited" THEN "failed" ELSE m.status)
    <3> DEFINE status == IF m.status = "limited" THEN "failed" ELSE m.status
    <3>1. /\ pc' \in [Actors -> Waiting \cup {"idle", "done"}]
          /\ download' \in [Handoffs -> {"running", "paused", "cancelled"}]
          /\ \A g \in Handoffs : download'[g] = "cancelled" =>
               download[g] = "cancelled" \/ (g = id /\ status \notin {"authorization_required", "failed"})
      BY <2>3, FinishType
    <3>2. m.status \in AnswerStatus
      BY <1>2 DEF Answer
    <3>3. status \notin {"authorization_required", "failed"} =>
            m.status \in {"received", "duplicate"} /\ id = m.id
      BY <2>3, <3>2 DEF AnswerStatus
    <3>4. QED
      BY <3>1, <3>3
  <2>4. QED
    BY <1>6, <2>1, <2>2, <2>3
<1>8. HandoffTypeInv'
  BY <1>4, <1>5, <1>7 DEF HandoffTypeInv, appVars
<1>9. AnswersAreTrue'
  <2> SUFFICES ASSUME NEW t \in Sockets, NEW k \in 1 .. Len(sockets[t].outbox)',
                      sockets'[t].outbox[k].status \in {"received", "duplicate"}
               PROVE  Known(sockets[t].outbox[k].id)'
    BY DEF AnswersAreTrue, Known
  <2>1. CASE t # s
    <3>1. sockets'[t] = sockets[t]
      BY <1>4, <2>1 DEF HandoffTypeInv
    <3>2. QED
      BY <1>4, <3>1 DEF AnswersAreTrue, Known, appVars
  <2>2. CASE t = s
    <3>1. sockets'[t].outbox = Tail(sockets[s].outbox)
      BY <1>3, <1>4, <2>2 DEF HandoffTypeInv
    <3>2. sockets'[t].outbox[k] = sockets[s].outbox[k + 1] /\ k + 1 \in 1 .. Len(sockets[s].outbox)
      BY <1>2, <3>1
    <3>3. QED
      BY <1>4, <3>2 DEF AnswersAreTrue, Known, appVars
  <2>3. QED
    BY <2>1, <2>2
<1>10. CancelledWasTaken'
  <2> SUFFICES ASSUME NEW g \in Captured, download'[g] = "cancelled"
               PROVE  HasTaker(g)'
    BY DEF CancelledWasTaken, HasTaker
  <2>1. g \in Handoffs
    BY HandoffAssumption
  <2>2. CASE download[g] = "cancelled"
    BY <1>4, <2>2 DEF CancelledWasTaken, HasTaker, appVars
  <2>3. CASE g = m.id /\ m.status \in {"received", "duplicate"}
    <3>1. Known(g)
      BY <1>2, <2>3 DEF AnswersAreTrue
    <3>2. HasTaker(g)
      BY <2>1, <3>1, KnownIsTaken
    <3>3. QED
      BY <1>4, <3>2 DEF HasTaker, appVars
  <2>4. QED
    BY <1>7, <2>1, <2>2, <2>3
<1>11. UnknownMadeNothing'
  BY <1>4 DEF UnknownMadeNothing, Known, appVars
<1>12. QED
  BY <1>8, <1>9, <1>10, <1>11

LEMMA RequestTimesOutStep ==
  ASSUME HandoffInv, NEW h \in Handoffs, RequestTimesOut(h)
  PROVE  HandoffInv'
<1>1. HandoffTypeInv'
  BY DEF RequestTimesOut, ToHost, HandoffInv, HandoffTypeInv, Waiting, appVars
<1>2. /\ UNCHANGED appVars /\ UNCHANGED download
      /\ \A s \in Sockets : sockets'[s].outbox = sockets[s].outbox
  BY DEF RequestTimesOut, ToHost
<1>3. QED
  BY <1>1, <1>2, WorkerStep

LEMMA HostAnswersStep ==
  ASSUME HandoffInv, NEW h \in Handoffs, HostAnswers(h)
  PROVE  HandoffInv'
<1> USE DEF HandoffInv
<1>1. PICK wrote \in BOOLEAN, accepted \in BOOLEAN :
        /\ accepted => wrote
        /\ files' = IF wrote THEN files \cup {h} ELSE files
        /\ Finish(h, IF accepted THEN "accepted" ELSE "failed")
  BY DEF HostAnswers
<1>2. UNCHANGED <<bridge, ws, sockets, pendingWs, reconnectTimer, messages, created, asked>>
  BY DEF HostAnswers
<1>3. /\ pc' \in [Actors -> Waiting \cup {"idle", "done"}]
      /\ download' \in [Handoffs -> {"running", "paused", "cancelled"}]
      /\ \A g \in Handoffs : download'[g] = "cancelled" =>
            download[g] = "cancelled" \/ (g = h /\ accepted)
  BY <1>1, FinishType
<1>4. HandoffTypeInv'
  BY <1>1, <1>2, <1>3 DEF HandoffTypeInv
<1>5. AnswersAreTrue' /\ UnknownMadeNothing'
  BY <1>2 DEF AnswersAreTrue, UnknownMadeNothing, Known
<1>6. CancelledWasTaken'
  BY <1>1, <1>2, <1>3, HandoffAssumption DEF CancelledWasTaken
<1>7. QED
  BY <1>4, <1>5, <1>6

LEMMA ReplayFileStep ==
  ASSUME HandoffInv, NEW h \in Handoffs, ReplayFile(h)
  PROVE  HandoffInv'
<1> USE DEF HandoffInv
<1>1. PICK o \in Outcomes(RequestId(h, "file")) :
        /\ Record(h, RequestId(h, "file"), o)
        /\ files' = IF o = "error" THEN files ELSE files \ {h}
  BY DEF ReplayFile
<1>2. UNCHANGED <<pc, download, bridge, ws, sockets, pendingWs, reconnectTimer>>
  BY DEF ReplayFile, workerVars
<1>3. /\ messages' \in [RequestIds -> {"none", "received", "failed"}]
      /\ created' \in [Handoffs -> 0 .. 1] /\ o \in AnswerStatus
      /\ \A q \in RequestIds : messages[q] # "none" => messages'[q] # "none"
      /\ \A g \in Handoffs : Known(g) => Known(g)'
      /\ o \in {"received", "duplicate", "failed", "error"} => Known(h)'
      /\ o = "authorization_required" => h \in asked'
      /\ asked \subseteq asked' /\ UnknownMadeNothing'
  BY <1>1, RecordStep
<1>4. HandoffTypeInv'
  BY <1>1, <1>2, <1>3 DEF HandoffTypeInv
<1>5. AnswersAreTrue'
  <2> SUFFICES ASSUME NEW s \in Sockets, NEW k \in 1 .. Len(sockets[s].outbox),
                      sockets[s].outbox[k].status \in {"received", "duplicate"}
               PROVE  Known(sockets[s].outbox[k].id)'
    BY <1>2 DEF AnswersAreTrue, Known
  <2>1. sockets[s].outbox[k].id \in Handoffs
    BY OutboxIds
  <2>2. Known(sockets[s].outbox[k].id)
    BY DEF AnswersAreTrue
  <2>3. Known(sockets[s].outbox[k].id)'
    BY <1>2, <1>3, <2>1, <2>2 DEF Known
  <2>4. QED
    BY <2>3
<1>6. o \in {"received", "duplicate", "failed", "error", "authorization_required"}
  BY DEF Outcomes
<1>7. CancelledWasTaken'
  <2> SUFFICES ASSUME NEW g \in Captured, download[g] = "cancelled"
               PROVE  HasTaker(g)'
    BY <1>2 DEF CancelledWasTaken, HasTaker
  <2>1. HasTaker(g) /\ g \in Handoffs
    BY HandoffAssumption DEF CancelledWasTaken, HasTaker
  <2>2. CASE g = h
    <3>1. Known(h)' => HasTaker(h)'
      BY RequestIdRange DEF Known, HasTaker
    <3>2. QED
      BY <1>3, <1>6, <2>2, <3>1 DEF HasTaker
  <2>3. CASE g # h
    BY <1>1, <1>3, <2>1, <2>3 DEF HasTaker
  <2>4. QED
    BY <2>2, <2>3
<1>8. QED
  BY <1>3, <1>4, <1>5, <1>7

-------------------------------------------------------------------------------
LEMMA HandoffInvNext == HandoffInv /\ [HandoffNext]_handoffVars => HandoffInv'
<1> SUFFICES ASSUME HandoffInv, [HandoffNext]_handoffVars
             PROVE  HandoffInv'
  OBVIOUS
<1>1. CASE UNCHANGED handoffVars
  <2>1. UNCHANGED <<pc, download, bridge, ws, sockets, pendingWs, reconnectTimer, messages, created,
                    files, asked>>
    BY <1>1 DEF handoffVars, workerVars, appVars
  <2>2. HandoffTypeInv'
    BY <2>1 DEF HandoffInv, HandoffTypeInv
  <2>3. QED
    BY <2>1, <2>2, WorkerStep DEF appVars
<1>2. CASE HandoffNext
  BY <1>2, StartHandoffStep, HostAnswersStep, ReplayFileStep, RequestTimesOutStep, ConnectingStep,
     SocketOpensStep, SocketClosesStep, ServeRequestStep, ReceiveMessageStep DEF HandoffNext
<1>3. QED
  BY <1>1, <1>2

(* The strengthening: what is on its way says of the application what is   *)
(* true, and a request that was not recorded made nothing.                 *)
THEOREM HandoffInvAlways == HandoffSpec => []HandoffInv
BY HandoffInvInit, HandoffInvNext, PTL DEF HandoffSpec

(* Every variable of the handoff stays in its type.                        *)
THEOREM HandoffTypeAlways == HandoffSpec => []HandoffTypeOK
<1>1. HandoffInv => HandoffTypeOK
  <2> SUFFICES ASSUME HandoffInv PROVE HandoffTypeOK
    OBVIOUS
  <2>1. \A s \in Sockets : sockets[s].state \in {"unused", "connecting", "open", "closed"}
    BY DEF HandoffInv, HandoffTypeInv, Socket
  <2>2. created \in [Handoffs -> Nat]
    BY DEF HandoffInv, HandoffTypeInv
  <2>3. QED
    BY <2>1, <2>2 DEF HandoffInv, HandoffTypeInv, HandoffTypeOK
<1>2. QED
  BY <1>1, HandoffInvAlways, PTL

(* A captured download is cancelled in the browser only when somebody took *)
(* its request, and no request makes two tasks, whichever ways it went and *)
(* however many sockets were opened.                                       *)
THEOREM HandoffIsSafeAlways == HandoffSpec => []HandoffIsSafe
<1>1. HandoffInv => HandoffIsSafe
  BY DEF HandoffInv, HandoffTypeInv, HandoffIsSafe, OneTaskPerRequest
<1>2. QED
  BY <1>1, HandoffInvAlways, PTL

-------------------------------------------------------------------------------
(* NewDownload                                                             *)

Form == [open : BOOLEAN, mode : {"single", "batch"}, url : Links \cup {NoUrl},
         creds : BOOLEAN, saveDir : BOOLEAN, lines : SUBSET Links]
Granted == Links \cup {NoUrl}
ProbeCall == [id : Ids, url : Granted, creds : BOOLEAN, grant : Granted,
              by : {"timer", "authorization"}]
ProbeResult == [url : Granted, creds : BOOLEAN, by : {"timer", "authorization"}]
Look == [request : Ids \cup {NoId}, probe : ProbeResult \cup {NoProbe}, probing : BOOLEAN,
         blocked : BOOLEAN, timer : BOOLEAN]
ImportCall == [id : Ids, create : BOOLEAN, lines : SUBSET Links, again : {"no", "retry", "duplicates"},
               shown : SUBSET Links, creds : BOOLEAN, saveDir : BOOLEAN, grant : Granted,
               current : BOOLEAN, made : SUBSET Links]
Preview == [lines : SUBSET Links, creds : BOOLEAN, saveDir : BOOLEAN]
Batch == [result : Preview \cup {NoResult}, preview : Ids \cup {NoId}, creation : Ids \cup {NoId}]

CreateCall == [kind : {"create"}, url : Links, grant : Granted, made : BOOLEAN]
CallOK(c) ==
    /\ c.kind = "create" => c \in CreateCall
    /\ c.kind = "authorize" => c.url \in Links /\ c.creds \in BOOLEAN /\ c.grant \in Granted

DialogTypeInv ==
    /\ form \in Form /\ grant \in Granted /\ look \in Look
    /\ probes \subseteq ProbeCall /\ imports \subseteq ImportCall /\ batch \in Batch
    /\ CallOK(call)
    /\ refused \subseteq Links /\ newTasks \subseteq Links /\ announced \subseteq Links
    /\ drop # NoDrop => drop.source \in Sources

(* What the dialog knows of the probes `ps` fits the form `f`: the answer  *)
(* that is shown, the answer that will be, and the spinner.                *)
LookFits(l, f, ps) ==
    /\ l.probe # NoProbe => /\ l.probe.url = f.url
                            /\ l.probe.by = "timer" => l.probe.creds = f.creds
    /\ l.probing => \E p \in ps : p.id = l.request
    /\ \A p \in ps : p.id = l.request /\ p.by = "timer" => p.creds = f.creds

(* What it knows of the imports `batches` does.                            *)
Shows(f) == [lines |-> f.lines, creds |-> f.creds, saveDir |-> f.saveDir]
BatchFits(b, f, batches) ==
    /\ b.result # NoResult => b.result = Shows(f)
    /\ b.preview # NoId => \E i \in batches : i.id = b.preview /\ ~i.create
    /\ b.creation # NoId => \E i \in batches : i.id = b.creation /\ i.create
    /\ \A i \in batches : ~i.create /\ i.current /\ i.id = b.preview =>
          i.lines = f.lines /\ i.creds = f.creds /\ i.saveDir = f.saveDir
    /\ \A i \in batches : i.made # {} => i.create

(* The links whose task an answer under way will announce.                 *)
OnTheWay(c, batches) ==
    {url \in Links : \/ c.kind = "create" /\ c.made /\ c.url = url
                     \/ \E i \in batches : url \in i.made}

DialogInv ==
    /\ DialogTypeInv
    /\ LookFits(look, form, probes)
    /\ BatchFits(batch, form, imports)
    /\ newTasks \ announced \subseteq OnTheWay(call, imports)

-------------------------------------------------------------------------------
(* No call has the id that stands for none, and a fresh id is nobody's.    *)
LEMMA DialogIds ==
    /\ NoId \notin Ids
    /\ \A batches : FreshIds(batches) \subseteq Ids
    /\ \A batches : \A c \in batches : c.id \notin FreshIds(batches)
<1>1. NoId \notin Ids
  BY NewDownloadAssumption DEF NoId, Ids
<1>2. QED
  BY <1>1 DEF FreshIds

(* A render keeps what fits, or drops it with the context that it was for. *)
LEMMA RenderFits ==
  ASSUME NEW f \in Form, NEW l \in Look, NEW ps \in SUBSET ProbeCall, form \in Form,
         LookFits(l, form, ps), Render(f, l)
  PROVE  form' = f /\ look' \in Look /\ LookFits(look', f, ps)
<1>1. CASE probeContext(f) = probeContext(form)
  <2>1. f.url = form.url /\ f.creds = form.creds
    BY <1>1 DEF probeContext
  <2>2. look' = l /\ form' = f
    BY <1>1 DEF Render
  <2>3. QED
    BY <2>1, <2>2 DEF LookFits
<1>2. CASE probeContext(f) # probeContext(form)
  <2>1. look' = invalidateProbe(f) /\ form' = f
    BY <1>2 DEF Render
  <2>2. Probable(f) \in BOOLEAN
    BY DEF Probable, Form
  <2>3. invalidateProbe(f) \in Look
    BY <2>2 DEF invalidateProbe, Look
  <2>4. LookFits(invalidateProbe(f), f, ps)
    BY DialogIds DEF LookFits, invalidateProbe, ProbeCall
  <2>5. QED
    BY <2>1, <2>3, <2>4
<1>3. QED
  BY <1>1, <1>2

(* A reset gives up the probe.                                             *)
LEMMA ResetLookFits ==
  ASSUME look \in Look, probes \subseteq ProbeCall, NEW f
  PROVE  ResetLook \in Look /\ LookFits(ResetLook, f, probes)
<1>1. /\ ResetLook \in Look /\ ResetLook.request = NoId /\ ResetLook.probe = NoProbe
      /\ ~ResetLook.probing
  BY DEF ResetLook, Look
<1>2. QED
  BY <1>1, DialogIds DEF LookFits, ProbeCall

LEMMA OutdatedCalls ==
  ASSUME NEW batches \in SUBSET ImportCall
  PROVE  /\ Outdated(batches) \subseteq ImportCall
         /\ \A i \in Outdated(batches) : ~i.current
         /\ \A i \in Outdated(batches) : \E j \in batches :
               i.id = j.id /\ i.create = j.create /\ i.made = j.made
         /\ \A j \in batches : \E i \in Outdated(batches) :
               i.id = j.id /\ i.create = j.create /\ i.made = j.made
<1>1. \A c \in batches : LET d == [c EXCEPT !.current = FALSE]
                       IN  d \in ImportCall /\ d.id = c.id /\ d.create = c.create /\ d.made = c.made
                           /\ ~d.current
  BY DEF ImportCall
<1>2. QED
  BY <1>1 DEF Outdated

(* Giving up the preview fits every form, and announces as before.         *)
LEMMA OutdatedFits ==
  ASSUME NEW b \in Batch, NEW f \in Form, NEW g \in Form, NEW batches \in SUBSET ImportCall,
         BatchFits(b, f, batches)
  PROVE  /\ invalidateBatchPreview(b) \in Batch
         /\ Outdated(batches) \in SUBSET ImportCall
         /\ BatchFits(invalidateBatchPreview(b), g, Outdated(batches))
         /\ \A c : OnTheWay(c, Outdated(batches)) = OnTheWay(c, batches)
<1> DEFINE d == invalidateBatchPreview(b)
<1>1. d \in Batch /\ d.result = NoResult /\ d.preview = NoId /\ d.creation = b.creation
  BY DEF invalidateBatchPreview, Batch
<1> HIDE DEF d
<1>2. BatchFits(d, g, Outdated(batches))
  BY <1>1, OutdatedCalls DEF BatchFits
<1>3. \A c : OnTheWay(c, Outdated(batches)) = OnTheWay(c, batches)
  BY OutdatedCalls DEF OnTheWay
<1>4. QED
  BY <1>1, <1>2, <1>3, OutdatedCalls DEF d

(* The render of a form whose lines are as they were.                      *)
LEMMA RenderBatchFits ==
  ASSUME NEW f \in Form, NEW b \in Batch, NEW batches \in SUBSET ImportCall, form \in Form,
         BatchFits(b, form, batches), f.lines = form.lines, RenderBatch(f, b, batches)
  PROVE  /\ batch' \in Batch /\ imports' \subseteq ImportCall
         /\ BatchFits(batch', f, imports')
         /\ \A c : OnTheWay(c, imports') = OnTheWay(c, batches)
<1>1. CASE batchContext(f) = batchContext(form)
  <2>1. f.creds = form.creds /\ f.saveDir = form.saveDir
    BY <1>1 DEF batchContext
  <2>2. batch' = b /\ imports' = batches
    BY <1>1 DEF RenderBatch
  <2>3. BatchFits(b, f, batches)
    BY <2>1 DEF BatchFits, Shows
  <2>4. QED
    BY <2>2, <2>3
<1>2. CASE batchContext(f) # batchContext(form)
  BY <1>2, OutdatedFits DEF RenderBatch
<1>3. QED
  BY <1>1, <1>2

(* A probe begins: it is the only one whose answer will be taken.          *)
LEMMA DetectFits ==
  ASSUME NEW l \in Look, NEW url \in Granted, NEW creds \in BOOLEAN, NEW granted \in Granted,
         NEW by \in {"timer", "authorization"}, NEW f, probes \subseteq ProbeCall,
         by = "timer" => creds = f.creds, detect(l, url, creds, granted, by)
  PROVE  look' \in Look /\ probes' \subseteq ProbeCall /\ LookFits(look', f, probes')
<1>1. PICK id \in FreshIds(probes) :
        /\ probes' = probes \cup {[id |-> id, url |-> url, creds |-> creds, grant |-> granted, by |-> by]}
        /\ look' = [l EXCEPT !.request = id, !.probing = TRUE, !.probe = NoProbe]
  BY DEF detect
<1>2. id \in Ids /\ \A p \in probes : p.id # id
  BY DialogIds
<1> DEFINE new == [id |-> id, url |-> url, creds |-> creds, grant |-> granted, by |-> by]
<1>3. new \in ProbeCall /\ new.id = id /\ new.creds = creds /\ new.by = by
  BY <1>2 DEF ProbeCall
<1>4. look' \in Look /\ look'.request = id /\ look'.probe = NoProbe
  BY <1>1, <1>2 DEF Look
<1> HIDE DEF new
<1>5. probes' = probes \cup {new}
  BY <1>1 DEF new
<1>6. QED
  BY <1>2, <1>3, <1>4, <1>5 DEF LookFits

(* An import begins: it owns the preview or the creation.                  *)
LEMMA ImportFits ==
  ASSUME NEW b \in Batch, NEW f \in Form, NEW batches \in SUBSET ImportCall, BatchFits(b, f, batches),
         NEW i \in ImportCall, i.id \in FreshIds(batches), i.made = {},
         ~i.create /\ i.current => i.lines = f.lines /\ i.creds = f.creds /\ i.saveDir = f.saveDir,
         NEW d \in Batch, d.result = b.result,
         d = Owned(b, i.id, i.create) \/ (d = b /\ ~i.create /\ b.preview = NoId)
  PROVE  BatchFits(d, f, batches \cup {i}) /\ \A c : OnTheWay(c, batches \cup {i}) = OnTheWay(c, batches)
<1>1. i.id \in Ids /\ \A c \in batches : c.id # i.id
  BY DialogIds
<1>2. /\ d.preview # NoId => d.preview = b.preview \/ (d.preview = i.id /\ ~i.create)
      /\ d.creation # NoId => d.creation = b.creation \/ (d.creation = i.id /\ i.create)
  BY DEF Owned, Batch
<1>3. i.id # NoId
  BY <1>1, DialogIds
<1>4. BatchFits(d, f, batches \cup {i})
  <2>1. d.result # NoResult => d.result = Shows(f)
    BY DEF BatchFits
  <2>2. d.preview # NoId => \E j \in batches \cup {i} : j.id = d.preview /\ ~j.create
    BY <1>2 DEF BatchFits
  <2>3. d.creation # NoId => \E j \in batches \cup {i} : j.id = d.creation /\ j.create
    BY <1>2 DEF BatchFits
  <2>4. \A j \in batches \cup {i} : ~j.create /\ j.current /\ j.id = d.preview =>
           j.lines = f.lines /\ j.creds = f.creds /\ j.saveDir = f.saveDir
    <3> SUFFICES ASSUME NEW j \in batches, ~j.create, j.current, j.id = d.preview
                 PROVE  j.lines = f.lines /\ j.creds = f.creds /\ j.saveDir = f.saveDir
      OBVIOUS
    <3>1. j.id # NoId /\ j.id # i.id
      BY <1>1, DialogIds DEF ImportCall
    <3>2. QED
      BY <1>2, <3>1 DEF BatchFits
  <2>5. \A j \in batches \cup {i} : j.made # {} => j.create
    BY DEF BatchFits
  <2>6. QED
    BY <2>1, <2>2, <2>3, <2>4, <2>5 DEF BatchFits
<1>5. \A c : OnTheWay(c, batches \cup {i}) = OnTheWay(c, batches)
  BY DEF OnTheWay
<1>6. QED
  BY <1>4, <1>5

(* An import ends: it owns nothing any more.                               *)
LEMMA DisownedFits ==
  ASSUME NEW b \in Batch, NEW f, NEW batches \in SUBSET ImportCall, NEW rest \in SUBSET batches,
         BatchFits(b, f, batches), NEW i \in ImportCall, 
         \A j \in batches \ rest : j.id = i.id /\ j.create = i.create
  PROVE  Disowned(b, i) \in Batch /\ BatchFits(Disowned(b, i), f, rest)
<1> DEFINE d == Disowned(b, i)
<1>1. /\ d \in Batch /\ d.result = b.result
      /\ d.creation = IF b.creation = i.id /\ i.create THEN NoId ELSE b.creation
      /\ d.preview = IF b.preview = i.id /\ ~i.create THEN NoId ELSE b.preview
  BY DEF Disowned, Batch
<1> HIDE DEF d
<1>2. \A j \in rest : j \in batches /\ j.id # NoId
  BY DialogIds DEF ImportCall
<1>3. BatchFits(d, f, rest)
  <2>1. d.result # NoResult => d.result = Shows(f)
    BY <1>1 DEF BatchFits
  <2>2. d.preview # NoId => \E j \in rest : j.id = d.preview /\ ~j.create
    BY <1>1 DEF BatchFits
  <2>3. d.creation # NoId => \E j \in rest : j.id = d.creation /\ j.create
    BY <1>1 DEF BatchFits
  <2>4. \A j \in rest : ~j.create /\ j.current /\ j.id = d.preview =>
           j.lines = f.lines /\ j.creds = f.creds /\ j.saveDir = f.saveDir
    BY <1>1, <1>2 DEF BatchFits
  <2>5. \A j \in rest : j.made # {} => j.create
    BY DEF BatchFits
  <2>6. QED
    BY <2>1, <2>2, <2>3, <2>4, <2>5 DEF BatchFits
<1>4. QED
  BY <1>1, <1>3 DEF d

LEMMA DialogInvInit == DialogInit => DialogInv
<1> SUFFICES ASSUME DialogInit PROVE DialogInv
  OBVIOUS
<1>1. form \in Form /\ form = EmptyForm /\ ~form.open
  BY DEF DialogInit, Form, EmptyForm
<1>2. look \in Look /\ look.probe = NoProbe /\ ~look.probing
  <2>1. Probable(form) = FALSE
    BY <1>1 DEF Probable
  <2>2. QED
    BY <1>1, <2>1 DEF DialogInit, invalidateProbe, Look
<1>3. batch \in Batch /\ batch.result = NoResult /\ batch.preview = NoId /\ batch.creation = NoId
  BY DEF DialogInit, Batch
<1>4. CallOK(call)
  BY DEF DialogInit, NoCall, CallOK
<1>5. DialogTypeInv
  BY <1>1, <1>2, <1>3, <1>4 DEF DialogInit, DialogTypeInv, Granted
<1>6. LookFits(look, form, probes)
  BY <1>2 DEF DialogInit, LookFits
<1>7. BatchFits(batch, form, imports)
  BY <1>3 DEF DialogInit, BatchFits
<1>8. newTasks \ announced \subseteq OnTheWay(call, imports)
  BY DEF DialogInit
<1>9. QED
  BY <1>5, <1>6, <1>7, <1>8 DEF DialogInv

-------------------------------------------------------------------------------
(* Edits of a field other than the lines.                                  *)
LEMMA EditStep ==
  ASSUME DialogInv, NEW f \in Form, f.lines = form.lines, Edit(f), grant' \in Granted
  PROVE  DialogInv'
<1> USE DEF DialogInv
<1>1. Render(f, look) /\ RenderBatch(f, batch, imports)
      /\ UNCHANGED <<probes, call, refused, newTasks, announced, drop>>
  BY DEF Edit
<1>2. form' = f /\ look' \in Look /\ LookFits(look', f, probes)
  BY <1>1, RenderFits DEF DialogTypeInv
<1>3. batch' \in Batch /\ imports' \subseteq ImportCall /\ BatchFits(batch', f, imports')
      /\ \A c : OnTheWay(c, imports') = OnTheWay(c, imports)
  BY <1>1, RenderBatchFits DEF DialogTypeInv
<1>4. DialogTypeInv'
  BY <1>1, <1>2, <1>3 DEF DialogTypeInv
<1>5. QED
  BY <1>1, <1>2, <1>3, <1>4

LEMMA EditsStep ==
  ASSUME DialogInv, \/ \E url \in Granted : changeUrl(url)
                    \/ ChangeOption \/ SetMode \/ SetOpen
  PROVE  DialogInv'
<1>0. form \in Form /\ grant \in Granted
  BY DEF DialogInv, DialogTypeInv
<1>1. ASSUME NEW url \in Granted, changeUrl(url) PROVE DialogInv'
  <2>1. [form EXCEPT !.url = url] \in Form /\ [form EXCEPT !.url = url].lines = form.lines
    BY <1>0 DEF Form, Granted
  <2>2. QED
    BY <1>1, <2>1, EditStep DEF changeUrl, Granted
<1>2. CASE ChangeOption
  <2>1. PICK b \in BOOLEAN : Edit([form EXCEPT !.creds = b]) \/ Edit([form EXCEPT !.saveDir = b])
    BY <1>0, <1>2 DEF ChangeOption, Form
  <2>2. \A x \in BOOLEAN : /\ [form EXCEPT !.creds = x] \in Form
                           /\ [form EXCEPT !.creds = x].lines = form.lines
                           /\ [form EXCEPT !.saveDir = x] \in Form
                           /\ [form EXCEPT !.saveDir = x].lines = form.lines
    BY <1>0 DEF Form
  <2>3. grant' \in Granted
    BY <1>0, <1>2 DEF ChangeOption
  <2>4. QED
    BY <2>1, <2>2, <2>3, EditStep
<1>3. CASE SetMode
  <2> DEFINE f == [form EXCEPT !.mode = IF form.mode = "single" THEN "batch" ELSE "single"]
  <2>1. f \in Form /\ f.lines = form.lines
    BY <1>0 DEF Form
  <2>2. Edit(f) /\ grant' \in Granted
    BY <1>0, <1>3 DEF SetMode
  <2>3. QED
    BY <2>1, <2>2, EditStep
<1>4. CASE SetOpen
  <2>1. PICK b \in BOOLEAN : Edit([form EXCEPT !.open = b])
    BY <1>0, <1>4 DEF SetOpen, Form
  <2>2. [form EXCEPT !.open = b] \in Form /\ [form EXCEPT !.open = b].lines = form.lines
    BY <1>0 DEF Form
  <2>3. grant' \in Granted
    BY <1>0, <1>4 DEF SetOpen
  <2>4. QED
    BY <2>1, <2>2, <2>3, EditStep
<1>5. QED
  BY <1>1, <1>2, <1>3, <1>4

LEMMA BatchInputStep ==
  ASSUME DialogInv, NEW lines \in SUBSET Links, changeBatchInput(lines)
  PROVE  DialogInv'
<1> USE DEF DialogInv
<1>1. /\ form' = [form EXCEPT !.lines = lines]
      /\ batch' = invalidateBatchPreview(batch) /\ imports' = Outdated(imports)
      /\ UNCHANGED <<grant, look, probes, call, refused, newTasks, announced, drop>>
  BY DEF changeBatchInput
<1>2. form' \in Form /\ form'.url = form.url /\ form'.creds = form.creds
  BY <1>1 DEF DialogTypeInv, Form
<1>3. batch' \in Batch /\ imports' \subseteq ImportCall /\ BatchFits(batch', form', imports')
      /\ \A c : OnTheWay(c, imports') = OnTheWay(c, imports)
  BY <1>1, <1>2, OutdatedFits DEF DialogTypeInv
<1>4. LookFits(look', form', probes')
  BY <1>1, <1>2 DEF LookFits
<1>5. DialogTypeInv'
  BY <1>1, <1>2, <1>3 DEF DialogTypeInv
<1>6. QED
  BY <1>1, <1>3, <1>4, <1>5

(* Steps of probes leave the form and the batch alone.                     *)
LEMMA ProbesStep ==
  ASSUME DialogInv, look' \in Look, probes' \subseteq ProbeCall, LookFits(look', form, probes'),
         UNCHANGED <<form, batch, imports, refused, newTasks, announced, drop>>,
         grant' \in Granted, CallOK(call'), call'.kind # "create" \/ call' = call,
         call'.kind # "create" => call.kind # "create"
  PROVE  DialogInv'
<1> USE DEF DialogInv
<1>1. DialogTypeInv'
  BY DEF DialogTypeInv
<1>2. OnTheWay(call', imports) = OnTheWay(call, imports)
  BY DEF OnTheWay
<1>3. QED
  BY <1>1, <1>2

LEMMA TimerFiresStep ==
  ASSUME DialogInv, TimerFires
  PROVE  DialogInv'
<1>1. /\ form \in Form /\ look \in Look /\ grant \in Granted /\ probes \subseteq ProbeCall
      /\ CallOK(call)
  BY DEF DialogInv, DialogTypeInv
<1>2. form.url \in Granted /\ form.creds \in BOOLEAN /\ [look EXCEPT !.timer = FALSE] \in Look
  BY <1>1 DEF Form, Look, Granted
<1>3. look' \in Look /\ probes' \subseteq ProbeCall /\ LookFits(look', form, probes')
  BY <1>1, <1>2, DetectFits DEF TimerFires
<1>4. UNCHANGED <<form, grant, call, batch, imports, refused, newTasks, announced, drop>>
  BY DEF TimerFires
<1>5. QED
  BY <1>1, <1>3, <1>4, ProbesStep

LEMMA ProbeAnsweredStep ==
  ASSUME DialogInv, NEW p \in probes, ProbeAnswered(p)
  PROVE  DialogInv'
<1>0. /\ form \in Form /\ look \in Look /\ grant \in Granted /\ probes \subseteq ProbeCall
      /\ CallOK(call) /\ LookFits(look, form, probes) /\ p \in ProbeCall
  BY DEF DialogInv, DialogTypeInv
<1> DEFINE answer == [url |-> p.url, creds |-> p.creds, by |-> p.by]
<1>1. PICK l \in Look : /\ l.request = look.request /\ l.probing = look.probing
                        /\ l.probe = look.probe \/ l.probe = answer
                        /\ ~Accepted(p) => l = look
                        /\ look' = IF p.id = look.request
                                   THEN [l EXCEPT !.probing = FALSE, !.request = NoId] ELSE l
  <2>1. PICK ok \in BOOLEAN :
          look' = LET seen == [look EXCEPT !.probe = IF ok THEN answer ELSE @,
                                   !.blocked = IF ok THEN @ ELSE Blocked(p.url, p.grant)]
                      after == IF Accepted(p) THEN seen ELSE look
                  IN  IF p.id = look.request
                      THEN [after EXCEPT !.probing = FALSE, !.request = NoId] ELSE after
    BY DEF ProbeAnswered
  <2> DEFINE seen == [look EXCEPT !.probe = IF ok THEN answer ELSE @,
                                   !.blocked = IF ok THEN @ ELSE Blocked(p.url, p.grant)]
  <2>2. answer \in ProbeResult
    BY <1>0 DEF ProbeCall, ProbeResult
  <2>3. Blocked(p.url, p.grant) \in BOOLEAN
    <3>1. CASE p.grant = NoUrl
      BY <3>1 DEF Blocked
    <3>2. CASE p.grant # NoUrl
      BY <3>2, Zenon DEF Blocked
    <3>3. QED
      BY <3>1, <3>2
  <2>4. seen \in Look /\ seen.request = look.request /\ seen.probing = look.probing
        /\ (seen.probe = look.probe \/ seen.probe = answer)
    BY <1>0, <2>2, <2>3 DEF Look
  <2> HIDE DEF seen, answer
  <2>5. look' = LET after == IF Accepted(p) THEN seen ELSE look
                IN  IF p.id = look.request
                    THEN [after EXCEPT !.probing = FALSE, !.request = NoId] ELSE after
    BY <2>1 DEF seen
  <2>6. CASE Accepted(p)
    BY <2>4, <2>5, <2>6
  <2>7. CASE ~Accepted(p)
    BY <1>0, <2>5, <2>7
  <2>8. QED
    BY <2>6, <2>7
<1>2. /\ probes' = probes \ {p} /\ UNCHANGED <<form, grant, batch, imports, refused, newTasks, announced, drop>>
      /\ call' = call \/ (call.kind = "detect" /\ call' = NoCall)
  BY DEF ProbeAnswered
<1>3. look' \in Look
  BY <1>1 DEF Look
<1>4. p.id # NoId /\ \A q \in probes : q.id # NoId
  BY <1>0, DialogIds DEF ProbeCall
<1>5. look'.probe # NoProbe => /\ look'.probe.url = form.url
                               /\ look'.probe.by = "timer" => look'.probe.creds = form.creds
  <2>1. look'.probe = l.probe
    BY <1>1 DEF Look
  <2>2. CASE l.probe = look.probe
    BY <1>0, <2>1, <2>2 DEF LookFits
  <2>3. CASE l.probe = answer /\ Accepted(p)
    BY <1>0, <2>1, <2>3 DEF LookFits, Accepted
  <2>4. QED
    BY <1>1, <2>2, <2>3
<1>6. /\ look'.probing => look.probing /\ p.id # look.request
      /\ look'.request = look.request \/ look'.request = NoId
      /\ look'.probing => look'.request = look.request
  BY <1>1 DEF Look
<1>7. LookFits(look', form, probes')
  <2>1. look'.probing => \E q \in probes' : q.id = look'.request
    BY <1>0, <1>2, <1>6 DEF LookFits
  <2>2. \A q \in probes' : q.id = look'.request /\ q.by = "timer" => q.creds = form.creds
    BY <1>0, <1>2, <1>4, <1>6 DEF LookFits
  <2>3. QED
    BY <1>5, <2>1, <2>2 DEF LookFits
<1>8. CallOK(call') /\ (call'.kind # "create" \/ call' = call)
      /\ (call'.kind # "create" => call.kind # "create")
  BY <1>0, <1>2 DEF CallOK, NoCall
<1>9. QED
  BY <1>0, <1>2, <1>3, <1>7, <1>8, ProbesStep

LEMMA AuthorizeStep ==
  ASSUME DialogInv, authorizeCurrentTarget \/ Authorized
  PROVE  DialogInv'
<1>0. /\ form \in Form /\ look \in Look /\ grant \in Granted /\ probes \subseteq ProbeCall
      /\ CallOK(call) /\ LookFits(look, form, probes)
  BY DEF DialogInv, DialogTypeInv
<1>1. CASE authorizeCurrentTarget
  <2>1. /\ UNCHANGED <<form, grant, look, probes, batch, imports, refused, newTasks, announced, drop>>
        /\ call = NoCall /\ form.url # NoUrl
        /\ call' = [kind |-> "authorize", url |-> form.url, creds |-> form.creds, grant |-> grant]
    BY <1>1 DEF authorizeCurrentTarget, submitting
  <2>2. CallOK(call') /\ call'.kind # "create" /\ call.kind # "create"
    BY <1>0, <2>1 DEF CallOK, Form, Granted, NoCall
  <2>3. QED
    BY <1>0, <2>1, <2>2, ProbesStep
<1>2. CASE Authorized
  <2>1. call.kind = "authorize" /\ UNCHANGED <<form, batch, imports, refused, newTasks, announced, drop>>
    BY <1>2 DEF Authorized
  <2>2. call.url \in Links /\ call.creds \in BOOLEAN /\ call.grant \in Granted
    BY <1>0, <2>1 DEF CallOK
  <2>3. CallOK(call') /\ call'.kind # "create" /\ call.kind # "create"
    BY <1>2, <2>1 DEF Authorized, CallOK, NoCall
  <2>4. grant' \in Granted
    BY <1>0, <1>2, <2>2 DEF Authorized, Granted
  <2>5. /\ look' \in Look /\ probes' \subseteq ProbeCall /\ LookFits(look', form, probes')
    <3>1. CASE detect([look EXCEPT !.blocked = FALSE], call.url, call.creds, call.grant, "authorization")
      <4>1. [look EXCEPT !.blocked = FALSE] \in Look /\ call.url \in Granted
        BY <1>0, <2>2 DEF Look, Granted
      <4>2. QED
        BY <1>0, <2>2, <3>1, <4>1, DetectFits
    <3>2. CASE UNCHANGED <<look, probes>>
      BY <1>0, <3>2
    <3>3. QED
      BY <1>2, <3>1, <3>2 DEF Authorized
  <2>6. QED
    BY <2>1, <2>3, <2>4, <2>5, ProbesStep
<1>3. QED
  BY <1>1, <1>2

-------------------------------------------------------------------------------
LEMMA SubmitStep ==
  ASSUME DialogInv, submitCurrent \/ createTask
  PROVE  DialogInv'
<1> USE DEF DialogInv
<1>0. form.url \in Granted /\ grant \in Granted
  BY DEF DialogTypeInv, Form, Granted
<1>1. UNCHANGED <<form, grant, look, probes, batch, imports, refused, announced, drop>>
  BY DEF submitCurrent, createTask
<1>2. CASE submitCurrent
  <2>1. /\ call = NoCall /\ newTasks' = newTasks /\ form.url # NoUrl
        /\ call' = [kind |-> "create", url |-> form.url, grant |-> grant, made |-> FALSE]
    BY <1>2 DEF submitCurrent, submitting
  <2>2. call' \in CreateCall /\ call.kind # "create" /\ ~call'.made
    BY <1>0, <2>1 DEF CreateCall, NoCall, Granted
  <2>3. OnTheWay(call', imports) = OnTheWay(call, imports)
    BY <2>2 DEF OnTheWay
  <2>4. CallOK(call')
    BY <2>1, <2>2 DEF CallOK
  <2>5. DialogTypeInv'
    BY <1>1, <2>1, <2>4 DEF DialogTypeInv
  <2>6. QED
    BY <1>1, <2>1, <2>3, <2>5
<1>3. CASE createTask
  <2>1. /\ call.kind = "create" /\ ~call.made
        /\ call' = [call EXCEPT !.made = TRUE] /\ newTasks' = newTasks \cup {call.url}
    BY <1>3 DEF createTask
  <2>2. call \in CreateCall /\ call.url \in Links
    BY <2>1 DEF DialogTypeInv, CallOK, CreateCall
  <2>3. call' \in CreateCall /\ call'.kind = "create" /\ call'.url = call.url /\ call'.made
    BY <2>1, <2>2 DEF CreateCall
  <2>4. CallOK(call')
    BY <2>3 DEF CallOK
  <2>5. OnTheWay(call', imports) = OnTheWay(call, imports) \cup {call.url}
    BY <2>1, <2>2, <2>3 DEF OnTheWay
  <2>6. DialogTypeInv'
    BY <1>1, <2>1, <2>2, <2>4 DEF DialogTypeInv
  <2>7. newTasks' \ announced' \subseteq OnTheWay(call', imports')
    BY <1>1, <2>1, <2>5
  <2>8. QED
    BY <1>1, <2>6, <2>7
<1>4. QED
  BY <1>2, <1>3

LEMMA SubmitAnsweredStep ==
  ASSUME DialogInv, SubmitAnswered
  PROVE  DialogInv'
<1> USE DEF DialogInv
<1>1. /\ call.kind = "create" /\ call' = NoCall /\ call \in CreateCall
      /\ UNCHANGED <<probes, refused, newTasks, drop>>
  BY DEF SubmitAnswered, DialogTypeInv, CallOK
<1>2. CallOK(call') /\ call'.kind # "create" /\ call.url \in Links
  BY <1>1 DEF CallOK, NoCall, CreateCall
<1>3. CASE call.made
  <2>1. /\ announced' = announced \cup {call.url}
        /\ Render(EmptyForm, ResetLook)
        /\ batch' = invalidateBatchPreview(batch) /\ imports' = Outdated(imports)
        /\ grant' = NoUrl
    BY <1>3 DEF SubmitAnswered
  <2>2. EmptyForm \in Form
    BY DEF EmptyForm, Form
  <2>3. ResetLook \in Look /\ LookFits(ResetLook, form, probes)
    BY ResetLookFits DEF DialogTypeInv
  <2>4. form' = EmptyForm /\ look' \in Look /\ LookFits(look', EmptyForm, probes)
    BY <2>1, <2>2, <2>3, RenderFits DEF DialogTypeInv
  <2>5. batch' \in Batch /\ imports' \subseteq ImportCall /\ BatchFits(batch', EmptyForm, imports')
        /\ \A c : OnTheWay(c, imports') = OnTheWay(c, imports)
    BY <2>1, <2>2, OutdatedFits DEF DialogTypeInv
  <2>6. DialogTypeInv'
    BY <1>1, <1>2, <2>1, <2>2, <2>4, <2>5 DEF DialogTypeInv, Granted
  <2>7. newTasks' \ announced' \subseteq OnTheWay(call', imports')
    <3>1. OnTheWay(call, imports) \subseteq OnTheWay(call', imports) \cup {call.url}
      BY DEF OnTheWay
    <3>2. QED
      BY <1>1, <2>1, <2>5, <3>1
  <2>8. QED
    BY <1>1, <2>4, <2>5, <2>6, <2>7
<1>4. CASE ~call.made
  <2>1. /\ look' = [look EXCEPT !.blocked = Blocked(call.url, call.grant)]
        /\ UNCHANGED <<form, grant, batch, imports, announced>>
    BY <1>4 DEF SubmitAnswered
  <2>2. PICK b \in BOOLEAN : look' = [look EXCEPT !.blocked = b]
    <3>1. Blocked(call.url, call.grant) \in BOOLEAN
      <4>1. CASE call.grant = NoUrl
        BY <4>1 DEF Blocked
      <4>2. CASE call.grant # NoUrl
        BY <4>2, Zenon DEF Blocked
      <4>3. QED
        BY <4>1, <4>2
    <3>2. QED
      BY <2>1, <3>1
  <2>3. look' \in Look /\ look'.probe = look.probe /\ look'.probing = look.probing
        /\ look'.request = look.request
    BY <2>2 DEF DialogTypeInv, Look
  <2>4. LookFits(look', form', probes')
    BY <1>1, <2>1, <2>3 DEF LookFits
  <2>5. OnTheWay(call', imports) = OnTheWay(call, imports)
    BY <1>2, <1>4 DEF OnTheWay
  <2>6. DialogTypeInv'
    BY <1>1, <1>2, <2>1, <2>3 DEF DialogTypeInv
  <2>7. QED
    BY <1>1, <2>1, <2>4, <2>5, <2>6
<1>5. QED
  BY <1>1, <1>3, <1>4 DEF CreateCall

-------------------------------------------------------------------------------
(* Steps of imports leave the probes alone; only an answer changes lines.  *)
LEMMA ImportsStep ==
  ASSUME DialogInv, batch' \in Batch, imports' \subseteq ImportCall, form' \in Form,
         form'.url = form.url, form'.creds = form.creds,
         BatchFits(batch', form', imports'), newTasks' \subseteq Links, announced' \subseteq Links,
         refused' \subseteq Links, newTasks' \ announced' \subseteq OnTheWay(call, imports'),
         UNCHANGED <<grant, look, probes, call, drop>>
  PROVE  DialogInv'
<1> USE DEF DialogInv
<1>1. DialogTypeInv'
  BY DEF DialogTypeInv
<1>2. LookFits(look', form', probes')
  BY DEF LookFits
<1>3. QED
  BY <1>1, <1>2

(* What is known of the call that Import makes.                            *)
LEMMA ImportType ==
  ASSUME form \in Form, grant \in Granted, NEW id \in Ids, NEW create \in BOOLEAN,
         NEW lines \in SUBSET Links, NEW again \in {"no", "retry", "duplicates"}
  PROVE  LET i == Import(id, create, lines, again)
         IN  /\ i \in ImportCall /\ i.id = id /\ i.create = create /\ i.made = {}
             /\ i.lines = lines /\ i.creds = form.creds /\ i.saveDir = form.saveDir
BY DEF Import, ImportCall, Form

LEMMA RunBatchStep ==
  ASSUME DialogInv, RunBatch
  PROVE  DialogInv'
<1>0. /\ form \in Form /\ grant \in Granted /\ refused \subseteq Links /\ batch \in Batch
      /\ imports \subseteq ImportCall /\ BatchFits(batch, form, imports) /\ form.lines \subseteq Links
      /\ newTasks \ announced \subseteq OnTheWay(call, imports)
      /\ newTasks \subseteq Links /\ announced \subseteq Links
  BY DEF DialogInv, DialogTypeInv, Form
<1>1. PICK create \in BOOLEAN, lines \in SUBSET Links, again \in {"no", "retry", "duplicates"} :
        runBatch(create, lines, again) /\ (~create => lines = form.lines)
  BY <1>0 DEF RunBatch
<1>2. PICK id \in FreshIds(imports) : /\ imports' = imports \cup {Import(id, create, lines, again)}
                                     /\ batch' = Owned(batch, id, create)
  BY <1>1 DEF runBatch
<1>3. UNCHANGED <<form, grant, look, probes, call, refused, newTasks, announced, drop>>
  BY <1>1 DEF runBatch
<1>4. id \in Ids
  BY DialogIds
<1>5. PICK i \in ImportCall : /\ i = Import(id, create, lines, again)
                              /\ i.id = id /\ i.create = create /\ i.made = {}
                              /\ i.lines = lines /\ i.creds = form.creds /\ i.saveDir = form.saveDir
  BY <1>0, <1>4, ImportType
<1>6. batch' \in Batch /\ batch'.result = batch.result
  BY <1>0, <1>2, <1>4 DEF Owned, Batch
<1>7. BatchFits(batch', form, imports \cup {i}) /\ \A c : OnTheWay(c, imports \cup {i}) = OnTheWay(c, imports)
  BY <1>0, <1>1, <1>2, <1>5, <1>6, ImportFits
<1>8. QED
  BY <1>0, <1>2, <1>3, <1>5, <1>6, <1>7, ImportsStep

LEMMA ImportUrlsStep ==
  ASSUME DialogInv, NEW i \in imports, importUrls(i)
  PROVE  DialogInv'
<1>0. /\ form \in Form /\ refused \subseteq Links /\ batch \in Batch /\ i \in ImportCall
      /\ imports \subseteq ImportCall /\ BatchFits(batch, form, imports)
      /\ newTasks \ announced \subseteq OnTheWay(call, imports)
      /\ newTasks \subseteq Links /\ announced \subseteq Links
  BY DEF DialogInv, DialogTypeInv
<1>1. PICK made \in SUBSET Links : /\ imports' = (imports \ {i}) \cup {[i EXCEPT !.made = made]}
                                  /\ newTasks' = newTasks \cup made
  BY <1>0 DEF importUrls, ImportCall
<1>2. /\ i.create /\ i.made = {}
      /\ UNCHANGED <<form, grant, look, probes, call, batch, refused, announced, drop>>
  BY DEF importUrls
<1>3. PICK j \in ImportCall : /\ j = [i EXCEPT !.made = made]
                              /\ j.id = i.id /\ j.create /\ j.made = made
  <2>1. [i EXCEPT !.made = made] \in ImportCall
    BY <1>0 DEF ImportCall
  <2>2. [i EXCEPT !.made = made].id = i.id /\ [i EXCEPT !.made = made].made = made
    BY <1>0 DEF ImportCall
  <2>3. [i EXCEPT !.made = made].create = i.create
    BY <1>0 DEF ImportCall
  <2>4. QED
    BY <1>2, <2>1, <2>2, <2>3
<1>4. imports' = (imports \ {i}) \cup {j}
  BY <1>1, <1>3
<1>5. BatchFits(batch, form, imports')
  <2>1. batch.preview # NoId => \E k \in imports' : k.id = batch.preview /\ ~k.create
    BY <1>0, <1>2, <1>4 DEF BatchFits
  <2>2. batch.creation # NoId => \E k \in imports' : k.id = batch.creation /\ k.create
    BY <1>0, <1>3, <1>4 DEF BatchFits
  <2>3. QED
    BY <1>0, <1>3, <1>4, <2>1, <2>2 DEF BatchFits
<1>6. newTasks' \ announced' \subseteq OnTheWay(call, imports')
  <2>1. OnTheWay(call, imports) \cup made \subseteq OnTheWay(call, imports')
    BY <1>2, <1>3, <1>4 DEF OnTheWay
  <2>2. QED
    BY <1>0, <1>1, <1>2, <2>1
<1>7. QED
  BY <1>0, <1>1, <1>2, <1>3, <1>4, <1>5, <1>6, ImportsStep

LEMMA PreviewAnsweredStep ==
  ASSUME DialogInv, NEW i \in imports, PreviewAnswered(i)
  PROVE  DialogInv'
<1>0. /\ form \in Form /\ refused \subseteq Links /\ batch \in Batch /\ i \in ImportCall
      /\ imports \subseteq ImportCall /\ BatchFits(batch, form, imports)
      /\ newTasks \ announced \subseteq OnTheWay(call, imports)
      /\ newTasks \subseteq Links /\ announced \subseteq Links
  BY DEF DialogInv, DialogTypeInv
<1> DEFINE result == [lines |-> i.lines, creds |-> i.creds, saveDir |-> i.saveDir]
<1>1. PICK b \in Batch : /\ batch' = Disowned(b, i)
                         /\ b = batch \/ (PreviewAccepted(i) /\ b = [batch EXCEPT !.result = result])
  <2>1. result \in Preview
    BY <1>0 DEF ImportCall, Preview
  <2>2. [batch EXCEPT !.result = result] \in Batch
    BY <1>0, <2>1 DEF Batch
  <2>3. QED
    BY <1>0, <2>2 DEF PreviewAnswered
<1>2. /\ ~i.create /\ imports' = imports \ {i}
      /\ UNCHANGED <<form, grant, look, probes, call, refused, newTasks, announced, drop>>
  BY DEF PreviewAnswered
<1>3. BatchFits(b, form, imports)
  <2>1. CASE PreviewAccepted(i) /\ b = [batch EXCEPT !.result = result]
    <3>1. result = Shows(form)
      BY <1>0, <1>2, <2>1 DEF BatchFits, PreviewAccepted, Shows
    <3>2. b.result = result /\ b.preview = batch.preview /\ b.creation = batch.creation
      BY <1>0, <2>1 DEF Batch
    <3>3. QED
      BY <1>0, <3>1, <3>2 DEF BatchFits
  <2>2. QED
    BY <1>0, <1>1, <2>1
<1>4. batch' \in Batch /\ BatchFits(batch', form, imports')
  <2>1. \A j \in imports \ imports' : j = i
    BY <1>2
  <2>2. imports' \in SUBSET imports
    BY <1>2
  <2>3. QED
    BY <1>0, <1>1, <1>3, <2>1, <2>2, DisownedFits
<1>5. OnTheWay(call, imports') = OnTheWay(call, imports)
  <2>1. i.made = {}
    BY <1>0, <1>2 DEF BatchFits
  <2>2. QED
    BY <1>2, <2>1 DEF OnTheWay
<1>6. QED
  BY <1>0, <1>2, <1>4, <1>5, ImportsStep

LEMMA BatchAnsweredStep ==
  ASSUME DialogInv, NEW i \in imports, BatchAnswered(i)
  PROVE  DialogInv'
<1>0. /\ form \in Form /\ refused \subseteq Links /\ batch \in Batch /\ i \in ImportCall
      /\ imports \subseteq ImportCall /\ BatchFits(batch, form, imports)
      /\ newTasks \ announced \subseteq OnTheWay(call, imports)
      /\ newTasks \subseteq Links /\ announced \subseteq Links
      /\ i.made \subseteq Links /\ i.lines \subseteq Links /\ i.shown \subseteq Links
  BY DEF DialogInv, DialogTypeInv, ImportCall
<1> DEFINE left == (IF i.again = "no" THEN i.lines ELSE i.shown) \ i.made
           rest == imports \ {i}
<1>1. PICK rewritten \in BOOLEAN :
        /\ form' = [form EXCEPT !.lines = IF rewritten THEN left ELSE @]
        /\ batch' = Disowned(IF rewritten THEN invalidateBatchPreview(batch) ELSE batch, i)
        /\ imports' = IF rewritten THEN Outdated(rest) ELSE rest
        /\ refused' \subseteq refused \cup i.lines
  BY DEF BatchAnswered
<1>2. /\ announced' = announced \cup i.made /\ i.create
      /\ UNCHANGED <<grant, look, probes, call, newTasks, drop>>
  BY DEF BatchAnswered, Announced
<1>3. left \subseteq Links /\ refused' \subseteq Links
  BY <1>0, <1>1
<1> HIDE DEF left, rest
<1>4. form' \in Form /\ form'.url = form.url /\ form'.creds = form.creds
  BY <1>0, <1>1, <1>3 DEF Form
<1>5. rest \in SUBSET imports /\ rest \in SUBSET ImportCall /\ \A j \in imports \ rest : j = i
  BY <1>0 DEF rest
<1>6. /\ batch' \in Batch /\ imports' \subseteq ImportCall /\ BatchFits(batch', form', imports')
      /\ OnTheWay(call, imports') = OnTheWay(call, rest)
  <2>1. CASE ~rewritten
    <3>1. form' = form
      BY <1>0, <1>1, <2>1 DEF Form
    <3>2. Disowned(batch, i) \in Batch /\ BatchFits(Disowned(batch, i), form, rest)
      BY <1>0, <1>5, DisownedFits
    <3>3. QED
      BY <1>1, <1>5, <2>1, <3>1, <3>2
  <2>2. CASE rewritten
    <3>1. PICK b \in Batch : /\ b = invalidateBatchPreview(batch)
                             /\ BatchFits(b, form', Outdated(imports))
      BY <1>0, <1>4, OutdatedFits
    <3>2. Disowned(batch, i) \in Batch /\ BatchFits(Disowned(batch, i), form, rest)
      BY <1>0, <1>5, DisownedFits
    <3>3. /\ invalidateBatchPreview(Disowned(batch, i)) \in Batch
          /\ Outdated(rest) \subseteq ImportCall
          /\ BatchFits(invalidateBatchPreview(Disowned(batch, i)), form', Outdated(rest))
          /\ OnTheWay(call, Outdated(rest)) = OnTheWay(call, rest)
      BY <1>0, <1>4, <1>5, <3>2, OutdatedFits
    <3>4. Disowned(invalidateBatchPreview(batch), i) = invalidateBatchPreview(Disowned(batch, i))
      BY <1>0, DialogIds DEF Disowned, invalidateBatchPreview, Batch, ImportCall
    <3>5. QED
      BY <1>1, <2>2, <3>3, <3>4
  <2>3. QED
    BY <2>1, <2>2
<1>7. newTasks' \ announced' \subseteq OnTheWay(call, imports')
  <2>1. OnTheWay(call, imports) \subseteq OnTheWay(call, rest) \cup i.made
    BY DEF OnTheWay, rest
  <2>2. QED
    BY <1>0, <1>2, <1>6, <2>1
<1>8. announced' \subseteq Links /\ newTasks' \subseteq Links
  BY <1>0, <1>2
<1>9. QED
  BY <1>2, <1>3, <1>4, <1>6, <1>7, <1>8, ImportsStep

-------------------------------------------------------------------------------
(* The lines of the form are replaced, and previewed if nothing is owned.  *)
LEMMA PreviewAtOnceFits ==
  ASSUME DialogInv, NEW f \in Form, NEW lines \in SUBSET Links, NEW kept \in BOOLEAN,
         f.lines = lines, kept => f.creds = form.creds /\ f.saveDir = form.saveDir,
         PreviewAtOnce(lines, kept)
  PROVE  /\ batch' \in Batch /\ imports' \subseteq ImportCall /\ BatchFits(batch', f, imports')
         /\ \A c : OnTheWay(c, imports') = OnTheWay(c, imports)
<1>0. /\ form \in Form /\ grant \in Granted /\ batch \in Batch
      /\ imports \in SUBSET ImportCall /\ BatchFits(batch, form, imports)
  BY DEF DialogInv, DialogTypeInv
<1> DEFINE b == invalidateBatchPreview(batch)
           batches == Outdated(imports)
<1>1. /\ b \in Batch /\ batches \in SUBSET ImportCall /\ BatchFits(b, f, batches)
      /\ \A c : OnTheWay(c, batches) = OnTheWay(c, imports)
  BY <1>0, OutdatedFits
<1>2. b.preview = NoId /\ b.result = NoResult /\ b.creation = batch.creation
  BY <1>0 DEF invalidateBatchPreview, Batch
<1>3. CASE batch' = b /\ imports' = batches
  BY <1>1, <1>3
<1>4. CASE \E id \in FreshIds(imports) :
             /\ batch' = [b EXCEPT !.preview = IF kept THEN id ELSE NoId]
             /\ imports' = batches \cup {[Import(id, FALSE, lines, "no") EXCEPT !.current = kept]}
  <2>1. PICK id \in FreshIds(imports) :
             /\ batch' = [b EXCEPT !.preview = IF kept THEN id ELSE NoId]
             /\ imports' = batches \cup {[Import(id, FALSE, lines, "no") EXCEPT !.current = kept]}
    BY <1>4
  <2>2. id \in Ids /\ \A c \in batches : c.id # id
    BY <1>0, DialogIds, OutdatedCalls
  <2>3. PICK j \in ImportCall : /\ j = Import(id, FALSE, lines, "no")
                                /\ j.id = id /\ j.create = FALSE /\ j.made = {}
                                /\ j.lines = lines /\ j.creds = form.creds /\ j.saveDir = form.saveDir
    <3>1. PICK create \in BOOLEAN : create = FALSE
      OBVIOUS
    <3>2. LET j == Import(id, create, lines, "no")
          IN  /\ j \in ImportCall /\ j.id = id /\ j.create = create /\ j.made = {}
              /\ j.lines = lines /\ j.creds = form.creds /\ j.saveDir = form.saveDir
      BY <1>0, <2>2, ImportType
    <3>3. QED
      BY <3>1, <3>2
  <2>4. PICK i \in ImportCall : i = [j EXCEPT !.current = kept]
    BY <2>3 DEF ImportCall
  <2>5. /\ i.id = id /\ i.made = {} /\ i.lines = lines /\ i.creds = form.creds
        /\ i.saveDir = form.saveDir
    BY <2>3, <2>4 DEF ImportCall
  <2>6. ~i.create /\ i.current = kept
    BY <2>3, <2>4 DEF ImportCall
  <2>7. batch' \in Batch /\ batch'.result = NoResult /\ batch'.creation = b.creation
        /\ batch'.preview = IF kept THEN id ELSE NoId
    BY <1>1, <1>2, <2>1, <2>2 DEF Batch
  <2>8. imports' = batches \cup {i}
    BY <2>1, <2>3, <2>4
  <2> HIDE DEF b, batches
  <2>9. BatchFits(batch', f, imports')
    <3>1. batch'.result # NoResult => batch'.result = Shows(f)
      BY <2>7
    <3>2. batch'.preview # NoId => \E c \in imports' : c.id = batch'.preview /\ ~c.create
      BY <2>5, <2>6, <2>7, <2>8
    <3>3. batch'.creation # NoId => \E c \in imports' : c.id = batch'.creation /\ c.create
      BY <1>1, <2>7, <2>8 DEF BatchFits
    <3>4. \A c \in imports' : ~c.create /\ c.current /\ c.id = batch'.preview =>
             c.lines = f.lines /\ c.creds = f.creds /\ c.saveDir = f.saveDir
      <4>1. \A c \in batches : ~c.current
        BY <1>0, OutdatedCalls DEF batches
      <4>2. i.current => i.lines = f.lines /\ i.creds = f.creds /\ i.saveDir = f.saveDir
        BY <2>5, <2>6
      <4>3. QED
        BY <2>8, <4>1, <4>2
    <3>5. \A c \in imports' : c.made # {} => c.create
      BY <1>1, <2>5, <2>8 DEF BatchFits
    <3>6. QED
      BY <3>1, <3>2, <3>3, <3>4, <3>5 DEF BatchFits
  <2>10. \A c : OnTheWay(c, imports') = OnTheWay(c, batches)
    BY <2>5, <2>8 DEF OnTheWay
  <2>11. QED
    BY <1>1, <2>7, <2>8, <2>9, <2>10
<1>5. QED
  BY <1>3, <1>4 DEF PreviewAtOnce

LEMMA SourcesAreForms ==
  \A f \in Sources : f \in Form /\ ~f.creds /\ ~f.saveDir
BY DEF Sources, FromUrl, FromLines, EmptyForm, Form

LEMMA ApplySourceStep ==
  ASSUME DialogInv, NEW f \in Sources, ApplySource(f), drop' = drop \/ drop' = NoDrop
  PROVE  DialogInv'
<1> USE DEF DialogInv
<1>0. f \in Form /\ f.creds = FALSE /\ f.saveDir = FALSE /\ f.lines \subseteq Links
      /\ form.creds \in BOOLEAN /\ form.saveDir \in BOOLEAN
  BY SourcesAreForms DEF Form, DialogTypeInv
<1>1. Render(f, ResetLook) /\ grant' = NoUrl /\ UNCHANGED <<probes, call, refused, newTasks, announced>>
  BY DEF ApplySource
<1>2. ResetLook \in Look /\ LookFits(ResetLook, form, probes)
  BY ResetLookFits DEF DialogTypeInv
<1>3. form' = f /\ look' \in Look /\ LookFits(look', f, probes)
  BY <1>0, <1>1, <1>2, RenderFits DEF DialogTypeInv
<1>4. batch' \in Batch /\ imports' \subseteq ImportCall /\ BatchFits(batch', f, imports')
      /\ \A c : OnTheWay(c, imports') = OnTheWay(c, imports)
  <2>1. CASE f.mode = "batch"
    <3>1. PICK kept \in BOOLEAN : kept = (~form.creds /\ ~form.saveDir)
      OBVIOUS
    <3>2. kept => f.creds = form.creds /\ f.saveDir = form.saveDir
      BY <1>0, <3>1
    <3>3. PreviewAtOnce(f.lines, kept)
      BY <2>1, <3>1 DEF ApplySource
    <3>4. QED
      BY <1>0, <3>2, <3>3, PreviewAtOnceFits
  <2>2. CASE f.mode # "batch"
    <3>1. batch' = invalidateBatchPreview(batch) /\ imports' = Outdated(imports)
      BY <2>2 DEF ApplySource
    <3>2. QED
      BY <1>0, <3>1, OutdatedFits DEF DialogTypeInv
  <2>3. QED
    BY <2>1, <2>2
<1>5. DialogTypeInv'
  BY <1>0, <1>1, <1>3, <1>4 DEF DialogTypeInv, Granted
<1>6. QED
  BY <1>1, <1>3, <1>4, <1>5

LEMMA SourceStep ==
  ASSUME DialogInv, \/ \E url \in Private : BrowserAsks(url)
                    \/ \E f \in Sources : AcceptSource(f) \/ DropFile(f)
                    \/ DropResolved
  PROVE  DialogInv'
<1>1. ASSUME NEW url \in Private, BrowserAsks(url) PROVE DialogInv'
  <2>1. FromUrl(url) \in Sources
    BY NewDownloadAssumption DEF Sources
  <2>2. QED
    BY <1>1, <2>1, ApplySourceStep DEF BrowserAsks
<1>2. ASSUME NEW f \in Sources, AcceptSource(f) PROVE DialogInv'
  BY <1>2, ApplySourceStep DEF AcceptSource
<1>3. ASSUME NEW f \in Sources, DropFile(f) PROVE DialogInv'
  <2>1. /\ drop' = [kind |-> "file", dirty |-> Dirty(form), source |-> f]
        /\ UNCHANGED <<form, grant, look, probes, call, batch, imports, refused, newTasks, announced>>
    BY <1>3 DEF DropFile
  <2>2. drop'.source \in Sources
    BY <2>1
  <2>3. QED
    BY <2>1, <2>2 DEF DialogInv, DialogTypeInv
<1>4. CASE DropResolved
  <2>1. drop # NoDrop /\ drop' = NoDrop
    BY <1>4 DEF DropResolved
  <2>2. drop.source \in Sources
    BY <2>1 DEF DialogInv, DialogTypeInv
  <2>3. CASE drop.dirty
    <3>1. UNCHANGED <<form, grant, look, probes, call, batch, imports, refused, newTasks, announced>>
      BY <1>4, <2>3 DEF DropResolved
    <3>2. QED
      BY <2>1, <3>1 DEF DialogInv, DialogTypeInv
  <2>4. CASE ~drop.dirty
    BY <1>4, <2>1, <2>2, <2>4, ApplySourceStep DEF DropResolved
  <2>5. QED
    BY <2>3, <2>4
<1>5. QED
  BY <1>1, <1>2, <1>3, <1>4

LEMMA LocalFileStep ==
  ASSUME DialogInv, NEW lines \in SUBSET Links, chooseLocalFile(lines)
  PROVE  DialogInv'
<1> USE DEF DialogInv
<1> DEFINE f == [form EXCEPT !.mode = "batch", !.lines = lines]
<1>1. f \in Form /\ f.lines = lines /\ f.creds = form.creds /\ f.saveDir = form.saveDir
  BY DEF DialogTypeInv, Form
<1>2. Render(f, look) /\ PreviewAtOnce(lines, TRUE)
      /\ UNCHANGED <<grant, probes, call, refused, newTasks, announced, drop>>
  BY DEF chooseLocalFile
<1> HIDE DEF f
<1>3. form' = f /\ look' \in Look /\ LookFits(look', f, probes)
  BY <1>1, <1>2, RenderFits DEF DialogTypeInv
<1>4. batch' \in Batch /\ imports' \subseteq ImportCall /\ BatchFits(batch', f, imports')
      /\ \A c : OnTheWay(c, imports') = OnTheWay(c, imports)
  <2>1. PICK kept \in BOOLEAN : kept = TRUE /\ PreviewAtOnce(lines, kept)
    BY <1>2
  <2>2. QED
    BY <1>1, <2>1, PreviewAtOnceFits
<1>5. DialogTypeInv'
  BY <1>1, <1>2, <1>3, <1>4 DEF DialogTypeInv
<1>6. QED
  BY <1>2, <1>3, <1>4, <1>5

LEMMA DialogInvNext == DialogInv /\ [DialogNext]_dialogVars => DialogInv'
<1>1. ASSUME DialogInv, UNCHANGED dialogVars PROVE DialogInv'
  BY <1>1 DEF DialogInv, DialogTypeInv, dialogVars
<1>2. ASSUME DialogInv, NEW i \in imports, importUrls(i) \/ PreviewAnswered(i) \/ BatchAnswered(i)
      PROVE  DialogInv'
  BY <1>2, ImportUrlsStep, PreviewAnsweredStep, BatchAnsweredStep
<1>3. QED
  BY <1>1, <1>2, EditsStep, BatchInputStep, TimerFiresStep, ProbeAnsweredStep, AuthorizeStep,
     SubmitStep, SubmitAnsweredStep, RunBatchStep, SourceStep, LocalFileStep
  DEF DialogNext, Granted

THEOREM DialogInvAlways == DialogSpec => []DialogInv
BY DialogInvInit, DialogInvNext, PTL DEF DialogSpec

(* Every variable of the dialog keeps to its type.                         *)
THEOREM DialogTypeAlways == DialogSpec => []DialogTypeOK
<1>1. DialogInv => DialogTypeOK
  BY DEF DialogInv, DialogTypeInv, DialogTypeOK, Form, Look, Batch, Granted
<1>2. QED
  BY <1>1, DialogInvAlways, PTL

(* What the dialog shows is of what stands in it, and what it made comes   *)
(* into the list.                                                          *)
THEOREM DialogIsSoundAlways == DialogSpec => []DialogIsSound
<1>1. DialogInv => ProbeIsCurrent
  BY DEF DialogInv, LookFits, ProbeIsCurrent
<1>2. DialogInv => PreviewIsCurrent
  BY DEF DialogInv, BatchFits, Shows, PreviewIsCurrent
<1>3. DialogInv => CreatedIsAnnounced
  BY DEF DialogInv, OnTheWay, CreatedIsAnnounced
<1>4. DialogInv => DialogIsSound
  BY <1>1, <1>2, <1>3 DEF DialogIsSound, DialogIsCurrent
<1>5. QED
  BY <1>4, DialogInvAlways, PTL

-------------------------------------------------------------------------------
(* DetailPanes                                                             *)

USE DEF Shown

TaskStatuses == {"queued", "downloading", "paused", "completed"}
BackTask == [status : TaskStatuses, version : Nat, since : Nat]
PaneCall == [task : PaneTasks, version : Nat, poll : BOOLEAN, current : BOOLEAN]
View == [task : PaneTasks, tab : Tabs, hidden : BOOLEAN]

PaneTypeInv ==
    /\ pane \in Panes /\ paneView \in View
    /\ backTask \in [PaneTasks -> BackTask]
    /\ uiStatus \in [PaneTasks -> TaskStatuses]
    /\ calls \subseteq PaneCall
    /\ rows \in [task : PaneTasks, version : Nat] \cup {NoRows}
    /\ appended \subseteq PaneTasks
    /\ timer \in BOOLEAN /\ pollFailed \in BOOLEAN
    /\ \A t \in PaneTasks : backTask[t].since <= backTask[t].version

(* The pane is on screen, as far as its task and tab decide.               *)
OnScreen == Enabled(paneView, uiStatus[Shown])

(* The interval runs while a pane that polls is on screen and visible.     *)
TimerInv == timer = (OnScreen /\ Visible(paneView) /\ Polls(uiStatus[Shown]))

(* A poll that may still answer is of the task that is shown.              *)
CallsInv == \A c \in calls : c.poll /\ c.current => c.task = Shown

RowsInv == rows # NoRows /\ pane # "media" => rows.task = Shown

(* An answer for `task` of `version` is the last one that is needed.       *)
Fetched(task, version) == task = Shown /\ (RunGoesOn \/ version >= backTask[Shown].since)
RowsFetched == rows # NoRows /\ Fetched(rows.task, rows.version)

(* A pane that no interval refreshes any more has fetched what it shows    *)
(* after its last run, is about to, or shows an error; while the window is *)
(* hidden it may have nothing, but what it asked for was asked late enough.*)
Resting == pane # "ranges" /\ OnScreen /\ ~Polls(uiStatus[Shown])
LastFetchInv ==
    Resting =>
        /\ \A c \in calls : c.poll /\ c.current => Fetched(c.task, c.version)
        /\ Visible(paneView) => pollFailed \/ Running \/ RowsFetched

PaneInv == PaneTypeInv /\ TimerInv /\ CallsInv /\ RowsInv /\ LastFetchInv

-------------------------------------------------------------------------------
LEMMA SameDependencies ==
  ASSUME NEW v, NEW s, NEW u, NEW w, pane \in Panes, Dependencies(v, s) = Dependencies(w, u)
  PROVE  /\ Enabled(v, s) <=> Enabled(w, u)
         /\ Polls(s) <=> Polls(u)
         /\ v.task = w.task
         /\ pane = "passport" => s = u
<1>1. /\ Enabled(v, s) = Enabled(w, u) /\ Polls(s) = Polls(u)
      /\ ReloadKey(v, s) = ReloadKey(w, u)
  BY DEF Dependencies
<1>2. v.task = w.task /\ (pane = "passport" => s = u)
  BY <1>1 DEF ReloadKey
<1>3. QED
  BY <1>1, <1>2

(* A query that is sent now is recent enough.                              *)
LEMMA QueryIsFetched ==
  ASSUME PaneTypeInv, NEW t \in PaneTasks, NEW poll \in BOOLEAN
  PROVE  /\ PaneQuery(t, poll) \in PaneCall
         /\ PaneQuery(t, poll).task = t /\ PaneQuery(t, poll).poll = poll /\ PaneQuery(t, poll).current
         /\ PaneQuery(t, poll).version >= backTask[t].since
<1>1. backTask[t] \in BackTask /\ backTask[t].since <= backTask[t].version
  BY DEF PaneTypeInv
<1>2. QED
  BY <1>1 DEF PaneQuery, PaneCall, BackTask

LEMMA PaneInvInit == PanesInit => PaneInv
<1> SUFFICES ASSUME PanesInit PROVE PaneInv
  OBVIOUS
<1>1. paneView \in View /\ paneView.tab = "overview" /\ ~paneView.hidden
  BY DEF PanesInit, View, Tabs
<1>2. /\ backTask \in [PaneTasks -> BackTask] /\ uiStatus \in [PaneTasks -> TaskStatuses]
      /\ \A t \in PaneTasks : backTask[t].since = 1 /\ backTask[t].version = 1 /\ uiStatus[t] = "queued"
  BY DEF PanesInit, BackTask, TaskStatuses
<1> DEFINE first == [task |-> Shown, version |-> 1, poll |-> TRUE, current |-> TRUE]
<1>3. calls = IF OnScreen THEN {first} ELSE {}
  <2>1. uiStatus[Shown] = "queued" /\ backTask[Shown].version = 1
    BY <1>1, <1>2 DEF View
  <2>2. QED
    BY <2>1 DEF PanesInit, OnScreen, PaneQuery
<1>4. calls \subseteq PaneCall
  <2>1. first \in PaneCall
    BY <1>1 DEF View, PaneCall
  <2>2. QED
    BY <1>3, <2>1
<1>5. PaneTypeInv
  <2>1. timer \in BOOLEAN /\ pollFailed \in BOOLEAN /\ appended \subseteq PaneTasks /\ rows = NoRows
        /\ pane \in Panes
    BY DEF PanesInit
  <2>2. \A t \in PaneTasks : backTask[t].since <= backTask[t].version
    BY <1>2
  <2>3. QED
    BY <1>1, <1>2, <1>4, <2>1, <2>2 DEF PaneTypeInv
<1>6. uiStatus[Shown] = "queued" /\ Shown \in PaneTasks /\ backTask[Shown].since = 1
  BY <1>1, <1>2 DEF View
<1>7. TimerInv
  BY <1>1, <1>6 DEF TimerInv, OnScreen, PanesInit, Visible
<1>8. CallsInv
  BY <1>3 DEF CallsInv
<1>9. RowsInv
  BY DEF PanesInit, RowsInv
<1>10. LastFetchInv
  <2> SUFFICES ASSUME OnScreen
               PROVE  /\ \A c \in calls : c.poll /\ c.current => Fetched(c.task, c.version)
                      /\ Running
    BY DEF LastFetchInv, Resting
  <2>1. calls = {first}
    BY <1>3
  <2>2. QED
    BY <1>6, <2>1 DEF Fetched, Running
<1>11. QED
  BY <1>5, <1>7, <1>8, <1>9, <1>10 DEF PaneInv

-------------------------------------------------------------------------------
(* A render with the status `status` of the task that `v` shows.           *)
LEMMA RenderedStep ==
  ASSUME PaneInv, NEW v \in View, NEW status \in TaskStatuses, Rendered(v, status),
         v.hidden = paneView.hidden, UNCHANGED <<pane, backTask>>,
         uiStatus' \in [PaneTasks -> TaskStatuses], uiStatus'[v.task] = status
  PROVE  PaneInv'
<1> USE DEF PaneInv
<1> DEFINE restarts == Dependencies(v, status) # Dependencies(paneView, uiStatus[Shown])
           left == {[c EXCEPT !.current = @ /\ ~c.poll] : c \in calls}
           emptied == (v.task # paneView.task /\ pane # "media") \/ ~Enabled(v, status)
           kept == IF emptied THEN NoRows ELSE rows
<1>1. /\ paneView' = v /\ rows' = kept
      /\ appended' \in {appended, {}}
      /\ pollFailed' = (pollFailed /\ ~emptied)
      /\ IF restarts
         THEN IF Enabled(v, status) /\ Visible(v)
              THEN Start(v, status, left, kept)
              ELSE timer' = FALSE /\ calls' = left
         ELSE UNCHANGED <<timer, calls>>
  BY DEF Rendered
<1>2. /\ left \subseteq PaneCall
      /\ \A c \in left : ~(c.poll /\ c.current)
  BY DEF PaneTypeInv, PaneCall
<1>3. /\ Visible(v)' <=> Visible(v)
      /\ Visible(v) <=> Visible(paneView)
      /\ Enabled(v, status)' <=> Enabled(v, status)
      /\ Polls(status)' <=> Polls(status)
      /\ OnScreen' <=> Enabled(v, status)
      /\ Polls(uiStatus[Shown])' <=> Polls(status)
      /\ Visible(paneView)' <=> Visible(v)
  BY <1>1 DEF Visible, Gated, Enabled, Polls, OnScreen
<1>4. v.task \in PaneTasks /\ Shown \in PaneTasks
  BY DEF PaneTypeInv, View
<1> HIDE DEF left, kept, emptied, restarts
<1>5. /\ calls' \subseteq PaneCall
      /\ timer' = (Enabled(v, status) /\ Visible(v) /\ Polls(status))
      /\ restarts => \A c \in calls' : c.poll /\ c.current => Fetched(c.task, c.version)'
      /\ restarts /\ pane # "ranges" /\ Enabled(v, status) /\ Visible(v) => Running'
  <2>1. CASE restarts /\ Enabled(v, status) /\ Visible(v)
    <3>1. Start(v, status, left, kept)
      BY <1>1, <2>1
    <3>2. timer' = Polls(status)
      BY <3>1 DEF Start
    <3>3. PICK q \in PaneCall : /\ q = PaneQuery(v.task, TRUE)
                                /\ q.task = v.task /\ q.poll /\ q.current
                                /\ q.version >= backTask[v.task].since
      BY <1>4, QueryIsFetched
    <3>4. /\ calls' = left \/ calls' = left \cup {q}
          /\ pane # "ranges" => calls' = left \cup {q}
      BY <3>1, <3>3 DEF Start, Skips
    <3>5. Fetched(q.task, q.version)'
      BY <1>1, <3>3 DEF Fetched
    <3>6. calls' \subseteq PaneCall
      BY <1>2, <3>4
    <3>7. \A c \in calls' : c.poll /\ c.current => c = q
      BY <1>2, <3>4
    <3>8. pane # "ranges" => Running'
      BY <3>3, <3>4 DEF Running
    <3>9. timer' = (Enabled(v, status) /\ Visible(v) /\ Polls(status))
      BY <2>1, <3>2 DEF Polls
    <3>10. \A c \in calls' : c.poll /\ c.current => Fetched(c.task, c.version)'
      BY <3>5, <3>7
    <3>11. QED
      BY <3>6, <3>8, <3>9, <3>10
  <2>2. CASE restarts /\ ~(Enabled(v, status) /\ Visible(v))
    BY <1>1, <1>2, <2>2
  <2>3. CASE ~restarts
    <3>1. /\ Enabled(v, status) <=> OnScreen
          /\ Polls(status) <=> Polls(uiStatus[Shown])
      BY <2>3, SameDependencies DEF restarts, OnScreen, PaneTypeInv
    <3>2. QED
      BY <1>1, <1>3, <2>3, <3>1 DEF TimerInv, PaneTypeInv
  <2>4. QED
    BY <2>1, <2>2, <2>3
<1>6. PaneTypeInv'
  <2>1. rows' \in [task : PaneTasks, version : Nat] \cup {NoRows}
    BY <1>1 DEF kept, PaneTypeInv
  <2>2. timer' \in BOOLEAN /\ pollFailed' \in BOOLEAN
    BY <1>1, <1>5
  <2>3. QED
    BY <1>1, <1>5, <2>1, <2>2 DEF PaneTypeInv
<1>7. TimerInv'
  BY <1>3, <1>5 DEF TimerInv
<1>8. CallsInv'
  <2>1. CASE restarts
    BY <1>5, <2>1 DEF CallsInv, Fetched
  <2>2. CASE ~restarts
    <3>1. v.task = Shown
      BY <2>2, SameDependencies DEF restarts, PaneTypeInv
    <3>2. QED
      BY <1>1, <2>2, <3>1 DEF CallsInv
  <2>3. QED
    BY <2>1, <2>2
<1>9. RowsInv'
  BY <1>1 DEF RowsInv, kept, emptied
<1>10. LastFetchInv'
  <2>1. CASE restarts
    BY <1>3, <1>5, <2>1 DEF LastFetchInv, Resting
  <2>2. CASE ~restarts
    <3>1. /\ Enabled(v, status) <=> OnScreen
          /\ Polls(status) <=> Polls(uiStatus[Shown])
          /\ v.task = Shown
          /\ pane = "passport" => status = uiStatus[Shown]
      BY <2>2, SameDependencies DEF restarts, OnScreen, PaneTypeInv
    <3> SUFFICES ASSUME Resting'
                 PROVE  /\ \A c \in calls' : c.poll /\ c.current => Fetched(c.task, c.version)'
                        /\ Visible(paneView)' => pollFailed' \/ Running' \/ RowsFetched'
      BY DEF LastFetchInv
    <3>2. Resting /\ Enabled(v, status)
      BY <1>3, <3>1 DEF Resting
    <3>3. RunGoesOn' <=> RunGoesOn
      BY <1>1, <3>1 DEF RunGoesOn
    <3>4. calls' = calls /\ rows' = rows /\ pollFailed' = pollFailed
      BY <1>1, <2>2, <3>1, <3>2 DEF kept, emptied, PaneTypeInv
    <3>5. \A task, version : Fetched(task, version)' <=> Fetched(task, version)
      BY <1>1, <3>1, <3>3 DEF Fetched
    <3>6. QED
      BY <1>3, <3>2, <3>4, <3>5 DEF LastFetchInv, Running, RowsFetched
  <2>3. QED
    BY <2>1, <2>2
<1>11. QED
  BY <1>6, <1>7, <1>8, <1>9, <1>10

(* The window learns the status of a task that is not shown.               *)
LEMMA LearnOtherStep ==
  ASSUME PaneInv, NEW t \in PaneTasks, t # Shown, Learn(t)
  PROVE  PaneInv'
<1> USE DEF PaneInv
<1>1. /\ UNCHANGED <<pane, backTask, paneView, timer, calls, rows, cursor, appended, pollFailed>>
      /\ uiStatus' = [uiStatus EXCEPT ![t] = backTask[t].status]
  BY DEF Learn
<1>2. backTask[t].status \in TaskStatuses
  BY DEF PaneTypeInv, BackTask
<1>3. uiStatus' \in [PaneTasks -> TaskStatuses]
  BY <1>1, <1>2 DEF PaneTypeInv
<1>4. Shown' = Shown /\ Shown \in PaneTasks /\ uiStatus'[Shown] = uiStatus[Shown]
  BY <1>1 DEF PaneTypeInv, View
<1>5. PaneTypeInv'
  BY <1>1, <1>3 DEF PaneTypeInv
<1>6. TimerInv'
  BY <1>1, <1>4 DEF TimerInv, OnScreen, Enabled, Visible, Gated, Polls
<1>7. CallsInv' /\ RowsInv'
  BY <1>1 DEF CallsInv, RowsInv
<1>8. LastFetchInv'
  <2>1. (Resting' <=> Resting) /\ (Running' <=> Running) /\ (Visible(paneView)' <=> Visible(paneView))
    BY <1>1, <1>4 DEF Resting, OnScreen, Enabled, Polls, Running, Visible, Gated
  <2>2. \A task, version : Fetched(task, version)' <=> Fetched(task, version)
    BY <1>1, <1>4 DEF Fetched, RunGoesOn
  <2>3. QED
    BY <1>1, <2>1, <2>2 DEF LastFetchInv, RowsFetched
<1>9. QED
  BY <1>5, <1>6, <1>7, <1>8

LEMMA SetHiddenStep ==
  ASSUME PaneInv, SetHidden
  PROVE  PaneInv'
<1> USE DEF PaneInv
<1> DEFINE status == uiStatus[Shown]
<1>1. /\ UNCHANGED <<pane, backTask, uiStatus, rows, cursor, appended, pollFailed>>
      /\ paneView' = [paneView EXCEPT !.hidden = ~@]
  BY DEF SetHidden
<1>2. /\ paneView' \in View /\ paneView'.task = Shown /\ paneView'.tab = paneView.tab
      /\ paneView'.hidden = ~paneView.hidden /\ Shown \in PaneTasks
  BY <1>1 DEF PaneTypeInv, View
<1>3. /\ OnScreen' <=> OnScreen
      /\ Polls(uiStatus[Shown])' <=> Polls(status)
      /\ Resting' <=> Resting
      /\ RunGoesOn' <=> RunGoesOn
      /\ Visible(paneView) <=> ~Gated \/ ~paneView.hidden
      /\ Visible(paneView)' <=> ~Gated \/ paneView.hidden
  BY <1>1, <1>2 DEF OnScreen, Enabled, Polls, Resting, RunGoesOn, Visible, Gated
<1>4. \A task, version : Fetched(task, version)' <=> Fetched(task, version)
  BY <1>1, <1>2, <1>3 DEF Fetched
<1>5. PICK q \in PaneCall : /\ q = PaneQuery(Shown, TRUE)
                            /\ q.task = Shown /\ q.poll /\ q.current
                            /\ q.version >= backTask[Shown].since
  BY <1>2, QueryIsFetched
<1>6. \/ /\ ~Gated \/ ~OnScreen
         /\ UNCHANGED <<timer, calls>>
      \/ /\ Gated /\ OnScreen /\ ~paneView.hidden
         /\ timer' = FALSE /\ calls' = calls
      \/ /\ Gated /\ OnScreen /\ paneView.hidden
         /\ timer' = Polls(status)
         /\ \/ (timer \/ Running) /\ calls' = calls
            \/ Skips(paneView, status, rows) /\ calls' = calls
            \/ calls' = calls \cup {q}
  BY <1>5 DEF SetHidden, Start, OnScreen
<1>7. calls' = calls \/ calls' = calls \cup {q}
  BY <1>6
<1>8. PaneTypeInv'
  <2>1. timer' \in BOOLEAN
    BY <1>6 DEF PaneTypeInv, Polls
  <2>2. QED
    BY <1>1, <1>2, <1>5, <1>7, <2>1 DEF PaneTypeInv
<1>9. TimerInv'
  <2>1. timer' = (OnScreen /\ (~Gated \/ paneView.hidden) /\ Polls(status))
    BY <1>3, <1>6 DEF TimerInv, Polls
  <2>2. QED
    BY <1>3, <2>1 DEF TimerInv
<1>10. CallsInv'
  BY <1>2, <1>5, <1>7 DEF CallsInv
<1>11. RowsInv'
  BY <1>1, <1>2 DEF RowsInv
<1>12. LastFetchInv'
  <2> SUFFICES ASSUME Resting'
               PROVE  /\ \A c \in calls' : c.poll /\ c.current => Fetched(c.task, c.version)
                      /\ Visible(paneView)' => pollFailed \/ Running' \/ RowsFetched
    BY <1>1, <1>4 DEF LastFetchInv, RowsFetched
  <2>1. Resting
    BY <1>3
  <2>2. Fetched(q.task, q.version)
    BY <1>5 DEF Fetched
  <2>3. \A c \in calls' : c.poll /\ c.current => Fetched(c.task, c.version)
    BY <1>7, <2>1, <2>2 DEF LastFetchInv
  <2>4. ASSUME Visible(paneView)' PROVE pollFailed \/ Running' \/ RowsFetched
    <3>1. CASE calls' = calls \cup {q}
      BY <1>5, <3>1 DEF Running
    <3>2. CASE calls' = calls /\ Running
      BY <3>2 DEF Running
    <3>3. CASE ~Gated
      BY <1>3, <1>6, <2>1, <3>3 DEF LastFetchInv, Running
    <3>4. ~timer /\ ~Skips(paneView, status, rows)
      BY <2>1 DEF Resting, TimerInv, Skips
    <3>5. QED
      BY <1>3, <1>6, <2>1, <2>4, <3>1, <3>2, <3>3, <3>4 DEF Resting
  <2>5. QED
    BY <2>3, <2>4
<1>13. QED
  BY <1>8, <1>9, <1>10, <1>11, <1>12

(* A poll of the interval: the pane is not resting.                        *)
LEMMA TickStep ==
  ASSUME PaneInv, Tick
  PROVE  PaneInv'
<1> USE DEF PaneInv
<1>1. /\ UNCHANGED <<pane, paneView, backTask, uiStatus, timer, rows, cursor, appended, pollFailed>>
      /\ timer
  BY DEF Tick
<1>2. Shown \in PaneTasks
  BY DEF PaneTypeInv, View
<1>3. PICK q \in PaneCall : q = PaneQuery(Shown, TRUE) /\ q.task = Shown
  BY <1>2, QueryIsFetched
<1>4. calls' = calls \cup {q}
  BY <1>3 DEF Tick
<1>5. PaneTypeInv'
  BY <1>1, <1>3, <1>4 DEF PaneTypeInv
<1>6. TimerInv'
  BY <1>1 DEF TimerInv, OnScreen, Enabled, Visible, Gated, Polls
<1>7. CallsInv' /\ RowsInv'
  BY <1>1, <1>3, <1>4 DEF CallsInv, RowsInv
<1>8. ~Resting'
  BY <1>1 DEF TimerInv, Resting, OnScreen, Enabled, Polls
<1>9. QED
  BY <1>5, <1>6, <1>7, <1>8 DEF LastFetchInv

LEMMA PollAnsweredStep ==
  ASSUME PaneInv, NEW a \in calls, PollAnswered(a)
  PROVE  PaneInv'
<1> USE DEF PaneInv
<1>1. /\ UNCHANGED <<pane, paneView, backTask, uiStatus, timer>>
      /\ calls' = calls \ {a} /\ a.poll
  BY DEF PollAnswered
<1>2. a \in PaneCall
  BY DEF PaneTypeInv
<1>3. \/ /\ a.current /\ rows' = [task |-> a.task, version |-> a.version]
         /\ appended' = {} /\ pollFailed' = FALSE
      \/ /\ a.current /\ pollFailed' = TRUE /\ rows' \in {rows, NoRows} /\ appended' = appended
      \/ ~a.current /\ UNCHANGED <<rows, appended, pollFailed>>
  BY DEF PollAnswered, Taken
<1>4. PaneTypeInv'
  <2>1. rows' \in [task : PaneTasks, version : Nat] \cup {NoRows}
    BY <1>2, <1>3 DEF PaneCall, PaneTypeInv
  <2>2. pollFailed' \in BOOLEAN /\ appended' \subseteq PaneTasks
    BY <1>3 DEF PaneTypeInv
  <2>3. QED
    BY <1>1, <2>1, <2>2 DEF PaneTypeInv
<1>5. TimerInv'
  BY <1>1 DEF TimerInv, OnScreen, Enabled, Visible, Gated, Polls
<1>6. CallsInv'
  BY <1>1 DEF CallsInv
<1>7. RowsInv'
  BY <1>1, <1>3 DEF RowsInv, CallsInv
<1>8. LastFetchInv'
  <2> SUFFICES ASSUME Resting'
               PROVE  /\ \A c \in calls' : c.poll /\ c.current => Fetched(c.task, c.version)'
                      /\ Visible(paneView)' => pollFailed' \/ Running' \/ RowsFetched'
    BY DEF LastFetchInv
  <2>1. Resting /\ (Visible(paneView)' <=> Visible(paneView))
    BY <1>1 DEF Resting, OnScreen, Enabled, Polls, Visible, Gated
  <2>2. \A task, version : Fetched(task, version)' <=> Fetched(task, version)
    BY <1>1 DEF Fetched, RunGoesOn
  <2>3. \A c \in calls' : c.poll /\ c.current => Fetched(c.task, c.version)'
    BY <1>1, <2>1, <2>2 DEF LastFetchInv
  <2>4. ASSUME Visible(paneView)' PROVE pollFailed' \/ Running' \/ RowsFetched'
    <3>1. CASE a.current /\ rows' = [task |-> a.task, version |-> a.version]
      <4>1. Fetched(a.task, a.version)
        BY <1>1, <2>1, <3>1 DEF LastFetchInv
      <4>2. rows' # NoRows /\ rows'.task = a.task /\ rows'.version = a.version
        BY <3>1 DEF NoRows
      <4>3. QED
        BY <2>2, <4>1, <4>2 DEF RowsFetched
    <3>2. CASE ~a.current /\ UNCHANGED <<rows, appended, pollFailed>>
      BY <1>1, <2>1, <2>2, <2>4, <3>2 DEF LastFetchInv, Running, RowsFetched
    <3>3. QED
      BY <1>3, <3>1, <3>2
  <2>5. QED
    BY <2>3, <2>4
<1>9. QED
  BY <1>4, <1>5, <1>6, <1>7, <1>8

(* Pages are none of what the invariant looks at.                          *)
LEMMA PagesStep ==
  ASSUME PaneInv, LoadMore \/ (\E c \in calls : MoreAnswered(c))
  PROVE  PaneInv'
<1> USE DEF PaneInv
<1>1. UNCHANGED <<pane, paneView, backTask, uiStatus, timer, rows, pollFailed>>
  BY DEF LoadMore, MoreAnswered
<1>2. Shown \in PaneTasks
  BY DEF PaneTypeInv, View
<1>3. PICK q \in PaneCall : q = PaneQuery(Shown, FALSE) /\ ~q.poll
  BY <1>2, QueryIsFetched
<1>4. \/ calls' = calls \cup {q} /\ appended' = appended
      \/ \E c \in calls : ~c.poll /\ calls' = calls \ {c} /\ appended' = appended \cup {c.task}
  BY <1>3 DEF LoadMore, MoreAnswered
<1>5. calls' \subseteq PaneCall /\ appended' \subseteq PaneTasks
  BY <1>3, <1>4 DEF PaneTypeInv, PaneCall
<1>6. /\ \A c \in calls' : c.poll => c \in calls
      /\ \A c \in calls : c.poll => c \in calls'
  BY <1>3, <1>4
<1>7. PaneTypeInv'
  BY <1>1, <1>5 DEF PaneTypeInv
<1>8. TimerInv'
  BY <1>1 DEF TimerInv, OnScreen, Enabled, Visible, Gated, Polls
<1>9. CallsInv' /\ RowsInv'
  BY <1>1, <1>6 DEF CallsInv, RowsInv
<1>10. LastFetchInv'
  <2>1. (Resting' <=> Resting) /\ (Running' <=> Running) /\ (Visible(paneView)' <=> Visible(paneView))
    BY <1>1, <1>6 DEF Resting, OnScreen, Enabled, Polls, Running, Visible, Gated
  <2>2. \A task, version : Fetched(task, version)' <=> Fetched(task, version)
    BY <1>1 DEF Fetched, RunGoesOn
  <2>3. QED
    BY <1>1, <1>6, <2>1, <2>2 DEF LastFetchInv, RowsFetched
<1>11. QED
  BY <1>7, <1>8, <1>9, <1>10

(* A run that the window saw begin can end for the back end only while the *)
(* status that is shown is still that of the run: the pane polls then, or  *)
(* is the passport, which is fetched again when the window learns of it.   *)
LEMMA AdvanceStep ==
  ASSUME PaneInv, NEW t \in PaneTasks, Advance(t)
  PROVE  PaneInv'
<1> USE DEF PaneInv
<1>1. UNCHANGED <<pane, paneView, uiStatus, timer, calls, rows, cursor, appended, pollFailed>>
  BY DEF Advance
<1>2. backTask[t] \in BackTask
  BY DEF PaneTypeInv
<1>3. PICK b \in BackTask : /\ backTask' = [backTask EXCEPT ![t] = b]
                            /\ b.since <= b.version
                            /\ b.since # backTask[t].since => uiStatus[t] = "downloading"
  <2>1. PICK status \in Successors[backTask[t].status] :
           backTask' = [backTask EXCEPT ![t] =
             [status |-> status, version |-> backTask[t].version + 1,
              since |-> IF backTask[t].status = "downloading" /\ uiStatus[t] = backTask[t].status
                           /\ status # backTask[t].status
                        THEN backTask[t].version + 1 ELSE backTask[t].since]]
    BY <1>2 DEF Advance, PaneTypeInv
  <2>2. status \in TaskStatuses
    BY <1>2, <2>1 DEF BackTask, TaskStatuses, Successors
  <2>3. backTask[t].version \in Nat /\ backTask[t].since \in Nat
        /\ backTask[t].since <= backTask[t].version
    BY <1>2 DEF BackTask, PaneTypeInv
  <2> DEFINE b == [status |-> status, version |-> backTask[t].version + 1,
              since |-> IF backTask[t].status = "downloading" /\ uiStatus[t] = backTask[t].status
                           /\ status # backTask[t].status
                        THEN backTask[t].version + 1 ELSE backTask[t].since]
  <2>4. b \in BackTask /\ b.since <= b.version
    BY <2>2, <2>3 DEF BackTask
  <2>5. b.since # backTask[t].since => uiStatus[t] = "downloading"
    OBVIOUS
  <2>6. QED
    BY <2>1, <2>4, <2>5
<1>4. /\ backTask' \in [PaneTasks -> BackTask]
      /\ \A s \in PaneTasks : backTask'[s].since <= backTask'[s].version
      /\ \A s \in PaneTasks : backTask'[s].since # backTask[s].since => uiStatus[s] = "downloading"
  BY <1>3 DEF PaneTypeInv
<1>5. PaneTypeInv'
  BY <1>1, <1>4 DEF PaneTypeInv
<1>6. TimerInv'
  BY <1>1 DEF TimerInv, OnScreen, Enabled, Visible, Gated, Polls
<1>7. CallsInv' /\ RowsInv'
  BY <1>1 DEF CallsInv, RowsInv
<1>8. LastFetchInv'
  <2> SUFFICES ASSUME Resting'
               PROVE  /\ \A c \in calls' : c.poll /\ c.current => Fetched(c.task, c.version)'
                      /\ Visible(paneView)' => pollFailed' \/ Running' \/ RowsFetched'
    BY DEF LastFetchInv
  <2>1. Resting /\ (Running' <=> Running) /\ (Visible(paneView)' <=> Visible(paneView))
    BY <1>1 DEF Resting, OnScreen, Enabled, Polls, Running, Visible, Gated
  <2>2. uiStatus[Shown] = "downloading" => pane = "passport"
    BY <2>1 DEF Resting, OnScreen, Enabled, Polls, LiveStatus, PaneTypeInv, Panes
  <2>3. RunGoesOn \/ backTask'[Shown].since = backTask[Shown].since
    BY <1>4, <2>2 DEF RunGoesOn, PaneTypeInv, View
  <2>4. \A task, version : Fetched(task, version)' <=> Fetched(task, version)
    BY <1>1, <2>3 DEF Fetched, RunGoesOn
  <2>5. QED
    BY <1>1, <2>1, <2>4 DEF LastFetchInv, RowsFetched
<1>9. QED
  BY <1>5, <1>6, <1>7, <1>8

LEMMA PaneInvNext == PaneInv /\ [PanesNext]_paneVars => PaneInv'
<1> SUFFICES ASSUME PaneInv, [PanesNext]_paneVars PROVE PaneInv'
  OBVIOUS
<1>0. /\ paneView \in View /\ Shown \in PaneTasks
      /\ uiStatus \in [PaneTasks -> TaskStatuses] /\ backTask \in [PaneTasks -> BackTask]
  BY DEF PaneInv, PaneTypeInv, View
<1>1. ASSUME NEW t \in PaneTasks, ShowTask(t) PROVE PaneInv'
  <2> DEFINE v == [paneView EXCEPT !.task = t, !.tab = "overview"]
  <2>1. v \in View /\ v.hidden = paneView.hidden /\ v.task = t
    BY <1>0 DEF View, Tabs
  <2>2. Rendered(v, uiStatus[t]) /\ UNCHANGED <<pane, backTask, uiStatus>>
    BY <1>1 DEF ShowTask
  <2> HIDE DEF v
  <2>3. QED
    BY <1>0, <2>1, <2>2, RenderedStep
<1>2. ASSUME NEW tab \in Tabs, ShowTab(tab) PROVE PaneInv'
  <2> DEFINE v == [paneView EXCEPT !.tab = tab]
  <2>1. v \in View /\ v.hidden = paneView.hidden /\ v.task = Shown
    BY <1>0 DEF View
  <2>2. Rendered(v, uiStatus[Shown]) /\ UNCHANGED <<pane, backTask, uiStatus>>
    BY <1>2 DEF ShowTab
  <2> HIDE DEF v
  <2>3. QED
    BY <1>0, <2>1, <2>2, RenderedStep
<1>3. ASSUME NEW t \in PaneTasks, Learn(t) PROVE PaneInv'
  <2>1. CASE t # Shown
    BY <1>3, <2>1, LearnOtherStep
  <2>2. CASE t = Shown
    <3>1. Rendered(paneView, backTask[Shown].status) /\ UNCHANGED <<pane, backTask>>
      BY <1>3, <2>2 DEF Learn
    <3>2. backTask[Shown].status \in TaskStatuses
      BY <1>0 DEF BackTask
    <3>3. uiStatus' = [uiStatus EXCEPT ![Shown] = backTask[Shown].status]
      BY <1>3, <2>2 DEF Learn
    <3>4. uiStatus' \in [PaneTasks -> TaskStatuses] /\ uiStatus'[Shown] = backTask[Shown].status
      BY <1>0, <3>2, <3>3
    <3>5. QED
      BY <1>0, <3>1, <3>2, <3>4, RenderedStep
  <2>3. QED
    BY <2>1, <2>2
<1>4. CASE UNCHANGED paneVars
  BY <1>4 DEF paneVars, PaneInv, PaneTypeInv, TimerInv, CallsInv, RowsInv, LastFetchInv, Resting,
              OnScreen, Enabled, Polls, Visible, Gated, Running, RowsFetched, Fetched, RunGoesOn
<1>5. QED
  BY <1>1, <1>2, <1>3, <1>4, AdvanceStep, SetHiddenStep, TickStep, PagesStep, PollAnsweredStep
  DEF PanesNext

THEOREM PaneInvAlways == PanesSpec => []PaneInv
BY PaneInvInit, PaneInvNext, PTL DEF PanesSpec

(* Every variable of the panes keeps to its type.                          *)
THEOREM PanesTypeAlways == PanesSpec => []PanesTypeOK
<1>1. PaneInv => PanesTypeOK
  BY DEF PaneInv, PaneTypeInv, PanesTypeOK, View
<1>2. QED
  BY <1>1, PaneInvAlways, PTL

(* A pane shows the task that is shown, and at rest what its last run left.*)
THEOREM PaneIsCurrentAlways == PanesSpec => []PaneIsCurrent
<1>1. ASSUME PaneInv, AtRest, pane # "ranges"
      PROVE  rows # NoRows /\ rows.task = Shown
             /\ (RunGoesOn \/ rows.version >= backTask[Shown].since)
  <2>1. Resting /\ Visible(paneView) /\ ~Running /\ ~pollFailed
    BY <1>1 DEF AtRest, Resting, OnScreen, PaneInv, TimerInv
  <2>2. RowsFetched
    BY <1>1, <2>1 DEF PaneInv, LastFetchInv
  <2>3. QED
    BY <2>2 DEF RowsFetched, Fetched
<1>2. PaneInv => PaneIsCurrent
  BY <1>1 DEF PaneInv, RowsInv, PaneIsCurrent
<1>3. QED
  BY <1>2, PaneInvAlways, PTL
===============================================================================
