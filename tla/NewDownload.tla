----------------------------- MODULE NewDownload -----------------------------
(***************************************************************************)
(* The dialog that creates downloads                                       *)
(* (src/src/components/shell/NewDownloadDialog.tsx) and what the shell     *)
(* hands to it: links of the browser, of the clipboard and of dropped      *)
(* files (AppShell.tsx).  The dialog stays mounted, so its draft and its   *)
(* requests outlive a close.                                               *)
(*                                                                         *)
(* An action is a handler or the answer of a request, with the render and  *)
(* the layout effects that follow: between a handler and its render        *)
(* nothing else runs.  Of the fields only those are kept that differ in    *)
(* whom they concern: the link, the credentials (read by probes and by     *)
(* batches; the proxy is alike), the folder (read by batches only; so are  *)
(* the hash, the priority and the limits) and the lines of a batch.        *)
(*                                                                         *)
(* Left out: the browsing of remote folders, which repeats the probe with  *)
(* a second request id, the choice of files and tracks, the file name.     *)
(***************************************************************************)
EXTENDS Naturals, FiniteSets

CONSTANTS
    Links,          \* what can be typed as a link
    Private,        \* links that the network policy blocks without a grant
    MaxInFlight,    \* bound: probes, and imports, under way at a time
    MaxEdits        \* bound: acts of the user and arrivals from outside

ASSUME NewDownloadAssumption ==
    /\ Private \subseteq Links
    /\ MaxInFlight \in Nat \ {0}
    /\ MaxEdits \in Nat

VARIABLES
    form,           \* what the user sees and edits
    grant,          \* the link that networkAuthorizationId was made for
    look,           \* the probe: request id, answer shown, spinner, block, timer
    probes,         \* probes under way
    call,           \* the submission or authorization under way (`submitting`)
    batch,          \* preview shown, owner of the preview and of the creation
    imports,        \* calls of importUrls under way
    refused,        \* lines of the batch history that got no task
    newTasks,       \* links with a task in the back end
    announced,      \* links whose task was given to onCreated
    drop,           \* a dropped file that is being resolved
    edits

dialogVars == <<form, grant, look, probes, call, batch, imports, refused,
                newTasks, announced, drop, edits>>

NoUrl == "none"
NoId == 0
NoProbe == [url |-> NoUrl]
NoCall == [kind |-> "none"]
NoResult == [lines |-> {}]
NoDrop == [kind |-> "none"]
Ids == 1 .. MaxInFlight
(* The id of the next call; which free one it is makes no difference.      *)
FreshIds(calls) ==
    LET free == Ids \ {c.id : c \in calls}
    IN  {i \in free : \A j \in free : i <= j}

EmptyForm == [open |-> FALSE, mode |-> "single", url |-> NoUrl, creds |-> FALSE,
              saveDir |-> FALSE, lines |-> {}]
Dirty(f) == [f EXCEPT !.open = FALSE, !.mode = "single"] # EmptyForm

submitting == call # NoCall

(***************************************************************************)
(* A render.  `probeContext` and `batchContext` are the dependencies of    *)
(* the layout effects that drop what was asked for another context, and of *)
(* the effect that starts the timer of the automatic probe.                *)
(***************************************************************************)
probeContext(f) == <<f.open, f.mode, f.url, f.creds>>
batchContext(f) == <<f.open, f.creds, f.saveDir>>
Probable(f) == f.open /\ f.mode = "single" /\ f.url # NoUrl

invalidateProbe(f) == [request |-> NoId, probe |-> NoProbe, probing |-> FALSE,
                       blocked |-> FALSE, timer |-> Probable(f)]

(* Fault: the answer that is shown survives a change of the context.       *)
RenderKeepingProbe(f, l) ==
    /\ form' = f
    /\ look' = IF probeContext(f) = probeContext(form) THEN l
               ELSE [invalidateProbe(f) EXCEPT !.probe = IF f.url = form.url THEN l.probe ELSE NoProbe]
Render(f, l) ==
    /\ form' = f
    /\ look' = IF probeContext(f) = probeContext(form) THEN l ELSE invalidateProbe(f)

invalidateBatchPreview(b) == [b EXCEPT !.result = NoResult, !.preview = NoId]
Outdated(calls) == {[c EXCEPT !.current = FALSE] : c \in calls}

RenderBatch(f, b, calls) ==
    IF batchContext(f) = batchContext(form)
    THEN batch' = b /\ imports' = calls
    ELSE batch' = invalidateBatchPreview(b) /\ imports' = Outdated(calls)

(***************************************************************************)
(* Edits.                                                                  *)
(***************************************************************************)
Act == edits < MaxEdits /\ edits' = edits + 1
Edit(f) ==
    /\ Act
    /\ Render(f, look)
    /\ RenderBatch(f, batch, imports)
    /\ UNCHANGED <<probes, call, refused, newTasks, announced, drop>>

changeUrl(url) ==
    /\ form.open /\ form.mode = "single" /\ url # form.url
    /\ Edit([form EXCEPT !.url = url])
    /\ grant' = NoUrl

ChangeOption ==
    /\ form.open
    /\ \/ Edit([form EXCEPT !.creds = ~form.creds])
       \/ Edit([form EXCEPT !.saveDir = ~form.saveDir])
    /\ UNCHANGED grant

SetMode ==
    /\ form.open
    /\ Edit([form EXCEPT !.mode = IF form.mode = "single" THEN "batch" ELSE "single"])
    /\ UNCHANGED grant

(* A close keeps the draft, and what is under way goes on.                 *)
SetOpen == Edit([form EXCEPT !.open = ~form.open]) /\ UNCHANGED grant

changeBatchInput(lines) ==
    /\ form.open /\ form.mode = "batch" /\ lines # form.lines
    /\ Act
    /\ form' = [form EXCEPT !.lines = lines]
    /\ batch' = invalidateBatchPreview(batch)
    /\ imports' = Outdated(imports)
    /\ UNCHANGED <<grant, look, probes, call, refused, newTasks, announced, drop>>

(***************************************************************************)
(* The probe.  `creds` and `granted` are those of the render that called   *)
(* detect: the timer calls the latest one, authorizeCurrentTarget the one  *)
(* of the render in which the user clicked.                                *)
(***************************************************************************)
detect(l, url, creds, granted, by) ==
    \E id \in FreshIds(probes) :
        /\ probes' = probes \cup {[id |-> id, url |-> url, creds |-> creds,
                                   grant |-> granted, by |-> by]}
        /\ look' = [l EXCEPT !.request = id, !.probing = TRUE, !.probe = NoProbe]

TimerFires ==
    /\ look.timer
    /\ detect([look EXCEPT !.timer = FALSE], form.url, form.creds, grant, "timer")
    /\ UNCHANGED <<form, grant, call, batch, imports, refused, newTasks, announced, drop, edits>>

(* Fault: an answer is taken when it is for the link that is shown.        *)
AcceptedForLink(p) == p.url = form.url
Accepted(p) == p.id = look.request /\ p.url = form.url

(* draft_network_policy: a grant for another link blocks a public one too. *)
Blocked(url, granted) == IF granted = NoUrl THEN url \in Private ELSE granted # url

(* The answer of a probe.  A blocked target offers to be authorized.       *)
ProbeAnswered(p) ==
    /\ \E ok \in IF Blocked(p.url, p.grant) THEN {FALSE} ELSE BOOLEAN :
          LET seen == [look EXCEPT !.probe = IF ok THEN [url |-> p.url, creds |-> p.creds, by |-> p.by]
                                             ELSE @,
                                   !.blocked = IF ok THEN @ ELSE Blocked(p.url, p.grant)]
              after == IF Accepted(p) THEN seen ELSE look
          IN  look' = IF p.id = look.request
                      THEN [after EXCEPT !.probing = FALSE, !.request = NoId] ELSE after
    /\ probes' = probes \ {p}
    /\ call' = IF call.kind = "detect" /\ call.id = p.id THEN NoCall ELSE call
    /\ UNCHANGED <<form, grant, batch, imports, refused, newTasks, announced, drop, edits>>

authorizeCurrentTarget ==
    /\ form.open /\ form.mode = "single" /\ form.url # NoUrl
    /\ look.blocked /\ ~look.probing /\ ~submitting
    /\ call' = [kind |-> "authorize", url |-> form.url, creds |-> form.creds, grant |-> grant]
    /\ UNCHANGED <<form, grant, look, probes, batch, imports, refused, newTasks, announced, drop, edits>>

Authorized ==
    /\ call.kind = "authorize"
    /\ \/ /\ grant' = call.url
          /\ detect([look EXCEPT !.blocked = FALSE], call.url, call.creds, call.grant, "authorization")
          /\ call' = [kind |-> "detect", id |-> look'.request]
       \/ /\ call' = NoCall
          /\ UNCHANGED <<grant, look, probes>>
    /\ UNCHANGED <<form, batch, imports, refused, newTasks, announced, drop, edits>>

(***************************************************************************)
(* One download.  The back end makes the task, then its answer arrives.    *)
(***************************************************************************)
submitCurrent ==
    /\ form.open /\ form.mode = "single" /\ form.url # NoUrl /\ ~submitting
    /\ call' = [kind |-> "create", url |-> form.url, grant |-> grant, made |-> FALSE]
    /\ UNCHANGED <<form, grant, look, probes, batch, imports, refused, newTasks, announced, drop, edits>>

createTask ==
    /\ call.kind = "create" /\ ~call.made /\ ~Blocked(call.url, call.grant)
    /\ call' = [call EXCEPT !.made = TRUE]
    /\ newTasks' = newTasks \cup {call.url}
    /\ UNCHANGED <<form, grant, look, probes, batch, imports, refused, announced, drop, edits>>

(* resetForm, as far as the probe and the batch are concerned.             *)
ResetLook == [look EXCEPT !.request = NoId, !.probe = NoProbe, !.probing = FALSE]

SubmitAnswered ==
    /\ call.kind = "create"
    /\ call' = NoCall
    /\ \/ /\ call.made
          /\ announced' = announced \cup {call.url}
          /\ Render(EmptyForm, ResetLook)
          /\ batch' = invalidateBatchPreview(batch)
          /\ imports' = Outdated(imports)
          /\ grant' = NoUrl
       \/ /\ ~call.made
          /\ look' = [look EXCEPT !.blocked = Blocked(call.url, call.grant)]
          /\ UNCHANGED <<form, grant, batch, imports, announced>>
    /\ UNCHANGED <<probes, refused, newTasks, drop, edits>>

(***************************************************************************)
(* Batches.  Symbols of owners are the ids of calls, and `current` says    *)
(* that batchInputVersion has not moved since the call.                    *)
(***************************************************************************)
Import(id, create, lines, again) ==
    [id |-> id, create |-> create, lines |-> lines, again |-> again, shown |-> form.lines,
     creds |-> form.creds, saveDir |-> form.saveDir, grant |-> grant,
     current |-> TRUE, made |-> {}]

Owned(b, id, create) == IF create THEN [b EXCEPT !.creation = id] ELSE [b EXCEPT !.preview = id]

(* runBatch of the form's buttons, or of a line of the history: `again` is *)
(* to retry it, or to create it though it is a duplicate.                  *)
runBatch(create, lines, again) ==
    /\ form.open /\ form.mode = "batch"
    /\ lines # {} /\ batch.preview = NoId /\ batch.creation = NoId
    /\ \E id \in FreshIds(imports) :
          /\ imports' = imports \cup {Import(id, create, lines, again)}
          /\ batch' = Owned(batch, id, create)
    /\ UNCHANGED <<form, grant, look, probes, call, refused, newTasks, announced, drop>>

RunBatch ==
    \/ \E create \in BOOLEAN : runBatch(create, form.lines, "no") /\ UNCHANGED edits
    \/ \E line \in refused, again \in {"retry", "duplicates"} : runBatch(TRUE, {line}, again) /\ Act

(* The back end makes tasks for some of the lines.  A grant was made for   *)
(* one link and not for an import, so with one no line gets that far.      *)
(* An error of the database between two lines is left out.                 *)
importUrls(i) ==
    /\ i.create /\ i.made = {} /\ i.grant = NoUrl
    /\ \E made \in SUBSET (i.lines \ Private) \ {{}} :
          /\ imports' = (imports \ {i}) \cup {[i EXCEPT !.made = made]}
          /\ newTasks' = newTasks \cup made
    /\ UNCHANGED <<form, grant, look, probes, call, batch, refused, announced, drop, edits>>

Disowned(b, i) ==
    [b EXCEPT !.creation = IF @ = i.id /\ i.create THEN NoId ELSE @,
              !.preview = IF @ = i.id /\ ~i.create THEN NoId ELSE @]

(* Fault: an answer is shown whichever input and options it is for.        *)
AnyPreviewAccepted(i) == TRUE
PreviewAccepted(i) == i.id = batch.preview /\ i.current

PreviewAnswered(i) ==
    /\ ~i.create
    /\ \E ok \in IF i.grant = NoUrl THEN BOOLEAN ELSE {FALSE} :
          batch' = Disowned(IF ok /\ PreviewAccepted(i)
                            THEN [batch EXCEPT !.result = [lines |-> i.lines, creds |-> i.creds,
                                                           saveDir |-> i.saveDir]]
                            ELSE batch, i)
    /\ imports' = imports \ {i}
    /\ UNCHANGED <<form, grant, look, probes, call, refused, newTasks, announced, drop, edits>>

(* Fault: the outcome is dropped when the draft has moved on.              *)
AnnouncedIfCurrent(i) == IF i.current THEN announced \cup i.made ELSE announced
Announced(i) == announced \cup i.made

BatchAnswered(i) ==
    /\ i.create
    /\ announced' = Announced(i)
    /\ \E answered \in IF i.made # {} THEN {TRUE} ELSE {FALSE, i.grant = NoUrl} :
       LET left == (IF i.again = "no" THEN i.lines ELSE i.shown) \ i.made
           rewritten == answered /\ i.current /\ i.again # "retry"
       IN  /\ refused' = IF answered THEN (refused \cup i.lines) \ i.made ELSE refused
           /\ form' = [form EXCEPT !.lines = IF rewritten THEN left ELSE @]
           /\ batch' = Disowned(IF rewritten THEN invalidateBatchPreview(batch) ELSE batch, i)
           /\ imports' = IF rewritten THEN Outdated(imports \ {i}) ELSE imports \ {i}
    /\ UNCHANGED <<grant, look, probes, call, newTasks, drop, edits>>

(***************************************************************************)
(* Sources from outside replace the form.  A batch is previewed at once:   *)
(* changeBatchInput gave up the old preview, but a creation holds it off.  *)
(* When the reset changes options, the next render outdates the preview.   *)
(***************************************************************************)
FromUrl(url) == [EmptyForm EXCEPT !.open = TRUE, !.url = url]
FromLines(lines) == [EmptyForm EXCEPT !.open = TRUE, !.mode = "batch", !.lines = lines]
Sources == {FromUrl(url) : url \in Links} \cup {FromLines(lines) : lines \in SUBSET Links \ {{}}}

PreviewAtOnce(lines, kept) ==
    IF batch.creation # NoId \/ FreshIds(imports) = {}
    THEN /\ batch' = invalidateBatchPreview(batch)
         /\ imports' = Outdated(imports)
    ELSE \E id \in FreshIds(imports) :
            /\ batch' = [invalidateBatchPreview(batch) EXCEPT !.preview = IF kept THEN id ELSE NoId]
            /\ imports' = Outdated(imports) \cup
                   {[Import(id, FALSE, lines, "no") EXCEPT !.current = kept]}

ApplySource(f) ==
    /\ Render(f, ResetLook)
    /\ IF f.mode = "batch"
       THEN PreviewAtOnce(f.lines, ~form.creds /\ ~form.saveDir)
       ELSE batch' = invalidateBatchPreview(batch) /\ imports' = Outdated(imports)
    /\ grant' = NoUrl
    /\ UNCHANGED <<probes, call, refused, newTasks, announced>>

(* A browser handoff that needs an authorization arrives unasked; a link   *)
(* of the clipboard or a dropped file was accepted by the user.            *)
BrowserAsks(url) == Act /\ ApplySource(FromUrl(url)) /\ UNCHANGED drop
AcceptSource(f) == Act /\ ApplySource(f) /\ UNCHANGED drop

(* A file is dropped: the handler keeps newDownloadDraftDirty of its       *)
(* render while the file is resolved, then applies it or offers a toast.   *)
DropFile(f) ==
    /\ drop = NoDrop
    /\ Act
    /\ drop' = [kind |-> "file", dirty |-> Dirty(form), source |-> f]
    /\ UNCHANGED <<form, grant, look, probes, call, batch, imports, refused, newTasks, announced>>

DropResolved ==
    /\ drop # NoDrop
    /\ drop' = NoDrop
    /\ IF drop.dirty
       THEN UNCHANGED <<form, grant, look, probes, call, batch, imports, refused, newTasks, announced>>
       ELSE ApplySource(drop.source)
    /\ UNCHANGED edits

(* A text file from the picker fills the batch of an open form.            *)
chooseLocalFile(lines) ==
    /\ form.open /\ form.mode = "single" /\ ~submitting
    /\ Act
    /\ Render([form EXCEPT !.mode = "batch", !.lines = lines], look)
    /\ PreviewAtOnce(lines, TRUE)
    /\ UNCHANGED <<grant, probes, call, refused, newTasks, announced, drop>>

------------------------------------------------------------------------------
DialogInit ==
    /\ form = EmptyForm
    /\ grant = NoUrl
    /\ look = invalidateProbe(EmptyForm)
    /\ probes = {}
    /\ call = NoCall
    /\ batch = [result |-> NoResult, preview |-> NoId, creation |-> NoId]
    /\ imports = {}
    /\ refused = {}
    /\ newTasks = {}
    /\ announced = {}
    /\ drop = NoDrop
    /\ edits = 0

DialogNext ==
    \/ \E url \in Links \cup {NoUrl} : changeUrl(url)
    \/ ChangeOption \/ SetMode \/ SetOpen
    \/ \E lines \in SUBSET Links : changeBatchInput(lines)
    \/ TimerFires \/ \E p \in probes : ProbeAnswered(p)
    \/ authorizeCurrentTarget \/ Authorized
    \/ submitCurrent \/ createTask \/ SubmitAnswered
    \/ RunBatch
    \/ \E i \in imports : importUrls(i) \/ PreviewAnswered(i) \/ BatchAnswered(i)
    \/ \E url \in Private : BrowserAsks(url)
    \/ \E f \in Sources : AcceptSource(f) \/ DropFile(f)
    \/ DropResolved
    \/ \E lines \in SUBSET Links \ {{}} : chooseLocalFile(lines)

DialogSpec == DialogInit /\ [][DialogNext]_dialogVars

------------------------------------------------------------------------------
(* Types.                                                                  *)
DialogTypeOK ==
    /\ form \in [open : BOOLEAN, mode : {"single", "batch"}, url : Links \cup {NoUrl},
                 creds : BOOLEAN, saveDir : BOOLEAN, lines : SUBSET Links]
    /\ grant \in Links \cup {NoUrl}
    /\ look.request \in Ids \cup {NoId}
    /\ {batch.preview, batch.creation} \subseteq Ids \cup {NoId}
    /\ {refused, newTasks, announced} \subseteq SUBSET Links

(* What the dialog shows of a probe, and sends along with a submission, is *)
(* of the link in the form, and if the timer asked for it, of the          *)
(* credentials in the form; while it says that it probes, that very probe  *)
(* is under way.                                                           *)
ProbeIsCurrent ==
    /\ look.probe # NoProbe =>
          /\ look.probe.url = form.url
          /\ look.probe.by = "timer" => look.probe.creds = form.creds
    /\ look.probing => \E p \in probes : p.id = look.request

(* A preview is of the lines and the options in the form; who owns the     *)
(* preview or the creation, and so holds off every other call, is under    *)
(* way.                                                                    *)
PreviewIsCurrent ==
    /\ batch.result # NoResult =>
          batch.result = [lines |-> form.lines, creds |-> form.creds, saveDir |-> form.saveDir]
    /\ batch.preview # NoId => \E i \in imports : i.id = batch.preview /\ ~i.create
    /\ batch.creation # NoId => \E i \in imports : i.id = batch.creation /\ i.create

(* The answers shown in the dialog are those to what stands in its form,   *)
(* whichever edits, creations and sources came between the question and    *)
(* the answer, and what waits for an answer will get one.                  *)
DialogIsCurrent == ProbeIsCurrent /\ PreviewIsCurrent

(* A task that the back end made is in the list, or the answer that brings *)
(* it is still to come: no edit, close or source in between loses it.      *)
CreatedIsAnnounced ==
    \A url \in newTasks \ announced :
        \/ call.kind = "create" /\ call.made /\ call.url = url
        \/ \E i \in imports : url \in i.made

(* What the dialog shows belongs to what stands in it, and what it made is *)
(* in the list: both across edits, closing and sources that come between   *)
(* a question and its answer.                                              *)
DialogIsSound == DialogIsCurrent /\ CreatedIsAnnounced

(***************************************************************************)
(* What comments and handlers intend, and the code does not keep.          *)
(***************************************************************************)
(* UX-30, NewDownloadDialog.tsx:1088-1090: a draft with something in it    *)
(* leaves the form by an act of the user or by the answer to the creation  *)
(* that was sent for its link.                                             *)
DraftSurvives ==
    [][\/ DropResolved \/ SubmitAnswered
       \/ \E url \in Private : BrowserAsks(url)
       => ~Dirty(form) \/ form' = form \/ (call.kind = "create" /\ call.url = form.url)]_dialogVars

(* NewDownloadDialog.tsx:582-585: a probe that follows an authorization    *)
(* carries it.                                                             *)
AuthorizedProbe == \A p \in probes : p.by = "authorization" => p.grant = p.url

(* NewDownloadDialog.tsx:572: a grant is given up with the link that it    *)
(* was made for, so no other link and no import is sent with it.           *)
GrantIsForItsLink ==
    /\ \A p \in probes : p.grant \in {NoUrl, p.url}
    /\ \A i \in imports : i.grant = NoUrl
==============================================================================
