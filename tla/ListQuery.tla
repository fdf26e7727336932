------------------------------- MODULE ListQuery -------------------------------
(***************************************************************************)
(* The queries that fill the task list (src/src/lib/list-query-epoch.ts    *)
(* and its users): the page loads of TaskList, AppShell.refreshTasks, the  *)
(* full refresh that a queue-changed event asks for, and the chain of page *)
(* loads of "select all".  They share one epoch, a counter that every      *)
(* replacing query bumps and every answer is compared with.                *)
(*                                                                         *)
(* A query is what the list is filtered by: `nav` and `search`.  The rows  *)
(* of one page of one query are one element <<query, page>>; a cursor is   *)
(* the number of the last page loaded, 0 for null.  A handler runs from    *)
(* its answer to its return in one step: nothing interleaves with it.      *)
(* Left out: sort keys and facet filters (they behave as nav does),        *)
(* selection of a single row, totals and filter options.                   *)
(***************************************************************************)
EXTENDS Naturals, Sequences, FiniteSets

CONSTANTS
    Navs, Searches,         \* values of the two parts of the query
    LastPage,               \* pages of every query
    MaxEpoch                \* bound: no query is started above this epoch

ASSUME ListQueryAssumption ==
    /\ LastPage \in Nat \ {0}
    /\ MaxEpoch \in Nat

VARIABLES
    listQueryEpoch,         \* the shared counter
    nav, search,            \* the query of the UI store
    replaceInFlight, appendInFlight, pendingReload,   \* TaskList's ListLoadFlight
    viewReloadToken,        \* whether the store ever asked for a reload
    requests,               \* queries that were sent and have not been answered
    view,                   \* pages on screen, in order
    nextCursor,             \* last page loaded, 0 when there is no next one
    selectedIds,            \* pages whose rows are selected
    chain,                  \* the running selectAllMatching, or NoChain
    shownEpoch              \* epoch of the replacing answer on screen (history)

flightVars == <<replaceInFlight, appendInFlight, pendingReload>>
selectVars == <<selectedIds, chain>>
listVars == <<listQueryEpoch, nav, search, replaceInFlight, appendInFlight, pendingReload,
              viewReloadToken, requests, view, nextCursor, selectedIds, chain, shownEpoch>>

Query == Navs \X Searches
Pages == 1 .. LastPage
NoChain == [on |-> FALSE]
Senders == {"replace", "append", "refresh", "event"}

(* loading of the store: TaskList raises it with the replacing load.       *)
loading == replaceInFlight

(* The cursor that an answer with page p carries.                          *)
CursorAfter(p) == IF p < LastPage THEN p ELSE 0

ListInit ==
    /\ listQueryEpoch = 1
    /\ nav \in Navs /\ search \in Searches
    /\ replaceInFlight = TRUE /\ appendInFlight = FALSE /\ pendingReload = FALSE
    /\ viewReloadToken = FALSE
    /\ requests = {[from |-> "replace", epoch |-> 1, query |-> <<nav, search>>, page |-> 1]}
    /\ view = << >> /\ nextCursor = 0
    /\ selectedIds = {} /\ chain = NoChain
    /\ shownEpoch = 0

ListTypeOK ==
    /\ listQueryEpoch \in Nat /\ shownEpoch \in Nat
    /\ nav \in Navs /\ search \in Searches
    /\ {replaceInFlight, appendInFlight, pendingReload, viewReloadToken} \subseteq BOOLEAN
    /\ \A r \in requests : r.from \in Senders /\ r.epoch \in 0 .. listQueryEpoch /\ r.query \in Query
    /\ view \in Seq(Query \X Pages) /\ nextCursor \in 0 .. LastPage
    /\ selectedIds \subseteq Query \X Pages

-------------------------------------------------------------------------------
(* beginListLoad and endListLoad                                           *)

Sent(from, epoch, query, page) ==
    [from |-> from, epoch |-> epoch, query |-> query, page |-> page]

(* beginListLoad(flight, false) with the query of loadPage(null), called   *)
(* `times` in a row: every call bumps the epoch, the first one sends a     *)
(* query unless a replacing load is in flight, the others leave a note.    *)
(* `q` is the query, `outstanding` the queries that remain unanswered when *)
(* it runs.                                                                *)
BeginReplace(q, times, inFlight, outstanding) ==
    /\ listQueryEpoch' = listQueryEpoch + times
    /\ replaceInFlight' = TRUE
    /\ pendingReload' = (inFlight \/ times > 1)
    /\ requests' = IF inFlight THEN outstanding
                   ELSE outstanding \cup {Sent("replace", listQueryEpoch + 1, q, 1)}

(* Fault: only the end of a replacing load looks at the note.              *)
EndListLoadOfReplace(replacing, appending) ==
    pendingReload /\ ~replacing /\ ~appending /\ replaceInFlight

(* endListLoad: the note is taken when neither role is in flight any more. *)
EndListLoad(replacing, appending) == pendingReload /\ ~replacing /\ ~appending

(* isCurrentListQueryEpoch                                                 *)
IsCurrentAlways(epoch) == TRUE  \* Fault: an answer is never stale.
IsCurrent(epoch) == epoch = listQueryEpoch

-------------------------------------------------------------------------------
(* The query changes, or a reload of the same query is asked for           *)

Rows(pages) == {pages[i] : i \in 1 .. Len(pages)}
MayAsk == listQueryEpoch < MaxEpoch

(* One of the two effects of TaskList, or both, call loadPage: the second  *)
(* one runs on every new query too once a reload token was issued.         *)
EffectCalls == IF viewReloadToken THEN 2 ELSE 1

(* setNav, setSearch, setSort, setFilters, and the render that follows.    *)
SetQuery(n, s) ==
    /\ MayAsk /\ <<n, s>> # <<nav, search>>
    /\ nav' = n /\ search' = s
    /\ BeginReplace(<<n, s>>, EffectCalls, replaceInFlight, requests)
    /\ UNCHANGED <<appendInFlight, viewReloadToken, view, nextCursor, shownEpoch>>
    /\ UNCHANGED selectVars

(* SavedViewsPicker bumps the epoch itself, then writes query and          *)
(* selection at once; the new filters object makes it a new query.         *)
ApplySavedView(n, s) ==
    /\ MayAsk
    /\ nav' = n /\ search' = s /\ selectedIds' = {}
    /\ listQueryEpoch' = listQueryEpoch + 1 + EffectCalls
    /\ replaceInFlight' = TRUE
    /\ pendingReload' = (replaceInFlight \/ EffectCalls > 1)
    /\ requests' = IF replaceInFlight THEN requests
                   ELSE requests \cup {Sent("replace", listQueryEpoch + 2, <<n, s>>, 1)}
    /\ UNCHANGED <<appendInFlight, viewReloadToken, view, nextCursor, chain, shownEpoch>>

(* requestViewReload, or an upsert that cannot tell the place of a row.    *)
RequestViewReload ==
    /\ MayAsk
    /\ viewReloadToken' = TRUE
    /\ UNCHANGED <<nav, search, appendInFlight, view, nextCursor, shownEpoch>>
    /\ BeginReplace(<<nav, search>>, 1, replaceInFlight, requests)
    /\ UNCHANGED selectVars

(* The virtualizer nears the end of the list: beginListLoad(flight, true). *)
BeginAppend ==
    /\ nextCursor # 0 /\ ~replaceInFlight /\ ~appendInFlight
    /\ appendInFlight' = TRUE
    /\ requests' = requests \cup
                     {Sent("append", listQueryEpoch, <<nav, search>>, nextCursor + 1)}
    /\ UNCHANGED <<listQueryEpoch, nav, search, replaceInFlight, pendingReload, viewReloadToken,
                   view, nextCursor, shownEpoch>>
    /\ UNCHANGED selectVars

(* refreshTasks of the shell, and the full refresh of a queue event.       *)
BeginRefresh(from) ==
    /\ MayAsk
    /\ listQueryEpoch' = listQueryEpoch + 1
    /\ requests' = requests \cup {Sent(from, listQueryEpoch + 1, <<nav, search>>, 1)}
    /\ UNCHANGED <<nav, search, viewReloadToken, view, nextCursor, shownEpoch>>
    /\ UNCHANGED <<flightVars, selectVars>>

-------------------------------------------------------------------------------
(* Answers: setTaskCursorPage and the finally block of loadPage            *)

(* Pages that are on screen already are not added again; rows that left    *)
(* the screen leave the selection (pruneUISelectedIds).                    *)
ShowPage(row, append) ==
    LET pages == IF ~append THEN <<row>>
                 ELSE IF row \in Rows(view) THEN view ELSE Append(view, row)
    IN  /\ view' = pages
        /\ nextCursor' = CursorAfter(row[2])
        /\ selectedIds' = selectedIds \cap Rows(pages)

KeepPage == UNCHANGED <<view, nextCursor, selectedIds>>

(* A load of TaskList is answered, with success or not.  A note that is    *)
(* due is served by the same closure of loadPage: nav is read from the     *)
(* store, search is the one of the render that made the closure.           *)
AnswerLoad(r, ok) ==
    /\ r.from \in {"replace", "append"}
    /\ LET append == r.from = "append"
           shows  == ok /\ IsCurrent(r.epoch)
           replacing == append /\ replaceInFlight
           appending == ~append /\ appendInFlight
       IN  /\ IF shows THEN ShowPage(<<r.query, r.page>>, append) ELSE KeepPage
           /\ shownEpoch' = IF shows /\ ~append THEN r.epoch ELSE shownEpoch
           /\ appendInFlight' = appending
           /\ IF EndListLoad(replacing, appending)
              THEN BeginReplace(<<nav, r.query[2]>>, 1, FALSE, requests \ {r})
              ELSE /\ replaceInFlight' = replacing
                   /\ requests' = requests \ {r}
                   /\ UNCHANGED <<listQueryEpoch, pendingReload>>
    /\ UNCHANGED <<nav, search, viewReloadToken, chain>>

AnswerRefresh(r, ok) ==
    /\ r.from \in {"refresh", "event"}
    /\ IF ok /\ IsCurrent(r.epoch)
       THEN ShowPage(<<r.query, r.page>>, FALSE) /\ shownEpoch' = r.epoch
       ELSE KeepPage /\ UNCHANGED shownEpoch
    /\ requests' = requests \ {r}
    /\ UNCHANGED <<listQueryEpoch, nav, search, viewReloadToken, chain>>
    /\ UNCHANGED flightVars

-------------------------------------------------------------------------------
(* selectAllMatching and collectAllMatchingTaskIds                         *)

(* isCurrent of the chain; a newer request of the user replaces the chain. *)
ChainCurrentByQuery == chain.query = <<nav, search>>  \* Fault: the epoch is not compared.
ChainCurrent == chain.query = <<nav, search>> /\ IsCurrent(chain.epoch)

(* Nothing is selected while a replacing load is in flight; with all pages *)
(* loaded the rows on screen are selected at once.                         *)
SelectAll ==
    /\ MayAsk /\ ~loading
    /\ listQueryEpoch' = listQueryEpoch + 1
    /\ IF nextCursor = 0
       THEN selectedIds' = Rows(view) /\ chain' = NoChain
       ELSE /\ chain' = [on |-> TRUE, epoch |-> listQueryEpoch + 1, query |-> <<nav, search>>,
                         ids |-> Rows(view), page |-> nextCursor + 1]
            /\ UNCHANGED selectedIds
    /\ UNCHANGED <<nav, search, viewReloadToken, requests, view, nextCursor, shownEpoch>>
    /\ UNCHANGED flightVars

(* A page of the chain arrives.  It is appended and the epoch bumped, and  *)
(* the next page is asked for or, after the last one, all is selected.     *)
ChainPage ==
    /\ chain.on /\ ChainCurrent
    /\ LET row == <<chain.query, chain.page>>
           ids == chain.ids \cup {row}
       IN  /\ listQueryEpoch' = listQueryEpoch + 1
           /\ view' = IF row \in Rows(view) THEN view ELSE Append(view, row)
           /\ nextCursor' = CursorAfter(chain.page)
           /\ IF chain.page = LastPage
              THEN chain' = NoChain /\ selectedIds' = ids
              ELSE /\ chain' = [chain EXCEPT !.epoch = listQueryEpoch + 1,
                                              !.ids = ids, !.page = @ + 1]
                   /\ selectedIds' = selectedIds \cap Rows(view')
    /\ UNCHANGED <<nav, search, viewReloadToken, requests, shownEpoch>>
    /\ UNCHANGED flightVars

(* The page is stale, or the query failed: the chain ends without effect.  *)
ChainEnds ==
    /\ chain.on
    /\ chain' = NoChain
    /\ UNCHANGED <<listQueryEpoch, nav, search, viewReloadToken, requests, view, nextCursor,
                   selectedIds, shownEpoch>>
    /\ UNCHANGED flightVars

-------------------------------------------------------------------------------
AnswerOf(from) ==
    \E r \in requests, ok \in BOOLEAN : r.from = from /\ (AnswerLoad(r, ok) \/ AnswerRefresh(r, ok))

ListNext ==
    \/ \E n \in Navs, s \in Searches : SetQuery(n, s) \/ ApplySavedView(n, s)
    \/ RequestViewReload \/ BeginAppend
    \/ \E from \in {"refresh", "event"} : BeginRefresh(from)
    \/ \E from \in Senders : AnswerOf(from)
    \/ SelectAll \/ ChainPage \/ ChainEnds

ListSpec == ListInit /\ [][ListNext]_listVars

(* The back end answers every query, with success or an error.             *)
ListFairness == \A from \in Senders : WF_listVars(AnswerOf(from))

-------------------------------------------------------------------------------
(* Properties                                                              *)

(* No answer of an older replacing query overwrites the list after a newer *)
(* one was asked (list-query-epoch.ts:1-5): the list implements            *)
(* NewestAnswer, questions being the epochs.                               *)
Newest == INSTANCE NewestAnswer WITH asked <- listQueryEpoch, shown <- shownEpoch
ShowsNewestAnswer == Newest!Spec

(* When "select all" has loaded its last page it selects exactly the rows  *)
(* on screen, and the screen holds every page of the query from where the  *)
(* chain began: no refresh in between took rows away that are selected.    *)
SelectsWhatIsShown ==
    [][chain.on /\ ~chain'.on /\ selectedIds' # selectedIds
        => selectedIds' = Rows(view') /\ nextCursor' = 0]_listVars

(* A reload that was asked for while another load ran is not forgotten,    *)
(* whichever of the two loads of TaskList ends last.                       *)
ReloadIsServed == pendingReload ~> (replaceInFlight /\ ~pendingReload)

(* list-query-epoch.ts:59: the follow-up asks for the latest query.        *)
FollowUpAsksLatestQuery ==
    [][\A r \in requests' \ requests : r.from = "replace" => r.query = <<nav', search'>>]_listVars
===============================================================================
