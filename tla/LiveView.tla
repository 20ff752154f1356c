----------------------------- MODULE LiveView -----------------------------
(***************************************************************************)
(* What a browser sees of a session: the changes of the mirror             *)
(* (EventStream) announced to the subscribers of a manager                 *)
(* (internal/manager/notify.go), the handler that streams a session to a   *)
(* page (internal/server/handler.go), and the phases in which the web      *)
(* server stops (internal/server/server.go, runWithManager).               *)
(*                                                                         *)
(* One root, one session of it and one page at a time.  What a page shows  *)
(* of the session is the sequence number up to which it was rendered.      *)
(***************************************************************************)
EXTENDS EventStream

CONSTANT PageCap    \* revisions a subscriber of the manager holds

ASSUME PageAssumption == PageCap \in Nat \ {0}

VARIABLES
    page,   \* the handler of a page and its subscription
    web,    \* how far the server has stopped
    routed  \* the manager has a route to the session

liveVars == <<broker, stream, mgr, page, web, routed>>

\* listed: in the fanout; queue, shut: its channel; detail: what was read and shown last, and
\* activity, which waits for the next tick when it is pending.
NoPage == [pc |-> "none", listed |-> FALSE, queue |-> 0, shut |-> FALSE,
           detail |-> 0, activity |-> 0, pending |-> FALSE]

LiveInit ==
    /\ StreamInit
    /\ page = NoPage
    /\ web = "up"
    /\ routed = TRUE

StreamsCancelled == web # "up"
Handling == page.pc \in {"subscribed", "open"}
-----------------------------------------------------------------------------
(* changeFanout *)

\* Publish: one whose mailbox is full is disconnected.
Announced(p) ==
    IF ~p.listed THEN p
    ELSE IF p.queue < PageCap THEN [p EXCEPT !.queue = @ + 1]
    ELSE [p EXCEPT !.listed = FALSE, !.shut = TRUE]

\* bumpSessionRevision, after the event is in the mirror.
Notify ==
    /\ mgr.bump
    /\ mgr' = [mgr EXCEPT !.bump = FALSE]
    /\ page' = Announced(page)
    /\ UNCHANGED <<broker, stream, web, routed>>

\* The snapshot loop and the operations of the manager announce changes of their own.
Refresh ==
    /\ web = "up" /\ ~mgr.cancelled
    /\ page' = Announced(page)
    /\ page' # page
    /\ UNCHANGED <<broker, stream, mgr, web, routed>>

\* removeRootLocked: the routes go, the pages are told, and the loops of the handle cancelled.
RootLeaves ==
    /\ routed /\ ~mgr.cancelled
    /\ routed' = FALSE
    /\ page' = Announced(page)
    /\ CancelHandle
    /\ UNCHANGED web
-----------------------------------------------------------------------------
(* makeSessionHandler *)

\* SubscribeSession, also for a request that comes while the server stops.
PageSubscribes ==
    /\ page.pc = "none" /\ routed
    /\ page' = [NoPage EXCEPT !.pc = "subscribed", !.listed = TRUE]
    /\ UNCHANGED <<broker, stream, mgr, web, routed>>

\* The first rendering: everything is shown.
PageReads ==
    /\ page.pc = "subscribed"
    /\ page' = IF routed
               THEN [page EXCEPT !.pc = "open", !.detail = mgr.last,
                                 !.activity = mgr.last]
               ELSE NoPage
    /\ UNCHANGED <<broker, stream, mgr, web, routed>>

\* Mutant: the activity is not marked as changed.
PageUpdatesDetail ==
    /\ page.pc = "open" /\ page.queue > 0
    /\ page' = IF routed
               THEN [page EXCEPT !.queue = @ - 1, !.detail = mgr.last]
               ELSE NoPage
    /\ UNCHANGED <<broker, stream, mgr, web, routed>>

\* A revision arrives: the session is read again; the page of one that is gone is emptied.
PageUpdates ==
    /\ page.pc = "open" /\ page.queue > 0
    /\ page' = IF routed
               THEN [page EXCEPT !.queue = @ - 1, !.detail = mgr.last,
                                 !.pending = TRUE]
               ELSE NoPage
    /\ UNCHANGED <<broker, stream, mgr, web, routed>>

\* The tick of the activity.
PageTicks ==
    /\ page.pc = "open" /\ page.pending
    /\ page' = [page EXCEPT !.activity = page.detail, !.pending = FALSE]
    /\ UNCHANGED <<broker, stream, mgr, web, routed>>

\* The subscription has been closed, and nothing is left in it; or the streams are cancelled.
PageEnds ==
    /\ \/ page.pc = "open" /\ page.shut /\ page.queue = 0
       \/ page.pc = "open" /\ StreamsCancelled
    /\ page' = NoPage
    /\ UNCHANGED <<broker, stream, mgr, web, routed>>

\* The browser leaves.
BrowserLeaves ==
    /\ page.pc = "open"
    /\ page' = NoPage
    /\ UNCHANGED <<broker, stream, mgr, web, routed>>
-----------------------------------------------------------------------------
(* runWithManager *)

LoopDone == mgr.cancelled /\ mgr.cur = NoStream /\ ~mgr.bump

WebStep(from, to) == web = from /\ web' = to /\ UNCHANGED <<broker, stream, routed>>

\* Quiesce, and then the streams are cancelled.
CancelStreams == WebStep("up", "cancelled") /\ UNCHANGED <<mgr, page>>

\* The listener fails: the streams are cancelled, and then the manager is closed.
ServeFails == WebStep("up", "shut") /\ UNCHANGED <<mgr, page>>

\* http.Server.Shutdown waits for the handlers, for some time.
Shutdown == WebStep("cancelled", "shut") /\ UNCHANGED <<mgr, page>>

\* Mutant: the loops are not cancelled.
CloseUncancelled ==
    /\ web = "shut" /\ web' = "closing"
    /\ UNCHANGED <<broker, stream, mgr, page, routed>>

\* Close: the loops of the manager are cancelled, and waited for.
Close ==
    /\ web = "shut" /\ web' = "closing"
    /\ mgr' = [mgr EXCEPT !.cancelled = TRUE]
    /\ UNCHANGED <<broker, stream, page, routed>>

\* closeClients, when they have ended: the fanout is closed and the routes are cleared.
CloseClients ==
    /\ web = "closing" /\ LoopDone
    /\ web' = "closed"
    /\ page' = IF page.listed THEN [page EXCEPT !.listed = FALSE, !.shut = TRUE] ELSE page
    /\ routed' = FALSE
    /\ UNCHANGED <<broker, stream, mgr>>
-----------------------------------------------------------------------------
WebNext == CancelStreams \/ ServeFails \/ Shutdown \/ Close \/ CloseClients
PageNext == PageReads \/ PageUpdates \/ PageEnds

LiveNext ==
    \/ StreamNext /\ UNCHANGED <<page, web, routed>>
    \/ Notify \/ Refresh \/ RootLeaves
    \/ PageSubscribes \/ PageNext \/ PageTicks \/ BrowserLeaves
    \/ WebNext

\* A server that has begun to stop goes on; a page and the loops of a manager run.
LiveFairness ==
    /\ StreamFairness
    /\ WF_liveVars(Notify)
    /\ WF_liveVars(PageNext) /\ WF_liveVars(PageTicks)
    /\ WF_liveVars(Shutdown \/ Close \/ CloseClients)

LiveSpec == LiveInit /\ [][LiveNext]_liveVars /\ LiveFairness
-----------------------------------------------------------------------------
(* Properties *)

LiveTypeOK ==
    /\ StreamTypeOK
    /\ page \in [pc : {"none", "subscribed", "open"}, listed : BOOLEAN, queue : 0..PageCap,
                 shut : BOOLEAN, detail : 0..MaxEvents,
                 activity : 0..MaxEvents, pending : BOOLEAN]
    /\ web \in {"up", "cancelled", "shut", "closing", "closed"}
    /\ routed \in BOOLEAN

\* The mirror comes to have every event that the broker retains, whichever side loses a stream and
\* as often as one is lost, for as long as the manager follows the root (eventLoop, serveEvents).
CatchesUp ==
    []<>(mgr.cancelled \/ broker.closed
            \/ \A n \in (mgr.last + 1)..broker.next : n < broker.low)

\* A page that is open comes to show what the mirror has, in both of its parts; or it ends and the
\* browser starts again, as it does when the session is gone (changeFanout, makeSessionHandler).
PageShows ==
    []<>(page.pc = "open" =>
            (routed /\ page.detail = mgr.last /\ page.activity = mgr.last))

\* When a manager no longer follows a root nothing of it stays behind: the loop ends, and the
\* supervisor forgets the subscription (consumeSubscription, removeSubscriber).
Released == []<>(mgr.cancelled => (LoopDone /\ broker.subs = {}))

\* A server that stops, or whose listener fails, closes what it has: the pages end, those that
\* came late too, and the manager after its loops (runWithManager).
ShutdownEnds == []<>(StreamsCancelled => (web = "closed" /\ ~Handling))
============================================================================
