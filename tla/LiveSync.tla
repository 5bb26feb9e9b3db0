-------------------------------- MODULE LiveSync --------------------------------
(***************************************************************************)
(* The live board, end to end: bd writes, the file-system event, the        *)
(* scheduler's refresh pass, the store, the event bus (src/bdboard/events.py *)
(* and the /api/events route) and the regions of the open tabs, which fetch  *)
(* their partials again on every event.                                     *)
(*                                                                          *)
(* The store is the module Store, whose coroutines are the watcher's pass   *)
(* and one request per pane; the scheduler is the latch that                *)
(* RefreshScheduler is shown to implement.  A pane is a region of a tab.    *)
(* HTMX sends one request per region at a time and remembers at most one    *)
(* more; an answer's content is what the store held when the route read it, *)
(* so the answer's way back to the tab is not a step of its own.            *)
(***************************************************************************)
EXTENDS Store

CONSTANTS
    Tab,        \* open browser tabs
    Region,     \* the regions of a board: "lanes", "closed", "counts"
    Watcher,    \* the coroutine of the scheduler's pass
    QueueSize   \* _QUEUE_SIZE

Pane == Tab \X Region

ASSUME LiveSyncAssumption ==
    /\ Region \subseteq {"lanes", "closed", "counts"}
    /\ Task = Pane \cup {Watcher}
    /\ Watcher \notin Pane
    /\ QueueSize \in Nat \ {0}

VARIABLES
    owed,        \* watched files changed and no pass has started since
    announcing,  \* an edit route has written and not broadcast yet
    link,        \* each tab's /api/events stream
    queue,       \* the events waiting in its queue: all are "beads_changed"
    want,        \* a request the pane has still to send
    shown,       \* the rows the pane shows
    unserved,    \* (history variable) the panes last answered while a list
                 \* they show had not been loaded: reading it had failed
    unannounced  \* (history variable) a replaced list nobody broadcast

bus == <<link, queue>>
answered == <<shown, unserved>>
panes == <<want, answered>>
liveVars == <<vars, owed, announcing, bus, panes, unannounced>>

LiveInit ==
    /\ Init
    /\ owed = FALSE
    /\ announcing = FALSE
    /\ link = [t \in Tab |-> "down"]
    /\ queue = [t \in Tab |-> 0]
    /\ want = [p \in Pane |-> TRUE]
    /\ shown = [p \in Pane |-> {}]
    /\ unserved = {}
    /\ unannounced = FALSE

--------------------------------------------------------------------------------
(* Writers.  A field edit or a memory change is a bd write of our own, with *)
(* a broadcast of its own after it.                                         *)

BdWrites ==
    /\ \E b \in Bead, i \in Issue, d \in Db : ExternalWrite(b, i, d)
    /\ owed' = TRUE
    /\ announcing' \in {announcing, TRUE}
    /\ UNCHANGED <<bus, panes, unannounced>>

--------------------------------------------------------------------------------
(* EventBus                                                                 *)

\* Mutation: a full queue is emptied before the new event is tried.
BroadcastClearsFull ==
    queue' = [t \in Tab |-> IF link[t] = "down" \/ queue[t] = QueueSize THEN 0
                            ELSE queue[t] + 1]

\* Mutation: the queue has no bound.
BroadcastUnbounded ==
    queue' = [t \in Tab |-> IF link[t] = "down" THEN queue[t] ELSE queue[t] + 1]

\* broadcast(): a full queue loses its oldest event and takes the new one.
Broadcast ==
    queue' = [t \in Tab |-> IF link[t] = "down" \/ queue[t] = QueueSize THEN queue[t]
                            ELSE queue[t] + 1]

\* The route's broadcast, before any refresh has seen its write.
RouteBroadcasts ==
    /\ announcing
    /\ announcing' = FALSE
    /\ Broadcast
    /\ unannounced' = FALSE
    /\ UNCHANGED <<vars, owed, link, panes>>

\* /api/events: the queue is subscribed before the bootstrap event is sent.
Connect(t) ==
    /\ link[t] = "down"
    /\ link' = [link EXCEPT ![t] = "greeting"]
    /\ UNCHANGED <<vars, owed, announcing, queue, panes, unannounced>>

\* Every region listens for "refresh from:body".
AllWant(t) == want' = [p \in Pane |-> want[p] \/ p[1] = t]

Bootstrap(t) ==
    /\ link[t] = "greeting"
    /\ link' = [link EXCEPT ![t] = "up"]
    /\ AllWant(t)
    /\ UNCHANGED <<vars, owed, announcing, queue, answered, unannounced>>

Deliver(t) ==
    /\ link[t] = "up"
    /\ queue[t] > 0
    /\ queue' = [queue EXCEPT ![t] = @ - 1]
    /\ AllWant(t)
    /\ UNCHANGED <<vars, owed, announcing, link, answered, unannounced>>

\* The connection is lost, and the subscription with it.
Disconnect(t) ==
    /\ link[t] # "down"
    /\ link' = [link EXCEPT ![t] = "down"]
    /\ queue' = [queue EXCEPT ![t] = 0]
    /\ UNCHANGED <<vars, owed, announcing, panes, unannounced>>

--------------------------------------------------------------------------------
(* Panes                                                                    *)

\* What the pane's route reads from the store: snapshot_active(),
\* snapshot_closed() or snapshot().  A list not loaded counts as empty.
Answer(p) ==
    CASE p[2] = "lanes" -> cache["active"]
      [] p[2] = "closed" -> cache["closed"]
      [] OTHER -> cache["active"] \cup cache["closed"]

Cached(p) ==
    CASE p[2] = "lanes" -> "active" \in loaded
      [] p[2] = "closed" -> "closed" \in loaded
      [] OTHER -> {"active", "closed"} \subseteq loaded

\* The lanes partial brings a new closed lane with it, which loads itself.
Renders(p, asking) ==
    /\ shown' = [shown EXCEPT ![p] = Answer(p)']
    /\ unserved' = IF Cached(p)' THEN unserved \ {p} ELSE unserved \cup {p}
    /\ want' = [q \in Pane |-> asking[q] \/ (p[2] = "lanes" /\ q = <<p[1], "closed">>)]

CallForPane(p) ==
    CASE p[2] = "lanes" -> CallLane(p, "active")
      [] p[2] = "closed" -> CallLane(p, "closed")
      [] OTHER -> CallSnapshot(p)

\* The request is answered from the cache, or waits for the store.
Request(p) ==
    /\ want[p]
    /\ pc[p] = "idle"
    /\ LET sent == [want EXCEPT ![p] = FALSE] IN
       \/ Cached(p) /\ UNCHANGED vars /\ Renders(p, sent)
       \/ CallForPane(p) /\ want' = sent /\ UNCHANGED answered
    /\ UNCHANGED <<owed, announcing, bus, unannounced>>

\* refresh() by coroutine t ends with True in this step: it replaced the lists
\* and had no history to read again, or it has read that too.
ReturnsTrue(t) ==
    /\ pc'[t] = "idle"
    /\ pc[t] = "listHistory" \/ (pc[t] = "listClosed" /\ <<cache, loaded>>' # <<cache, loaded>>)

\* Reading runs bd, which may touch the watched files.
BdMayEcho(t) == IF pc[t] = "wait" THEN UNCHANGED owed ELSE owed' \in {owed, TRUE}

\* The pane's request takes a step in the store.  Nobody looks at what a
\* refresh inside snapshot() returned.
PaneStep(p, step) ==
    /\ step
    /\ BdMayEcho(p)
    /\ unannounced' = (unannounced \/ (goal[p] = "refresh" /\ ReturnsTrue(p)))
    /\ IF pc'[p] = "idle" THEN Renders(p, want) ELSE UNCHANGED panes
    /\ UNCHANGED <<announcing, bus>>

--------------------------------------------------------------------------------
(* The watcher: awatch, the scheduler's latch and its pass.                 *)

\* The latch: what changes from here on asks for another pass.
PassStarts ==
    /\ owed
    /\ owed' = FALSE
    /\ CallRefresh(Watcher)
    /\ UNCHANGED <<announcing, bus, panes, unannounced>>

\* Mutation: the broadcast is for a refresh that changed nothing.
WatcherStepInverted(step) ==
    /\ step
    /\ BdMayEcho(Watcher)
    /\ IF pc'[Watcher] = "idle" /\ ~ReturnsTrue(Watcher)
       THEN Broadcast /\ unannounced' = FALSE
       ELSE UNCHANGED <<queue, unannounced>>
    /\ UNCHANGED <<announcing, link, panes>>

\* The pass takes a step in the store; the one that returns True broadcasts.
WatcherStep(step) ==
    /\ step
    /\ BdMayEcho(Watcher)
    /\ IF ReturnsTrue(Watcher)
       THEN Broadcast /\ unannounced' = FALSE
       ELSE UNCHANGED <<queue, unannounced>>
    /\ UNCHANGED <<announcing, link, panes>>

--------------------------------------------------------------------------------
TabNext(t) == Connect(t) \/ Bootstrap(t) \/ Deliver(t) \/ Disconnect(t)

StoreStep ==
    \/ \E p \in Pane : PaneStep(p, Acquires(p)) \/ PaneStep(p, Runs(p))
    \/ WatcherStep(Acquires(Watcher))
    \/ WatcherStep(Runs(Watcher))

LiveNext ==
    \/ BdWrites
    \/ RouteBroadcasts
    \/ PassStarts
    \/ StoreStep
    \/ \E t \in Tab : TabNext(t)
    \/ \E p \in Pane : Request(p)

LiveSpec == LiveInit /\ [][LiveNext]_liveVars

\* asyncio.Lock wakes its waiters in FIFO order and every `bd list` ends because
\* it has a timeout; awatch reports a change and a latched pass starts
\* (RefreshScheduler's SettleLeadsToPass); routes go on, EventSource reconnects
\* and some connection lasts until its bootstrap, HTMX sends its requests.
\* Nobody has to write, and nobody has to lose a connection.
LiveFairness ==
    /\ WF_liveVars(PassStarts)
    /\ WF_liveVars(RouteBroadcasts)
    /\ \A p \in Pane : /\ WF_liveVars(Request(p))
                       /\ SF_liveVars(PaneStep(p, Acquires(p)))
                       /\ WF_liveVars(PaneStep(p, Runs(p)))
    /\ SF_liveVars(WatcherStep(Acquires(Watcher)))
    /\ WF_liveVars(WatcherStep(Runs(Watcher)))
    /\ \A t \in Tab : /\ WF_liveVars(Connect(t))
                      /\ SF_liveVars(Bootstrap(t))
                      /\ WF_liveVars(Deliver(t))

LiveFairSpec == LiveSpec /\ LiveFairness

--------------------------------------------------------------------------------
(* Properties                                                               *)

LiveTypeOK ==
    /\ TypeOK
    /\ owed \in BOOLEAN
    /\ announcing \in BOOLEAN
    /\ link \in [Tab -> {"down", "greeting", "up"}]
    /\ queue \in [Tab -> 0..QueueSize]
    /\ want \in [Pane -> BOOLEAN]
    /\ shown \in [Pane -> SUBSET Row]
    /\ unserved \subseteq Pane
    /\ unannounced \in BOOLEAN

\* What the pane would show if it asked bd itself.
Truth(p) ==
    CASE p[2] = "lanes" -> ListActive
      [] p[2] = "closed" -> ListClosed
      [] OTHER -> ListActive \cup ListClosed

\* A pane that differs from the cache is about to fetch: it has a request to
\* send or in the store, or an event is on its way to its tab.
Fetching(p) ==
    \/ want[p]
    \/ pc[p] # "idle"
    \/ link[p[1]] # "up"
    \/ queue[p[1]] > 0

\* The bus may drop events and connections, routes may broadcast before the
\* store has seen their write: still a pane shows what the store holds, or is
\* about to fetch it, unless a refresh was never announced (events.py:10-17) or
\* the pane was answered with the empty list that stands for one bd failed to
\* give: the load that gets it later announces nothing.
NoEventMissed ==
    unannounced \/ \A p \in Pane : shown[p] = Answer(p) \/ Fetching(p) \/ p \in unserved

\* "if data changed, broadcast SSE -> browser refetches partials"
\* (app.py:380-382): once nobody writes any more, every pane of every tab shows
\* what bd would list, or the list it misses was replaced without a broadcast.
BoardConverges ==
    <>[](unannounced \/ \A p \in Pane : shown[p] = Truth(p))

\* The same without the exception.
EveryChangeReachesTheBoard == <>[](\A p \in Pane : shown[p] = Truth(p))
=================================================================================
