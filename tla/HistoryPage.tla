------------------------------- MODULE HistoryPage -------------------------------
(***************************************************************************)
(* The history view: the controls and the pager of history.html, the two    *)
(* scripts of base.html that complete a request which names no window or no *)
(* page size, and api_history, while beads are closed and reopened.         *)
(*                                                                          *)
(* Requests are answered in any order.  A request is computed and its       *)
(* answer swapped in as one step.  The region's own requests wait for each  *)
(* other; those of the buttons, which are new elements after every swap, do *)
(* not.  The store's history list is what it was at the last load           *)
(* (Store.tla), and always covers the window.                               *)
(***************************************************************************)
EXTENDS History

CONSTANTS
    Bead,        \* ids
    Origin,      \* when the beads were closed at first
    MaxNow,      \* bound: the clock
    MaxChanges,  \* bound: closings and reopenings
    MaxClicks,   \* bound: clicks of the user
    MaxReloads,  \* bound: refreshes by the event stream
    MaxFlight    \* bound: requests in flight

ClosedAt == [Bead -> 0..MaxNow \cup {None}]

ASSUME HistoryPageAssumption ==
    /\ Bead \subseteq Nat
    /\ IsFiniteSet(Bead)
    /\ Origin \subseteq ClosedAt
    /\ {MaxNow, MaxChanges, MaxClicks, MaxReloads, MaxFlight} \subseteq Nat

VARIABLES
    clock,      \* the clock
    closedAt,   \* when each bead was closed, None if it is open
    listed,     \* the store's history list: closedAt at the last load
    shown,      \* the page: window, page, size, items, and whether there is more
    typed,      \* the dates in the custom form
    stored,     \* localStorage: the page size, or None
    flight,     \* requests without an answer
    bounds,     \* how much of each bound is used
    chosen,     \* (history) the window and size the user chose last
    raced,      \* (history) a request was in flight beside the choice, or the
                \* region was fetched while the dates were edited
    walk        \* (history) the pages turned since the first one: the beads
                \* they showed, those that were listed at all of them, and
                \* whether no bead left the list or moved in it

world == <<clock, closedAt, listed>>
browser == <<shown, typed, stored, flight>>
pageHistory == <<chosen, raced, walk>>
pageVars == <<world, browser, bounds, pageHistory>>

Named == [window: Window, size: Size]
Request == [window: Window, page: Nat \ {0}, size: Size \cup {None},
            by: {"region", "turn", "choice"}]
Shown == [window: Window, page: Nat, size: Size, items: SUBSET Bead, more: BOOLEAN]

Plain == [range |-> Default, from |-> None, to |-> None]
Typed(w) == [from |-> w.from, to |-> w.to]

\* storedSize() and the injection into a request without a size.
SizeOr(s) == IF s = DefaultSize THEN None ELSE s

\* Page 0 is the skeleton before the first answer.
PageInit ==
    /\ clock \in 0..MaxNow
    /\ closedAt \in {c \in Origin : \A b \in Bead : c[b] # None => c[b] <= clock}
    /\ listed = closedAt
    /\ stored \in Size \cup {None}
    /\ shown = [window |-> Plain, page |-> 0, size |-> DefaultSize,
                items |-> {}, more |-> FALSE]
    /\ typed = Typed(Plain)
    /\ flight = {[window |-> Plain, page |-> 1, size |-> SizeOr(stored),
                  by |-> "region"]}
    /\ bounds = [changes |-> 0, clicks |-> 0, reloads |-> 0]
    /\ chosen = [window |-> Plain,
                 size |-> IF stored = None THEN DefaultSize ELSE stored]
    /\ raced = FALSE
    /\ walk = [seen |-> {}, stayed |-> {}, whole |-> FALSE]

--------------------------------------------------------------------------------
(* The world.                                                               *)

Ticks ==
    /\ clock < MaxNow
    /\ clock' = clock + 1
    /\ UNCHANGED <<closedAt, listed, browser, bounds, pageHistory>>

Stamps(b, t) ==
    /\ bounds.changes < MaxChanges
    /\ bounds' = [bounds EXCEPT !.changes = @ + 1]
    /\ closedAt' = [closedAt EXCEPT ![b] = t]
    /\ UNCHANGED <<clock, listed, browser, pageHistory>>

Closes(b) == closedAt[b] = None /\ Stamps(b, clock)
Reopens(b) == closedAt[b] # None /\ Stamps(b, None)

\* Store.refresh() or a load of the history list.
Loads ==
    /\ listed # closedAt
    /\ listed' = closedAt
    /\ walk' = [walk EXCEPT !.whole =
                   @ /\ \A b \in Bead : listed[b] \in {None, closedAt[b]}]
    /\ UNCHANGED <<clock, closedAt, browser, bounds, chosen, raced>>

--------------------------------------------------------------------------------
(* Requests.                                                                *)

Clicks == bounds.clicks < MaxClicks /\ bounds' = [bounds EXCEPT !.clicks = @ + 1]

Sends(r) ==
    /\ Cardinality(flight) < MaxFlight
    /\ flight' = flight \cup {r}

InFlight(by) == \E r \in flight : r.by = by

\* A range button, Apply, Clear or the size selector; it replaces the choice
\* before it, whose request stays in flight.
Chooses(window, size) ==
    /\ Clicks
    /\ Cardinality(flight) < MaxFlight
    /\ flight' = {IF r.by = "choice" THEN [r EXCEPT !.by = "turn"] ELSE r : r \in flight}
                 \cup {[window |-> window, page |-> 1, size |-> size, by |-> "choice"]}
    /\ chosen' = [window |-> window,
                  size |-> IF size = shown.size THEN chosen.size ELSE size]
    /\ raced' = ((\E r \in flight : r.by # "region") \/ size # chosen'.size)
    /\ UNCHANGED <<world, shown, typed, walk>>

ChoosesRange(r) ==
    /\ shown.page > 0
    /\ Chooses([Plain EXCEPT !.range = r], shown.size)
    /\ UNCHANGED stored

\* Two empty dates are the default range.
Applies ==
    /\ shown.page > 0
    /\ Chooses([range |-> Default, from |-> typed.from, to |-> typed.to], shown.size)
    /\ UNCHANGED stored

\* The range of a custom answer is the default one.
Clears ==
    /\ shown.page > 0
    /\ Chooses([Plain EXCEPT !.range = shown.window.range], shown.size)
    /\ UNCHANGED stored

\* The pager is there when the page has items.
Sizes(size) ==
    /\ shown.items # {}
    /\ size # shown.size
    /\ Chooses(shown.window, size)
    /\ stored' = size

Types(dates) ==
    /\ shown.page > 0
    /\ dates # typed
    /\ Clicks
    /\ typed' = dates
    /\ UNCHANGED <<world, shown, stored, flight, pageHistory>>

\* Older, Newer, and back to page 1, which names no size.
Turns(page, size) ==
    /\ Clicks
    /\ Sends([window |-> shown.window, page |-> page, size |-> size, by |-> "turn"])
    /\ UNCHANGED <<world, shown, typed, stored, pageHistory>>

\* For the mutation runs: the button is on every page.
NewerAnywhere == shown.items # {} /\ Turns(shown.page - 1, shown.size)

Older == shown.more /\ Turns(shown.page + 1, shown.size)

Newer == shown.items # {} /\ shown.page > 1 /\ Turns(shown.page - 1, shown.size)

BackToFirst == shown.items = {} /\ shown.page > 1 /\ Turns(1, SizeOr(stored))

\* For the mutation runs: the custom window is not injected.
ActiveRange == [Plain EXCEPT !.range = shown.window.range]

\* activeCustom() reads the inputs, also when they were edited and not applied;
\* activePresetRange() reads the highlighted button.
ActiveWindow ==
    IF Custom(shown.window) /\ (typed.from # None \/ typed.to # None)
    THEN [range |-> Default, from |-> typed.from, to |-> typed.to]
    ELSE IF Custom(shown.window) THEN Plain ELSE shown.window

\* The event stream has the region fetch again: the first page.
Reloads ==
    /\ shown.page > 0
    /\ bounds.reloads < MaxReloads
    /\ bounds' = [bounds EXCEPT !.reloads = @ + 1]
    /\ ~InFlight("region")
    /\ Sends([window |-> ActiveWindow, page |-> 1, size |-> SizeOr(stored), by |-> "region"])
    /\ raced' = (raced \/ (Custom(shown.window) /\ typed # Typed(shown.window)))
    /\ UNCHANGED <<world, shown, typed, stored, chosen, walk>>

--------------------------------------------------------------------------------
(* The answer.                                                              *)

ListedBeads ==
    {[id |-> b, closed |-> TRUE, createdAt |-> None, startedAt |-> None,
      closedAt |-> listed[b]] : b \in {c \in Bead : listed[c] # None}}

\* api_history: the request named no size when the store had the default.
Answer(r) ==
    LET size == ClampSize(r.size)
        window == ClosedIn(Fetched(ListedBeads, Low(r.window, clock)), r.window, clock)
    IN [window |-> r.window, page |-> r.page, size |-> size,
        items |-> {b.id : b \in Items(window, r.page, size)},
        more |-> HasMore(window, r.page, size)]

Walked(a, window) ==
    IF a.page = 1 THEN [seen |-> a.items, stayed |-> window, whole |-> TRUE]
    ELSE IF /\ walk.whole
            /\ a.window = shown.window /\ a.size = shown.size
            /\ a.page - shown.page \in {-1, 0, 1}
         THEN [walk EXCEPT !.seen = @ \cup a.items, !.stayed = @ \cap window]
         ELSE [seen |-> {}, stayed |-> {}, whole |-> FALSE]

InWindow(w) ==
    {b \in Bead : listed[b] # None /\ Within(listed[b], Low(w, clock), High(w))}

\* The swap renders the controls and the inputs anew.
Arrives(r) ==
    /\ flight' = flight \ {r}
    /\ shown' = Answer(r)
    /\ typed' = Typed(r.window)
    /\ walk' = Walked(shown', InWindow(r.window))
    /\ raced' = (raced \/ (r.by = "choice" /\ flight' # {}))
    /\ UNCHANGED <<world, stored, bounds, chosen>>

User ==
    \/ \E p \in Preset : ChoosesRange(p)
    \/ \E dates \in [from: MaybeDate, to: MaybeDate] : Types(dates)
    \/ Applies \/ Clears
    \/ \E s \in Size : Sizes(s)
    \/ Older \/ Newer \/ BackToFirst

PageNext ==
    \/ Ticks \/ (\E b \in Bead : Closes(b) \/ Reopens(b)) \/ Loads
    \/ User \/ Reloads
    \/ \E r \in flight : Arrives(r)

PageSpec == PageInit /\ [][PageNext]_pageVars

--------------------------------------------------------------------------------
(* Properties.                                                              *)

PageTypeOK ==
    /\ clock \in 0..MaxNow
    /\ closedAt \in ClosedAt
    /\ listed \in ClosedAt
    /\ shown \in Shown
    /\ typed \in [from: MaybeDate, to: MaybeDate]
    /\ stored \in Size \cup {None}
    /\ flight \subseteq Request
    /\ bounds \in [changes: 0..MaxChanges, clicks: 0..MaxClicks, reloads: 0..MaxReloads]
    /\ chosen \in Named
    /\ raced \in BOOLEAN
    /\ walk \in [seen: SUBSET Bead, stayed: SUBSET Bead, whole: BOOLEAN]

\* Who turns the pages to the last one has seen every bead that was listed all
\* the while, though beads are closed and the window moves between the pages,
\* as long as none is reopened: every page is cut from a new list
\* (history.py:201-219, history.html:207-228).
WalkMissesNothing ==
    shown.page > 0 /\ walk.whole /\ ~shown.more => walk.stayed \subseteq walk.seen

\* The page shows the window and the page size chosen last, through refreshes
\* that name neither and turns of the page, once the choice is answered: unless
\* another request was in flight beside it, or a refresh found dates that were
\* edited and not applied (base.html:62-76, 90-138, history.html:33-34).
ChoiceStands ==
    shown.page > 0 /\ ~InFlight("choice") /\ ~raced =>
        shown.window = chosen.window /\ shown.size = chosen.size

\* Whatever window is chosen, the beads bd is asked for by its lower bound are
\* enough: the closed list, the statistics and the series that count closings
\* are those of the whole table, and so is the count of created beads, though
\* the fetch asks when they were closed, as long as their stamps are in order
\* (app.py:959-967, history.py:145-149).
FetchSuffices == chosen.window \notin Misfetched

\* Whatever window is chosen, the charts agree with the figures beside them: the
\* bars of both series add up to the counts of the legend, in the combined chart
\* too, whose days begin and end with a bead of either kind, and the days of the
\* single series are among them (history.py:239-381, app.py:995-1000).
SeriesAddUp == chosen.window \notin Disagreeing

\* Whatever window is chosen, half of the durations are at most the median and
\* half at least, p90 has nine tenths of the steps between them below it, and
\* neither leaves the list: also for one bead, for two, and where a rank falls
\* on a bead (history.py:384).
PercentilesSplit == chosen.window \notin Unsplit

\* Of the commits made by now, the stops tell the status at every one that has
\* one, no two stops that follow each other tell the same, and when the dates
\* run forward the dwell times add up to the time from the first stop to the
\* last (history.py:461-521).
TimelineReadsBack == \A date \in Misread : date > clock
================================================================================
