--------------------------------- MODULE Store ---------------------------------
(***************************************************************************)
(* Store of src/bdboard/store.py: the cached bead lists, the coroutines     *)
(* that load and refresh them under _refresh_lock, and the bd database that *)
(* other processes write meanwhile.                                         *)
(*                                                                          *)
(* A coroutine step runs from one await to the next.  `bd list` takes       *)
(* effect when it reads the database, which is the step that consumes its   *)
(* result: only the lock holder writes the caches, so nothing can tell the  *)
(* two apart.  _refresh_lock.release() does not suspend, so what a caller   *)
(* does after `async with` belongs to the step that releases.               *)
(*                                                                          *)
(* A bead is the pair of its status and the day it was closed, which is all *)
(* the list queries look at; its other fields change the row in the same    *)
(* way.  A snapshot that is None is one that is not in `loaded`.            *)
(***************************************************************************)
EXTENDS Naturals, FiniteSets

CONSTANTS
    Bead,       \* bead ids
    Task,       \* coroutines that call the store
    None,       \* no lock holder
    All,        \* closed_after=None: the unbounded history window
    Db,         \* dolt databases under .beads/embeddeddolt
    Readable,   \* the sets of manifests that may be readable at one time
    MayFail,    \* the bd list reads that may fail
    Window,     \* BOARD_CLOSED_WINDOW_DAYS
    Threshold,  \* STALE_FAILURE_THRESHOLD
    MaxDay,     \* bound: the last day of a behaviour
    MaxWrites   \* bound: writes to one database

Lane == {"active", "closed", "history"}

ASSUME StoreAssumption ==
    /\ Readable \subseteq SUBSET Db
    /\ MayFail \subseteq Lane
    /\ Window \in Nat
    /\ Threshold \in Nat \ {0}
    /\ MaxDay \in Nat
    /\ MaxWrites \in Nat
    /\ None \notin Task
    /\ All \notin Nat

VARIABLES
    db,             \* the issues table, shared with every other bd process
    rev,            \* each database's root hash, as a count of its writes
    today,          \* the date
    cache,          \* _active_snap, _closed_snap and _history_snap
    loaded,         \* the snapshots that are not None
    historyCutoff,  \* _history_cutoff
    lastRevision,   \* _last_revision
    failures,       \* _consecutive_failures, no further than Threshold
    staleDetails,   \* BdClient holds details older than a replaced list
    lock,           \* who holds _refresh_lock
    pc,             \* where each coroutine stands
    goal,           \* what it is after: a lane to load, or a refresh
    cutoff,         \* the window of its history request
    revision,       \* the lock holder's local `revision`
    freshActive,    \* the lock holder's local `fresh_active`
    historyRev      \* (history variable) rev when _history_snap was fetched

environment == <<db, rev, today>>
snapshots == <<cache, loaded, historyCutoff, historyRev>>
caller == <<goal, cutoff>>
locals == <<revision, freshActive>>
vars == <<environment, snapshots, lastRevision, failures, staleDetails, lock, pc,
          caller, locals>>

Day == 0..MaxDay
Cutoff == Day \cup {All}
Issue == [status : {"absent", "open", "closed"}, day : Day]
Row == Bead \X Issue
Pc == {"idle", "wait", "load", "listActive", "listClosed", "listHistory"}

Init ==
    /\ db \in [Bead -> {[status |-> "open", day |-> 0], [status |-> "closed", day |-> 0]}]
    /\ rev = [d \in Db |-> 0]
    /\ today = 0
    /\ cache = [l \in Lane |-> {}]
    /\ loaded = {}
    /\ historyCutoff = All
    /\ historyRev = rev
    /\ lastRevision = {}
    /\ failures = 0
    /\ staleDetails = FALSE
    /\ lock = None
    /\ pc = [t \in Task |-> "idle"]
    /\ goal = [t \in Task |-> "refresh"]
    /\ cutoff = [t \in Task |-> All]
    /\ revision = {}
    /\ freshActive = {}

--------------------------------------------------------------------------------
(* The database and what bd answers about it.                               *)

Table == {<<b, db[b]>> : b \in Bead}
Closed == {r \in Table : r[2].status = "closed"}

ListActive == {r \in Table : r[2].status = "open"}
ListClosed == {r \in Closed : today <= r[2].day + Window}
ListHistory(c) == {r \in Closed : c = All \/ c <= r[2].day}

\* revision_signature(): the manifests that can be read right now.
Signature(S) == {<<d, rev[d]>> : d \in S}

\* Another process creates, closes, reopens or deletes a bead, or imports one
\* closed earlier.
ExternalWrite(b, i, d) ==
    /\ rev[d] < MaxWrites
    /\ i # db[b]
    /\ i.day <= today
    /\ i.status # "closed" => i.day = 0
    /\ db' = [db EXCEPT ![b] = i]
    /\ rev' = [rev EXCEPT ![d] = @ + 1]
    /\ UNCHANGED <<today, snapshots, lastRevision, failures, staleDetails, lock, pc,
                   caller, locals>>

NextDay ==
    /\ today < MaxDay
    /\ today' = today + 1
    /\ UNCHANGED <<db, rev, snapshots, lastRevision, failures, staleDetails, lock, pc,
                   caller, locals>>

--------------------------------------------------------------------------------
(* Calls.  One that finds its snapshots loaded is answered from the cache   *)
(* at once and changes nothing.                                             *)

\* Mutation: the comparison of the two lower bounds is turned round.
HistoryCoversTurned(c) ==
    /\ "history" \in loaded
    /\ \/ historyCutoff = All
       \/ c # All /\ historyCutoff # All /\ historyCutoff >= c

\* _history_covers()
HistoryCovers(c) ==
    /\ "history" \in loaded
    /\ \/ historyCutoff = All
       \/ c # All /\ historyCutoff # All /\ historyCutoff <= c

Call(t, g, c) ==
    /\ pc[t] = "idle"
    /\ pc' = [pc EXCEPT ![t] = "wait"]
    /\ goal' = [goal EXCEPT ![t] = g]
    /\ cutoff' = [cutoff EXCEPT ![t] = c]
    /\ UNCHANGED <<environment, snapshots, lastRevision, failures, staleDetails, lock,
                   locals>>

\* snapshot_active(), snapshot_closed()
CallLane(t, l) == l \notin loaded /\ Call(t, l, All)

\* snapshot(): refreshes when either list is missing.
CallSnapshot(t) == ~({"active", "closed"} \subseteq loaded) /\ Call(t, "refresh", All)

\* refresh(), called by the watcher and by the pour route.
CallRefresh(t) == Call(t, "refresh", All)

\* snapshot_history(c): the active list first, then the history.
CallHistory(t, c) ==
    \/ "active" \notin loaded /\ Call(t, "activeForHistory", c)
    \/ "active" \in loaded /\ ~HistoryCovers(c) /\ Call(t, "history", c)

--------------------------------------------------------------------------------
(* _load_active(), _load_closed(), _load_history()                          *)

\* Mutation: the history call stores its active list under its own name.
TargetUnresolved(t) == goal[t]

\* The snapshot a load is for.
Target(t) == IF goal[t] = "activeForHistory" THEN "active" ELSE goal[t]

\* Another coroutine loaded it while this one waited for the lock.
NothingToLoad(t) ==
    IF goal[t] = "history" THEN HistoryCovers(cutoff[t]) ELSE Target(t) \in loaded

\* The call is over; what it was about is forgotten.
Returns(t) ==
    /\ pc' = [pc EXCEPT ![t] = "idle"]
    /\ goal' = [goal EXCEPT ![t] = "refresh"]
    /\ cutoff' = [cutoff EXCEPT ![t] = All]

\* snapshot_history() goes on from the active list to the history if that does
\* not cover the request; any other call is done.
Proceed(t) ==
    IF goal[t] = "activeForHistory" /\ ~HistoryCovers(cutoff[t])
    THEN /\ pc' = [pc EXCEPT ![t] = "wait"]
         /\ goal' = [goal EXCEPT ![t] = "history"]
         /\ UNCHANGED cutoff
    ELSE Returns(t)

LoadNotNeeded(t) ==
    /\ pc[t] = "wait"
    /\ goal[t] # "refresh"
    /\ lock = None
    /\ NothingToLoad(t)
    /\ Proceed(t)
    /\ UNCHANGED <<environment, snapshots, lastRevision, failures, staleDetails, lock,
                   locals>>

LoadStarts(t) ==
    /\ pc[t] = "wait"
    /\ goal[t] # "refresh"
    /\ lock = None
    /\ ~NothingToLoad(t)
    /\ lock' = t
    /\ pc' = [pc EXCEPT ![t] = "load"]
    /\ UNCHANGED <<environment, snapshots, lastRevision, failures, staleDetails,
                   caller, locals>>

\* A history load does not touch the refresh-health counter.
LoadSucceeds(t) ==
    /\ pc[t] = "load"
    /\ cache' = [cache EXCEPT ![Target(t)] =
                     CASE Target(t) = "active" -> ListActive
                       [] Target(t) = "closed" -> ListClosed
                       [] OTHER -> ListHistory(cutoff[t])]
    /\ loaded' = loaded \cup {Target(t)}
    /\ IF goal[t] = "history"
       THEN /\ historyCutoff' = cutoff[t]
            /\ historyRev' = rev
            /\ UNCHANGED failures
       ELSE /\ failures' = 0
            /\ UNCHANGED <<historyCutoff, historyRev>>
    /\ lock' = None
    /\ Proceed(t)
    /\ UNCHANGED <<environment, lastRevision, staleDetails, locals>>

\* _mark_refresh_failure()
OneMoreFailure == IF failures < Threshold THEN failures + 1 ELSE Threshold

\* Mutation: _history_cutoff is set before the fetch it describes.
LoadFailsWithCutoff(t) ==
    /\ pc[t] = "load"
    /\ Target(t) \in MayFail
    /\ failures' = IF goal[t] = "history" THEN failures ELSE OneMoreFailure
    /\ historyCutoff' = IF goal[t] = "history" THEN cutoff[t] ELSE historyCutoff
    /\ lock' = None
    /\ Proceed(t)
    /\ UNCHANGED <<environment, cache, loaded, historyRev, lastRevision, staleDetails, locals>>

LoadFails(t) ==
    /\ pc[t] = "load"
    /\ Target(t) \in MayFail
    /\ failures' = IF goal[t] = "history" THEN failures ELSE OneMoreFailure
    /\ lock' = None
    /\ Proceed(t)
    /\ UNCHANGED <<environment, snapshots, lastRevision, staleDetails, locals>>

--------------------------------------------------------------------------------
(* refresh(): True when it ends in RefreshCompletes, False otherwise.       *)

\* Whatever the result, the lock is released and the locals are gone.
RefreshReturns(t) ==
    /\ lock' = None
    /\ revision' = {}
    /\ freshActive' = {}
    /\ Returns(t)
    /\ UNCHANGED environment

CanSkip(s) == s # {} /\ {"active", "closed"} \subseteq loaded /\ s = lastRevision

\* The signature is the one of the last refresh: our own read echoing back.
RefreshSkips(t, S) ==
    /\ pc[t] = "wait"
    /\ goal[t] = "refresh"
    /\ lock = None
    /\ CanSkip(Signature(S))
    /\ failures' = 0
    /\ RefreshReturns(t)
    /\ UNCHANGED <<snapshots, lastRevision, staleDetails>>

RefreshStarts(t, S) ==
    /\ pc[t] = "wait"
    /\ goal[t] = "refresh"
    /\ lock = None
    /\ ~CanSkip(Signature(S))
    /\ lock' = t
    /\ revision' = Signature(S)
    /\ pc' = [pc EXCEPT ![t] = "listActive"]
    /\ UNCHANGED <<environment, snapshots, lastRevision, failures, staleDetails,
                   caller, freshActive>>

ActiveListed(t) ==
    /\ pc[t] = "listActive"
    /\ freshActive' = ListActive
    /\ pc' = [pc EXCEPT ![t] = "listClosed"]
    /\ UNCHANGED <<environment, snapshots, lastRevision, failures, staleDetails, lock,
                   caller, revision>>

\* Either list failed: the snapshots stay as they are.
RefreshFails(t) ==
    /\ \/ pc[t] = "listActive" /\ "active" \in MayFail
       \/ pc[t] = "listClosed" /\ "closed" \in MayFail
    /\ failures' = OneMoreFailure
    /\ RefreshReturns(t)
    /\ UNCHANGED <<snapshots, lastRevision, staleDetails>>

Unchanged(l, fresh) == l \in loaded /\ cache[l] = fresh

\* Neither list changed: the history is not looked at.
RefreshFindsSame(t) ==
    /\ pc[t] = "listClosed"
    /\ Unchanged("active", freshActive)
    /\ Unchanged("closed", ListClosed)
    /\ lastRevision' = revision
    /\ failures' = 0
    /\ RefreshReturns(t)
    /\ UNCHANGED <<snapshots, staleDetails>>

\* Mutation: the signature is read again at the end.
RefreshCompletesResigned(t) ==
    /\ staleDetails' = FALSE
    /\ lastRevision' = Signature(Db)
    /\ failures' = 0
    /\ RefreshReturns(t)

\* invalidate_caches(), then the revision is recorded.
RefreshCompletes(t) ==
    /\ staleDetails' = FALSE
    /\ lastRevision' = revision
    /\ failures' = 0
    /\ RefreshReturns(t)

ReplaceLists ==
    /\ cache' = [cache EXCEPT !["active"] = freshActive, !["closed"] = ListClosed]
    /\ loaded' = loaded \cup {"active", "closed"}
    /\ UNCHANGED <<historyCutoff, historyRev>>

\* A list changed and no history is cached.
RefreshReplaces(t) ==
    /\ pc[t] = "listClosed"
    /\ ~(Unchanged("active", freshActive) /\ Unchanged("closed", ListClosed))
    /\ "history" \notin loaded
    /\ ReplaceLists
    /\ RefreshCompletes(t)

\* A list changed: the new lists are visible while the history is re-read.
RefreshReplacesFirst(t) ==
    /\ pc[t] = "listClosed"
    /\ ~(Unchanged("active", freshActive) /\ Unchanged("closed", ListClosed))
    /\ "history" \in loaded
    /\ ReplaceLists
    /\ staleDetails' = TRUE
    /\ pc' = [pc EXCEPT ![t] = "listHistory"]
    /\ UNCHANGED <<environment, lastRevision, failures, lock, caller, locals>>

\* Mutation: a failed history read ends the refresh early.
RefreshHistoryOrReturns(t) ==
    /\ pc[t] = "listHistory"
    /\ \/ /\ cache' = [cache EXCEPT !["history"] = ListHistory(historyCutoff)]
          /\ historyRev' = rev
          /\ RefreshCompletes(t)
       \/ /\ "history" \in MayFail
          /\ UNCHANGED <<cache, historyRev, lastRevision, failures, staleDetails>>
          /\ RefreshReturns(t)
    /\ UNCHANGED <<loaded, historyCutoff>>

\* The cached window is fetched again; if that fails the old history stays.
RefreshHistory(t) ==
    /\ pc[t] = "listHistory"
    /\ \/ /\ cache' = [cache EXCEPT !["history"] = ListHistory(historyCutoff)]
          /\ historyRev' = rev
       \/ /\ "history" \in MayFail
          /\ UNCHANGED <<cache, historyRev>>
    /\ UNCHANGED <<loaded, historyCutoff>>
    /\ RefreshCompletes(t)

--------------------------------------------------------------------------------
\* A call that waits or runs takes its next step.
Acquires(t) ==
    \/ LoadNotNeeded(t)
    \/ LoadStarts(t)
    \/ \E S \in Readable : RefreshSkips(t, S) \/ RefreshStarts(t, S)

Runs(t) ==
    \/ LoadSucceeds(t)
    \/ LoadFails(t)
    \/ ActiveListed(t)
    \/ RefreshFails(t)
    \/ RefreshFindsSame(t)
    \/ RefreshReplaces(t)
    \/ RefreshReplacesFirst(t)
    \/ RefreshHistory(t)

Calls(t) ==
    \/ \E l \in {"active", "closed"} : CallLane(t, l)
    \/ CallSnapshot(t)
    \/ CallRefresh(t)
    \/ \E c \in Cutoff : CallHistory(t, c)

Environment ==
    \/ \E b \in Bead, i \in Issue, d \in Db : ExternalWrite(b, i, d)
    \/ NextDay

Next == Environment \/ \E t \in Task : Calls(t) \/ Acquires(t) \/ Runs(t)

Spec == Init /\ [][Next]_vars

--------------------------------------------------------------------------------
(* Properties                                                               *)

TypeOK ==
    /\ db \in [Bead -> Issue]
    /\ rev \in [Db -> Nat]
    /\ today \in Day
    /\ cache \in [Lane -> SUBSET Row]
    /\ loaded \subseteq Lane
    /\ historyCutoff \in Cutoff
    /\ historyRev \in [Db -> Nat]
    /\ lastRevision \subseteq Db \X Nat
    /\ failures \in 0..Threshold
    /\ staleDetails \in BOOLEAN
    /\ lock \in Task \cup {None}
    /\ pc \in [Task -> Pc]
    /\ goal \in [Task -> Lane \cup {"activeForHistory", "refresh"}]
    /\ cutoff \in [Task -> Cutoff]
    /\ revision \subseteq Db \X Nat
    /\ freshActive \subseteq Row

\* The rows of a cached list that are still inside the board's window: what
\* derive.lanes shows of it.
InWindow(rows) == {r \in rows : today <= r[2].day + Window}

\* The board shows what bd would list now.
BoardCurrent ==
    /\ cache["active"] = ListActive
    /\ InWindow(cache["closed"]) = ListClosed

\* refresh() reads nothing when the signature is the one of the last refresh
\* (store.py:343-351).  Whenever that can happen there is nothing to read,
\* although the cached lists came from two subprocesses with writes, other
\* loads and failures in between.
SkipMissesNothing ==
    \A S \in Readable : lock = None /\ CanSkip(Signature(S)) => BoardCurrent

\* A history fetched since the last write holds all the window it claims to
\* (store.py:241-260): _history_cutoff never promises more than was fetched.
HistoryHoldsItsWindow ==
    "history" \in loaded /\ historyRev = rev => cache["history"] = ListHistory(historyCutoff)

Wider(c, d) == c = All \/ (d # All /\ c <= d)

\* The window of the cached history never shrinks, so a request that was
\* covered stays covered, whichever loads and refreshes come between the check
\* and the answer.
HistoryNeverNarrows ==
    [][/\ loaded \subseteq loaded'
       /\ "history" \in loaded => Wider(historyCutoff', historyCutoff)]_vars

\* "Bead-detail caches are now stale wrt the new world" (store.py:418): no
\* refresh leaves new lists beside the details of the old ones, not even when
\* its history read fails.
DetailsDropped == lock = None => ~staleDetails

\* "refresh() ... Pulls fresh data for ALL caches" (store.py:47): after a
\* refresh at the current revision, the cached history is current as well.
HistoryRefreshed ==
    /\ lock = None
    /\ CanSkip(Signature(Db))
    /\ "history" \in loaded
    => cache["history"] = ListHistory(historyCutoff)
================================================================================
