# A verification of bdboard

TLA+ models, TLC model checks and TLAPS proofs for bdboard
(`src/src/bdboard/`), the live web board over the `bd` issue tracker. Paths
below such as `store.py:345` are relative to `src/src/bdboard/`.

bdboard observes a `bd` workspace it does not own. Agents and people run `bd`
directly; every write changes files under `.beads/embeddeddolt/<db>/.dolt/noms/`;
bdboard sees the file event, lists the issues again through the `bd` command and
tells its browser tabs to fetch their partials again. Everything runs in one
asyncio process, so a step of a model is what a coroutine does between two awaits;
what interleaves with it are other coroutines, other processes, time and the
network.

## 1. Inventory

| Component | State | Operations | What makes it correct |
|---|---|---|---|
| Refresh scheduling, `watcher.py` | `_pending`, `_refreshing`, `_dirty`, `_last_refresh_at`, the settle tasks | `notify()`, `_settle()` | one settle, one pass, no cancelled pass, debounce and cooldown honoured, no lost trailing write |
| Store, `store.py` | three snapshots, the history window, the last revision, the failure streak, `_refresh_lock` | `snapshot*()`, `_load_*()`, `refresh()` | a skip never skips a change, the history holds its window, details never outlive the lists |
| Event bus and `/api/events`, `events.py`, `app.py:511-542` | subscriber queues | `broadcast`, `subscribe`, the stream | a tab that missed events still fetches |
| Board regions, `templates/` | what each region shows, requests in flight | `load`, `refresh from:body` | the board converges to what `bd` lists |
| bd client, `bd.py:577-748` | subprocess gate, TTL caches, in-flight futures | `_run_json`, `_run_mutate`, `_cached`, `invalidate_caches` | the gate is always released, joiners get an answer, no value older than the last invalidation is served |
| Field editing, memories, `app.py:1084-1165, 1445-1607` | the form's `updated_at` token | edit, append, create, delete | no silent overwrite, no write to a locked bead, tabs are told |
| Watch targets, `app.py:401-504`, `bd.py:162-225` | the watched directories, the baseline signature | enumerate, rescan, restart | a watch that died is found out, every directory is heard again, an event that was heard reaches a pass |
| Board derivation, `derive/lanes.py`, `hygiene.py`, `feed.py` | none | lanes, epic lane, cycles, badges, counts | every bead in exactly one lane, blocked-ness agrees between lanes and badges, cycles exact |
| History derivation and view, `derive/history.py`, `app.py` `api_history`, `history.html`, `base.html` | per tab: the chosen window and size, the page shown, requests in flight | bounds, windows, buckets, pages, percentiles; clicks, refreshes, answers | the pushed-down fetch loses nothing, a walk through the pages misses nothing, the chosen window stands, series and percentiles add up |
| Gates, merge slots, swarms, `derive/gates.py`, `swarm.py` | none | views of one bead | totality over odd inputs |
| Formula pour, `bd.py:934-1034`, `app.py:1305-1439` | none of its own | list, check, pour, rename, refresh, broadcast | what is announced is listed, and nothing others do at the gate comes in between |
| Dolt sync badge, `bd.py:1143-1300` | the resolved db directory | a chain of probes | degrades to "unknown" |
| Start-up, `cli.py` | the chosen port | probe, bind, open the browser | a free port is chosen |
| Interactions, analytics, Markdown, templates, field registry, audit diff | none | parsing and formatting | presentation only |

How they interact: `_watch_beads` turns file events into `notify()`; the
scheduler's pass awaits `Store.refresh()` and broadcasts on the bus when that
returns `True`; `/api/events` forwards the bus to the tabs; each tab's regions call
the routes, which read the store (loading lists lazily under the same
`_refresh_lock`); the edit and memory routes write through the bd client and
broadcast themselves; the pour route refreshes the store and then broadcasts.

The hard parts are the interleavings: a pass and the event its own read provokes,
two subprocess reads with a write between them, a refresh started by a request
racing the one started by the watcher, a check and the write it protects, an
in-flight read and the invalidation that should have covered it.
`PROJECT.json` lists them one by one under `hazards`, each at its line, with the
properties that cover it or the reason why none does.

## 2. Modules

| Module | Models | Extends / uses |
|---|---|---|
| `RefreshContract` | what the scheduler promises, as a one-place latch | |
| `RefreshScheduler` | `watcher.py`, task by task, over discrete time | instance of `RefreshContract` as its abstract specification |
| `RefreshScheduler_proofs` | theorems about `RefreshScheduler` | TLAPS |
| `Store` | `store.py` and the `bd list` reads it makes | |
| `BdClient` | `bd.py:581-782, 1047-1139`: the gate, the caches, the futures in flight | |
| `BdClient_proofs` | theorems about `BdClient` | TLAPS |
| `FieldEdit` | `app.py:1445-1607, 1673-1730`: the bead dialog and the edit of a field | `BdClient` |
| `FieldEdit_proofs` | theorems about `FieldEdit`, from those about `BdClient` | TLAPS |
| `Pour` | `app.py:1305-1439`, `bd.py:786-1034`: the pour of a formula among the other users of the gate | `BdClient` |
| `Pour_proofs` | theorems about `Pour`, from those about `BdClient` | TLAPS |
| `LiveSync` | store, scheduler latch, event bus, `/api/events`, regions of the tabs | `Store` |
| `LiveSync_proofs` | theorems about `Store` and about `LiveSync` | TLAPS |
| `Lanes` | `derive/lanes.py:116-567`, `counts()` of `feed.py`, `blocked_reason()` of `hygiene.py`, over a workspace that changes | |
| `Hygiene` | `cycle_member_ids()` of `hygiene.py`, `epic_lane()` of `lanes.py` | `Lanes` |
| `Lanes_proofs` | theorems about `Lanes` and `Hygiene` | TLAPS |
| `WatchTargets` | `app.py:401-504`, `bd.py:162-225`: the watch loop and its rescan over a file system that changes | `RefreshContract` for what an event leads to |
| `WatchTargets_proofs` | theorems about `WatchTargets` | TLAPS |
| `History` | `derive/history.py`, `derive/timeutil.py`, the bounds of `api_history` | |
| `HistoryPage` | `partials/history.html`, the two scripts of `base.html`, `api_history` | `History` |
| `History_proofs` | theorems about both | TLAPS |
| `MCRefreshScheduler`, `MCStore`, `MCLiveSync`, `MCPour`, `MCFieldEdit`, `MCBoard`, `MCWatchTargets`, `MCHistoryPage` | instances for TLC | |

### RefreshScheduler

A settle task has a `phase` (`debounce`, `cooldown`, `cancelled`, `refresh`,
`done`), the ticks `left` of its current sleep and its `age`. `pending`,
`refreshing` and `dirty` are the attributes of the same name; `elapsed` is
`monotonic() - _last_refresh_at` capped at the cooldown, which is all the code
compares it with. `Notify` is `notify()`; `SleepRemainder`, `StartRefresh`,
`FinishRefresh` and `RefreshRaises` are the segments of `_settle()`; `Cancelled`
delivers the `CancelledError`. Cancelling a sleep that has already expired but
whose task has not run still cancels it, as in asyncio. `Tick` waits for
expired sleeps and cancelled tasks to run: the event loop is assumed not to be
blocked for a whole tick. A pass lasts any number of ticks.

### Store

A bead is its status and the day it was closed; an external write changes one row
and one database's root hash (`rev`). `cache`, `loaded`, `historyCutoff`,
`lastRevision`, `failures` are the store's attributes; `pc`, `goal`, `cutoff`,
`revision`, `freshActive` the position and the locals of each coroutine.
`refresh()` is cut at its three `bd list` awaits (`RefreshStarts`,
`ActiveListed`, then one of `RefreshFails`, `RefreshFindsSame`, `RefreshReplaces`,
or `RefreshReplacesFirst` and `RefreshHistory`), the loaders at their one.
`Readable` says which manifests may be readable at one moment, `MayFail` which
reads may fail. `staleDetails` is the bd client's detail cache, reduced to
whether it survived a list that replaced another.

### LiveSync

Store's coroutines are the watcher's pass and one request per pane (a region of a
tab). The scheduler is reduced to the latch `owed`, which stands for the file event,
`notify()`, debounce and cooldown together: what `RefreshScheduler` is shown to
implement, with `running` the fact that the watcher's coroutine is not idle.
`Store.refresh()` catches what `bd list` raises, so the raising pass
of the contract does not occur here. Reading runs `bd`, which may touch the
watched files (`bd.py:235-243`): every read may set the latch again. A broadcast
fills bounded queues and drops the oldest; a connection may be lost at any time and
comes back with a bootstrap. HTMX keeps one request per element in flight and
at most one more in its queue; the lanes partial brings a new closed lane, which
loads itself. All events are `beads_changed`, so a queue is a number. The history
variable `unserved` holds the panes last answered while a list they show could not be read:
such a pane got an empty list, and the load that succeeds later announces nothing, so
`NoEventMissed` exempts it. The code accepts this until the next event; the instance has
`MayFail = {}`, the theorem admits every failure.

### BdClient

A value is the version of its key, so `db[k]` counts the writes to what key `k`
reads; `Detail` keys are those of the show, history and status caches, `Memory` keys
those of the memories cache. `cached`, `inflight` and `gate` are the attributes of
those names (an expired entry is an absent one), `pc`, `kind`, `key` and `got` the
position and locals of each coroutine, `listed` what the store's lists hold.
A subprocess enters the gate, touches the database at one moment (`LooksUp`,
`Commits`) and ends; what the code does then without an await (leave the gate,
store the value, resolve the future, drop caches) is the same step. A write may
time out before or after it commits. `AgentWrites` does not queue at the gate.
The history variables `known` and `floor` record what the process was told of a key: by a
write of its own that `bd` confirmed, or by a list the store compared. Cancellation is
left out: nothing in `src/` cancels a request. The memory routes are `Mutate` on a memory key
followed by `ReadsBack`. `Fetch` is a read no cache holds: the formulas, the gates, the swarm views.
`List` stands for the lists of one `Store.refresh()`; the store's lock is its second conjunct.

### Pour

`route` is where the request stands: `Asks` lists the formulas, `Declines` and `Blocks` are the 404, 400
and 500 answers before anything is written, `Pours` is `pour_formula`, `Renames` the new title of the wrapper,
`Refreshes` and `Broadcasts` what the tabs are owed, each a turn of its own at the gate. The poured tree is a key
whose version grows with the pour and with the rename. `PourFails` is every way `pour_formula` raises, among them the
timeout that kills `bd` after it committed and a result that is no object, which comes after the caches were dropped;
the route then neither refreshes nor broadcasts and leaves it to the watcher. A rename that failed only
words a warning. The history variable `poured` is the newest version of the tree the
process had been told of when its refresh began. `OtherStep` gives the remaining coroutines the routes that
read, the memory routes, the field edit (its `Mutate` after a read) and the watcher's refresh.
That `Store.refresh()` may skip its lists is `Store`'s subject: `SkipMissesNothing` says that nothing is lost by it.

### FieldEdit

`route` is where a tab's request stands, `token` the `updated_at` of its form for each
bead, `append` whether the edit appends, `locked` the versions of a bead in which its
status locks it. `Submits` is the live read (`show_long(fresh=True)`), `Rejects` the 403 and
409 answers, `Saves` the call of `update_field`, which queues at the gate again;
`Rereads` and `Renders` the re-rendered row with its new token. A live read
that failed lets the edit pass, as the code does.

### Lanes and Hygiene

The variables are the workspace: `type` and `status` of each bead, the `links` between beads (waiter,
dependency type, target), `parents`, which closed beads have `faded` out of the board's window, and
whether the store has loaded the closed list (`warm`). The actions are what `bd` lets agents do. The
board has no state of its own: `Cards`, `BlockedReason`, `Counted`, `CycleMemberIds` and `EpicLane` are
functions of the workspace, each applied to the list its route passes. `lanes()`, `epic_lane()` and
`cycle_member_ids()` get `snapshot_active()`, which never holds a closed bead; a badge is given that
list and `cached_known_ids()`; `counts()` gets the active and the closed list. The three filter those
lists apart from each other, which is what `CountsMatchLanes` and `BadgeTellsTruth` are about. A
molecule is left out of `CountsMatchLanes`: the masthead tallies pour wrappers and swarms under their
status, while a wrapper has no card and a swarm a lane of its own.

That the cached lists follow the database is the subject of `Store` and `LiveSync`; here they do. A
bead's number stands for its place in the order of `_stable_key`. Tarjan's algorithm is run turn by turn
of its `while` loop, from every order in which the Python set of nodes may be iterated, and compared with
reachability. `Arranged` is the list a sort gives, `Placed` the nodes Kahn's algorithm has placed after so many turns, of which
`TopoComponentOrder` says who comes before whom; `Chains` and `AnchorFirst` are the orders the concatenation of the components
and the drawing of the anchor to the front come to. Sorting within a lane, `incomplete_sections()`, the activity feed and the display fields
are left out.

### WatchTargets

`inode` is the directory at each path, 0 for none; other processes create, replace and delete
directories between any two calls of the loop, also where it does not await, since the file system is not
the event loop's. The kernel watches a directory and not its path, so `armed` loses a path with its directory. One turn of
`_watch_beads` is `Lists` (`watch_targets`), `Signs` (`watch_signature`), `Arms` (`awatch` starts and the
rescan task runs), then `Yields` for each batch, `RescanStops` when the rescan finds another signature and `Ends`
when `awatch` sees the stop event. `TargetGone` and `Crashes` are the handlers of `FileNotFoundError` and of any other
exception. What a batch leads to is `RefreshContract`, which the scheduler is shown to implement. A listing and a
signature are each taken at one moment, and inode numbers are assumed not to be reused. `late` are the paths created
between the listing and the baseline (`app.py:437-450`): the baseline then holds a directory that is not watched, and
no later poll notices; `WatchRecovers` exempts exactly these. Writes between the end of a watch and the start of the
next raise no event, and the loop sends no notification to make up for them (`app.py:473`), so
`HeardIsPending` and `HeardWritesReachAPass` speak of writes a watch heard.

### History and HistoryPage

`History` holds the pure part as operators: `Bounds` of a request, `Fetched` (what `bd` is asked for), the window and
its pages, the series per day, percentiles, the status timeline. Time is counted in ticks, several to a second and many to a
day, because `bd` compares whole seconds and the code does not, and because day buckets follow the server's zone while the
custom dates are days of UTC. `Misfetched`, `Disagreeing`, `Unsplit` and `Misread` collect the inputs on which an operator
and its reference definition differ: the window cut from everything, the counts by day against the beads themselves, the split
of a sorted list at a percentile, the last commit of a timeline.

`HistoryPage` is the view: `shown`, `typed`, `stored` and `flight` are the region, the date fields, `localStorage` and the requests
without an answer; `clock`, `closedAt` and `listed` are the beads and the store's history list, which lags behind them until `Loads`. A
request is computed and its answer swapped in as one step; the region's own requests wait for each other as HTMX makes them, those of the
buttons do not. `raced` records that a request was in flight beside a choice, or the region was fetched while dates were
typed but not applied: a refresh answered last then overwrites the choice, although `base.html:92-95` says that
explicit requests always win, so `ChoiceStands` exempts that case.

Seen while modelling, and modelled as the code has it: the active and the history list may be of different moments (`store.py:233-239`);
`h >= 0` keeps lead times of zero although the comment (`history.py:422-423`) speaks of dropping them; a refresh returns to page 1 and applies
dates that were typed but not applied; "Clear" goes to the default range; a bead reopened and closed
again during a walk moves to page 1 and can be missed, which `WalkMissesNothing` exempts.

## 3. Runs

| Run | Bounds | Shows |
|---|---|---|
| `scheduler` | 3 task slots, debounce 2, cooldown 3, 4 notifications | all safety properties, the refinement of the latch and `SettleLeadsToPass` |
| `store` | 1 bead, 2 coroutines, 1 database with a manifest that may be unreadable, every read may fail, 2 days, 2 writes | the skip, the history window, the detail caches |
| `store_history` | the same without failures | violated: the history cache misses a change outside the board's window |
| `livesync` | 1 tab with lanes, closed lane and counts, 1 write besides the initial state, queue of 1 | no pane is left behind by the bus, and the board converges |
| `bdclient` | 2 coroutines that may each pour, 1 tree of beads written twice, 1 memory search written once | caches and answers keep up with what the process was told, a pour is listed before it is announced, and every request is answered |
| `fieldedit` | 2 tabs, 1 bead, 2 writes | completed edits of bdboard are not overwritten from older forms; locked beads are not written |
| `fieldedit_clobber` | the same | violated: a write between the check and the edit's turn at the gate is overwritten |
| `livesync_unannounced` | 1 tab with lanes and counts, 2 writes | violated: the refresh inside `snapshot()` is never announced |
| `board` | 3 beads, 4 statuses; all epics on every graph of `blocks` edges, and three mixed typings; up to 2 links or parents added | lanes, badges and masthead agree with the database and each other; cycles and the epic strip are exact |
| `watch` | `.beads/` and 1 database, 3 directories created, replaced or deleted, 2 writes | a stale watch shows in the signature, every directory is heard again, every event that was heard reaches a pass |
| `history` | 3 beads, a clock up to 6, 4 initial closings, 1 closing or reopening, 3 clicks, 1 refresh, 2 requests in flight, page sizes 1 and 2, one range of a day and one of all time, custom dates on 2 days; derivations: sets of up to 3 of 8 sample beads and all 8, logs of up to 4 commits | the walk and the choice survive refreshes and late answers; fetch, series, percentiles and timeline agree with their references |
| `board_blocked` | the mixed typings, 1 link added | violated: a waiter of a closed bead stays in Blocked after the closed list is loaded |

Why the bounds are enough. Three task slots hold a live settle and two cancelled
ones that have not run yet; 4 notifications let one arrive in each phase and one
more after a pass; debounce and cooldown differ so that every order of their
expiry occurs. In `Store` one bead can be in either list, in the history, in or out of
the board's window; two writes put one between the two lists and one after the
refresh; the lock admits one coroutine, so a second one is enough to race with it.
In `LiveSync` a queue of one is full at the first event; echoes of
reads start as many passes as wanted, so one write can fall before, between or after
two passes. In `BdClient` a key is either up to date or not, so one write makes every
entry, read in flight and joiner stale once; the tree needs two, its pour and its rename, and an agent may take
one of them; two coroutines are an owner and a joiner, a reader and a writer, a pour and the watcher,
or two pours; the proofs cover every other size. `FieldEdit` needs two writes
so that an edit can follow another one and an agent. In `Lanes` a waiter, a spawner and its child are three beads,
and one bead of each filtered kind meets an ordinary one in some typing; on three nodes
there are loops, two- and three-cycles, a node upstream and one downstream of a cycle, and two components; every
such graph occurs with every assignment of statuses. In `WatchTargets` three changes are a database that appears, is replaced and goes
while the loop is anywhere, or one replaced twice; `.beads/` itself can be missing at first. In `History` three beads on
pages of one make a walk of three turns; one change is a bead that leaves the list or enters it between two of them; the sample beads
have closings before, on and between the bounds, on a second and off it, missing and backward stamps, and one
id in both lists. A page that never stops is no concern of these properties, so `history` may end when
its bounds are used up (`CHECK_DEADLOCK FALSE`).

Fairness. `SettleLeadsToPass` assumes that time passes and ready tasks
run (weak fairness of `Tick` and of each task's steps) and that a pass ends, which the
timeouts of every bd command justify. `BoardConverges` assumes the same of the
store's coroutines; strong fairness where a coroutine acquires `_refresh_lock`,
since asyncio's lock wakes waiters in FIFO order; that routes go on after their
write; that EventSource reconnects and some connection lasts until its bootstrap.
`EveryRequestAnswered` assumes that a
subprocess ends, since each has a timeout and is killed, and strong fairness of entering the
gate, an `asyncio.Semaphore` that wakes waiters in FIFO order. `WatchRecovers` and `HeardWritesReachAPass` assume that sleeps and
polls end, that `awatch` yields what it has and sees its stop event, that passes run and end, and that an error does not
strike every time the loop lists, signs or arms (strong fairness of those three). Nobody is obliged to write, to notify, to fail or to disconnect.

## 4. What is proved

`RefreshScheduler_proofs` proves, for every set of task slots and all natural
`Debounce`, `Cooldown` and `MaxNotify` (`SchedulerAssumption`):

- `TypeCorrect`, `SingleFlightHolds`, `SettlesInTimeHolds` (invariants),
- `CooldownHonouredHolds`, `PassNeverCancelledHolds` (action properties),
- `SchedulerImplementsContract`: the scheduler refines `RefreshContract`.

The inductive invariant is `TypeOK`, `SingleFlight` and a clock invariant that
relates a sleeping settle's remaining time to `elapsed`: a task in its cooldown sleep
has exactly `Cooldown - elapsed` ticks left, which is why the pass that
follows starts with the cooldown over, although the code never looks at the clock
again after that sleep. `SingleFlight` alone is not inductive: that a pass cannot start
twice needs that the task `_pending` refers to is the only live one.

`LiveSync_proofs` proves of `Store`, for all sets of beads, coroutines and databases and
whichever reads fail (`StoreAssumption`):

- `TypeCorrect`, `HistoryHoldsItsWindowHolds` (invariants),
- `DetailsDroppedHolds`, `HistoryNeverNarrowsHolds` (action properties),
- `SkipMissesNothingHolds`, under the further assumption `WholeSignatures`: at one
  moment all manifests can be read or none. It is needed: with two databases, two equal
  signatures that both omit one of them hide a write to it (`bd.py:263`).

`SkipMissesNothing` speaks of the step that skips; the invariant behind it
(`FreshInv`) says what holds between: whatever was read since a signature that is still
current is what is in the database now, whether it already sits in the caches, in
`fresh_active`, or waits for the history read. The lock invariant says which step
of whom may change it, `LoadedInv` that a revision is only recorded beside both lists.

`LiveImplementsStore` shows that every step of the live board is a step of the store or a stutter,
so all of this holds in the composition. On top of it, for any tabs and regions and any bound of the queues
(`LiveSyncAssumption`):

- `LiveTypeCorrect` and `NoEventMissedHolds`, whichever reads fail. The inductive invariant (`LiveIInv`) adds to
  the store's own that no call of the board is for the history (`NoHistory`) and that a pane which has its answer, and is not
  `unserved`, shows lists that are loaded (`ServedInv`): a later refresh that changes them is one that
  broadcasts, while the first load of a list is not.
- `QuietBoardIsCurrentHolds`, the safety half of `BoardConverges`: when no change is owed a pass and none is under way, every
  pane shows what `bd` would list or is about to fetch, or a refresh was never announced. Its two hypotheses are
  `WholeSignatures`, since a skip is as good as its signature, and `NoListFails`, since a pass that failed leaves old lists
  behind until the next event. The strengthening (`CaughtInv`) says that once no pass is owed or under way the loaded lists are
  those of the database. That the board comes to rest is what remains for TLC.

`BdClient_proofs` proves `CacheKeepsUpHolds`, `AnswersKeepUpHolds` and
`JoinersHaveAnOwnerHolds` for any number of coroutines, keys and writes
(`BdClientAssumption`). The property of the caches is not inductive: it needs that
only the holder of the gate holds a value read from the database (`GateInv`) and that this
value is no older than what is `known` (`KnownInv`), because nobody can be told of
anything newer while the gate is held.

`Pour_proofs` proves that a pour only takes steps of `BdClient` (`PourImplementsClient`), so that its theorems hold beside
pours, and `ToldIsListedHolds`. Its invariant follows the version of the tree: it is known when the refresh begins
(`ListedInv`), the list found at the gate is no older than what is known (`KnownInv`, from `BdClient_proofs`), and
neither what is known nor what is listed ever goes back (`NothingUnlearnt`), so that lists of others do no harm between the refresh and
the broadcast.

`FieldEdit_proofs` proves that the routes only take steps of `BdClient`
(`FieldEditUsesClient`), and on top of its invariant `TypeCorrect`, `OwnEditsSurviveHolds` and
`LockedBeadsStayHolds`. `CheckedInv` carries what the check saw to the moment of the
write; it needs that nothing read is ahead of the database (`PastInv`), so that a version an agent locks
later is never the one the edit was checked against.

`Lanes_proofs` proves `TypeCorrect` and, for any beads, statuses, typings and links (`LanesAssumption`),
`ReadyIsClaimableHolds`, `BadgeTellsTruthHolds` and `CountsMatchLanesHolds`. What the board shows is a function of the
workspace, so after type correctness these need no further invariant; the argument is that every bead the lane
does not see (an epic, a wrapper, a closed or deleted bead) is on the safe side of the test that misses it.
The assumption has one clause that matters: no status is called `gate`. `counts()` tallies pending gates under that
name beside the raw statuses (`feed.py:100-103`), and a custom status of that name would land in the same cell.

The two algorithms of `Hygiene` are proved in the same module, for any graph and not only those of three beads.
Both run for a number of turns that depends on the graph; what holds after every turn is proved by induction over a set of
natural numbers (`NatInSet`), which also shows that the recursion they are defined by has a solution.

- `CyclesExactHolds`: Tarjan's algorithm returns the beads that lead back to themselves, whatever order the Python set is
  iterated in. The inductive invariant (`TarjanInv`) relates the two stacks, the numbers and the low links. `LowReached` and
  `LowSeen` bound a low link from both sides: it is the number of a node on the stack that one can get to, and none looked at is
  lower. `LowGathered` and `Descended` tie the work to the stack: a node of the work has gathered the low links above it and leads to all
  of them. `Held` says that what is off the work and still on the stack leads lower. From these, what a root takes off the stack
  is one strongly connected component (`LeadsToRoot`, `RootTakes`): among the nodes that would not lead back to the root,
  the first has a low link below its own number and still not below the root's, which no node has. `Left` counts the nodes
  to visit, the edges to look along and the work, falls on each turn (`TurnKeeps`), and is less at the start than the turns
  `CycleMemberIds` is given (`TurnsEnough`), so the bound in that definition hides nothing.
- `StripInSequenceHolds`: components are classes of an equivalence (`ComponentHolds`), so that leaders order them; Kahn's
  algorithm places a node after its predecessors (`PlacedHolds`), and what it leaves over waits for something left over (`LeftWaits`), hence is
  led to by a cycle (`LedByCycle`). Each order the strip is put together from is strict and total, and a sort by such an
  order lists every member once (`ArrangedHolds`).

`WatchTargets_proofs` proves `TypeCorrect`, `SignatureVouchesHolds` and `HeardIsPendingHolds` for any databases and any number of
changes. The strengthening (`Newest`) is that no directory in the file system or in the baseline is newer than the last change, so a
directory that is created or put in place of another differs from every one the baseline holds: an
unchanged signature means that the directory under the watch is the one that was signed.

`History_proofs` proves, for all windows, beads, clocks and units of time (`HistoryAssumption`, which asks that a set of beads is finite):

- `FetchSufficesHolds`: the lower bound pushed down to `bd` loses no bead of any view. `OnOnePage`: every bead of a window is on
  exactly one page, and the pages end where `HasMore` says.
- `SeriesAddUpHolds`: a series is a sum over days of how many beads fall on each, and a finite set is the disjoint union of
  what falls on each day (`TotalCounts`).
- `PercentilesSplitHolds`: the list of durations is sorted (`DurationsSorted`), a percentile lies between the two
  ranks it is taken from (`Between`), and enough of a sorted list is on either side of it (`PercentileCounts`).
- `TimelineReadsBackHolds`: the status at a commit is that of the last change up to it (`LastChangeTells`), and the k-th stop is
  the change with k changes up to it (`UntilCounts`, `StopsHold`); the dwell times are differences that telescope (`Telescopes`).
- `PageTypeCorrect` and `ChoiceStandsHolds`. `ChoiceInv`, the strengthening of the latter, says that a choice in flight carries the chosen
  window (`ChoiceCarried`), and that without one, and unless a race was recorded, the page and every other request in
  flight name what was chosen (`Settled`); the stored page size is always the chosen one.
- `WalkMissesNothingHolds`. What a walk has seen is not inductive: `WalkInv` says where the rest is. A bead listed all the
  while and not seen yet has at least as many newer beads ahead of it as the pages up to the one shown hold; a closing only adds to
  them, and a window that moves with the clock drops the oldest, never one ahead. A walk during which a bead leaves the list or
  moves in it (it was reopened) is not `whole`, and nothing is claimed of it.

## 5. What is only model-checked, and what is not modelled

Every safety property of the passing runs, invariant, action property or refinement, is also a theorem. What only TLC checks, on the
instances above, is liveness: `SettleLeadsToPass`, `BoardConverges`, `EveryRequestAnswered`, `WatchRecovers` and
`HeardWritesReachAPass`. They rest on fairness, hence on `ENABLED`, which these provers do not handle; of `BoardConverges` the safety half
is proved. The `WholeSignatures` of two theorems and the `NoListFails` of one are assumptions on what the
file system and `bd` do and not facts about bdboard. The starvation of a settle by an endless stream of notifications is accepted by
the code and excluded by the bound on notifications.

Not modelled:

- Gates, merge slots and swarms (`derive/gates.py`, `derive/swarm.py`): functions of one answer of `bd`, without state; the waiter queue
  they display is `bd`'s. That their fetches use the gate and no cache is `Fetch`.
- The Dolt sync badge: a chain of read-only probes, each of which degrades to "unknown"; its one attribute, the resolved
  directory, is set once.
- The start-up command line: a port probe, a thread that opens the browser, then uvicorn.
- `interactions.py`, `analytics.py`, `md.py`, the field registry, the audit diff and the templates' markup: parsing and
  presentation of one file or one bead.
- The Memory page's region and the coordination strip are not in `LiveSync`'s composition: their lists are fetched
  again on every event and cached nowhere but in `BdClient`.
- In modelled components: `last_success`, log lines and wording, the sort within a lane, the activity feed, the check of templates,
  the means and rounding of the history summary, `_pour_counts` and CSRF.

## 6. Findings

Four runs end in a violation by what the code does; `PROJECT.json` quotes the
line each one contradicts. In short: a bead whose blocker is closed is never moved out of
Blocked (`app.py:779`); the history cache is not refreshed when the board's
lists are unchanged (`store.py:381`); a change first seen by the refresh inside
`snapshot()` is never broadcast (`store.py:208`); an edit overwrites what was written between its
check and its own turn at the gate (`app.py:1557`).

## 7. Plan

1. Scheduler and its contract, store, live synchronisation, `BdClient`, `FieldEdit`, `Lanes` and `Hygiene`. Done, with
   proofs.
2. `WatchTargets`, `History` with `HistoryPage`, `Pour`. Done, with proofs.
3. Worth proving next: the safety halves of the other liveness properties, as `QuietBoardIsCurrentHolds` is of `BoardConverges`: a
   client at rest has answered every request, a watch at rest is current.
4. Worth adding: the Memory page's region in `LiveSync`; the coordination strip as a further caller of `Fetch`.
