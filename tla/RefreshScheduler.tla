--------------------------- MODULE RefreshScheduler ----------------------------
(***************************************************************************)
(* RefreshScheduler of src/bdboard/watcher.py: file-system notifications    *)
(* are debounced, held back by a cooldown, and turned into refresh passes.  *)
(*                                                                          *)
(* A settle task is an asyncio task running _settle().  Everything between  *)
(* two awaits is one step, since the event loop is single-threaded.         *)
(* Cancelling a task whose sleep has already fired still throws             *)
(* CancelledError at that sleep, so cancellation wins over an expired timer. *)
(*                                                                          *)
(* Time is discrete.  Tick is urgent: it waits for expired sleeps and for   *)
(* cancelled tasks to be run, i.e. the event loop is not blocked.  A pass   *)
(* takes any amount of time and may raise.                                  *)
(***************************************************************************)
EXTENDS Naturals

CONSTANTS
    Task,       \* slots for settle tasks; a finished task frees its slot
    None,       \* the initial value of _pending
    Debounce,   \* _debounce_s, in ticks
    Cooldown,   \* _cooldown_s, in ticks
    MaxNotify   \* bound: notifications delivered in a behaviour

ASSUME SchedulerAssumption ==
    /\ Debounce \in Nat
    /\ Cooldown \in Nat
    /\ MaxNotify \in Nat
    /\ None \notin Task

VARIABLES
    phase,      \* where each settle task stands
    left,       \* ticks its current sleep still lasts
    age,        \* ticks since its event: how long it has slept in all
    pending,    \* _pending
    refreshing, \* _refreshing
    dirty,      \* _dirty
    elapsed,    \* monotonic() - _last_refresh_at, no further than Cooldown
    notified,   \* notifications delivered so far
    outcome     \* how the last pass ended; "changed" is the one that broadcasts

timing == <<left, age>>
vars == <<phase, left, age, pending, refreshing, dirty, elapsed, notified, outcome>>

Phase == {"done", "debounce", "cooldown", "cancelled", "refresh"}

Sleeping == {t \in Task : phase[t] \in {"debounce", "cooldown"}}
Refreshing == {t \in Task : phase[t] = "refresh"}

Init ==
    /\ phase = [t \in Task |-> "done"]
    /\ left = [t \in Task |-> 0]
    /\ age = [t \in Task |-> 0]
    /\ pending = None
    /\ refreshing = FALSE
    /\ dirty = FALSE
    /\ elapsed = Cooldown
    /\ notified = 0
    /\ outcome = "none"

\* create_task(_settle()) in a free slot u, given the other tasks' phases.
StartSettle(u, phases) ==
    /\ phases[u] = "done"
    /\ phase' = [phases EXCEPT ![u] = "debounce"]
    /\ left' = [left EXCEPT ![u] = Debounce]
    /\ age' = [age EXCEPT ![u] = 0]
    /\ pending' = u

\* _pending.cancel() unless it is done.
CancelPending ==
    IF pending = None \/ (pending \in Task /\ phase[pending] = "done")
    THEN phase
    ELSE [phase EXCEPT ![pending] = "cancelled"]

--------------------------------------------------------------------------------
(* Plausible mistakes in notify() and _settle(), for the mutation runs.     *)

\* The original bug: a notification cancels whatever _pending is doing.
NotifyCancelsAlways ==
    /\ notified < MaxNotify
    /\ notified' = notified + 1
    /\ \E u \in Task : StartSettle(u, CancelPending)
    /\ UNCHANGED <<refreshing, dirty, elapsed, outcome>>

\* A new settle is scheduled and the pending one is left alone.
NotifyKeepsPending ==
    /\ notified < MaxNotify
    /\ notified' = notified + 1
    /\ IF refreshing
       THEN /\ dirty' = TRUE
            /\ UNCHANGED <<phase, timing, pending>>
       ELSE /\ \E u \in Task : StartSettle(u, phase)
            /\ UNCHANGED dirty
    /\ UNCHANGED <<refreshing, elapsed, outcome>>

\* The first bug the module fixed: a settle inside the cooldown just returns.
SleepRemainderDropped(t) ==
    /\ phase[t] = "debounce"
    /\ left[t] = 0
    /\ elapsed < Cooldown
    /\ phase' = [phase EXCEPT ![t] = "done"]
    /\ UNCHANGED <<timing, pending, refreshing, dirty, elapsed, notified, outcome>>

\* elapsed taken with the operands swapped.
SleepRemainderSwapped(t) ==
    /\ phase[t] = "debounce"
    /\ left[t] = 0
    /\ elapsed < Cooldown
    /\ phase' = [phase EXCEPT ![t] = "cooldown"]
    /\ left' = [left EXCEPT ![t] = Cooldown + elapsed]
    /\ UNCHANGED <<age, pending, refreshing, dirty, elapsed, notified, outcome>>

\* The sleep that is left is forgotten: the refresh starts inside the cooldown.
SleepRemainderZero(t) ==
    /\ phase[t] = "debounce"
    /\ left[t] = 0
    /\ elapsed < Cooldown
    /\ phase' = [phase EXCEPT ![t] = "cooldown"]
    /\ left' = [left EXCEPT ![t] = 0]
    /\ UNCHANGED <<age, pending, refreshing, dirty, elapsed, notified, outcome>>

\* _dirty is cleared but never looked at.
FinishIgnoresDirty(t) ==
    /\ phase[t] = "refresh"
    /\ phase' = [phase EXCEPT ![t] = "done"]
    /\ refreshing' = FALSE
    /\ elapsed' = 0
    /\ outcome' \in {"changed", "unchanged"}
    /\ UNCHANGED <<timing, pending, dirty, notified>>

\* The clock starts at the refresh's end whatever its value was: not capped.
TickUncapped ==
    /\ \A t \in Task : phase[t] # "cancelled"
    /\ \A t \in Sleeping : left[t] > 0
    /\ left' = [t \in Task |-> IF t \in Sleeping THEN left[t] - 1 ELSE left[t]]
    /\ age' = [t \in Task |-> IF t \in Sleeping THEN age[t] + 1 ELSE age[t]]
    /\ elapsed' = elapsed + 1
    /\ UNCHANGED <<phase, pending, refreshing, dirty, notified, outcome>>

--------------------------------------------------------------------------------
(* notify()                                                                 *)

Notify ==
    /\ notified < MaxNotify
    /\ notified' = notified + 1
    /\ \/ /\ refreshing
          /\ dirty' = TRUE
          /\ UNCHANGED <<phase, timing, pending>>
       \/ /\ ~refreshing
          /\ \E u \in Task : StartSettle(u, CancelPending)
          /\ UNCHANGED dirty
    /\ UNCHANGED <<refreshing, elapsed, outcome>>

(* _settle()                                                                *)

\* The CancelledError arrives at the sleep and the task returns.
Cancelled(t) ==
    /\ phase[t] = "cancelled"
    /\ phase' = [phase EXCEPT ![t] = "done"]
    /\ UNCHANGED <<timing, pending, refreshing, dirty, elapsed, notified, outcome>>

\* The debounce is over and some cooldown remains: sleep it out.
SleepRemainder(t) ==
    /\ phase[t] = "debounce"
    /\ left[t] = 0
    /\ elapsed < Cooldown
    /\ phase' = [phase EXCEPT ![t] = "cooldown"]
    /\ left' = [left EXCEPT ![t] = Cooldown - elapsed]
    /\ UNCHANGED <<age, pending, refreshing, dirty, elapsed, notified, outcome>>

\* No sleep is left: the pass starts and can no longer be cancelled.
StartRefresh(t) ==
    /\ t \in Sleeping
    /\ left[t] = 0
    /\ phase[t] = "debounce" => elapsed = Cooldown
    /\ phase' = [phase EXCEPT ![t] = "refresh"]
    /\ refreshing' = TRUE
    /\ dirty' = FALSE
    /\ UNCHANGED <<timing, pending, elapsed, notified, outcome>>

\* refresh() returned: the cooldown clock starts, a change is broadcast, and
\* an event that came meanwhile starts one more settle.
FinishRefresh(t) ==
    /\ phase[t] = "refresh"
    /\ refreshing' = FALSE
    /\ elapsed' = 0
    /\ outcome' \in {"changed", "unchanged"}
    /\ LET finished == [phase EXCEPT ![t] = "done"] IN
       IF dirty
       THEN \E u \in Task : StartSettle(u, finished)
       ELSE /\ phase' = finished
            /\ UNCHANGED <<timing, pending>>
    /\ UNCHANGED <<dirty, notified>>

\* refresh() raised: logged, the clock stays, _dirty is not looked at.
RefreshRaises(t) ==
    /\ phase[t] = "refresh"
    /\ phase' = [phase EXCEPT ![t] = "done"]
    /\ refreshing' = FALSE
    /\ outcome' = "raised"
    /\ UNCHANGED <<timing, pending, dirty, elapsed, notified>>

\* One tick of the monotonic clock.
Tick ==
    /\ \A t \in Task : phase[t] # "cancelled"
    /\ \A t \in Sleeping : left[t] > 0
    /\ left' = [t \in Task |-> IF t \in Sleeping THEN left[t] - 1 ELSE left[t]]
    /\ age' = [t \in Task |-> IF t \in Sleeping THEN age[t] + 1 ELSE age[t]]
    /\ elapsed' = IF elapsed < Cooldown THEN elapsed + 1 ELSE Cooldown
    /\ UNCHANGED <<phase, pending, refreshing, dirty, notified, outcome>>

TaskStep(t) ==
    Cancelled(t) \/ SleepRemainder(t) \/ StartRefresh(t) \/ FinishRefresh(t) \/ RefreshRaises(t)

Next == Notify \/ Tick \/ \E t \in Task : TaskStep(t)

Spec == Init /\ [][Next]_vars

\* The event loop runs every task that is ready and time passes; a pass ends
\* because every bd call has a timeout.  Nothing makes the watcher notify.
Fairness ==
    /\ WF_vars(Tick)
    /\ \A t \in Task : WF_vars(TaskStep(t))

FairSpec == Spec /\ Fairness

--------------------------------------------------------------------------------
(* Properties                                                               *)

TypeOK ==
    /\ phase \in [Task -> Phase]
    /\ left \in [Task -> Nat]
    /\ age \in [Task -> Nat]
    /\ pending \in Task \cup {None}
    /\ refreshing \in BOOLEAN
    /\ dirty \in BOOLEAN
    /\ elapsed \in 0..Cooldown
    /\ notified \in 0..MaxNotify
    /\ outcome \in {"none", "changed", "unchanged", "raised"}

\* At most one settle is alive (neither finished nor cancelled), it is the one
\* _pending refers to, and _refreshing tells exactly whether it is inside its
\* pass: two refresh() calls never overlap, whatever the order of
\* notifications, cancellations and wake-ups.
SingleFlight ==
    /\ \A t \in Task : phase[t] \notin {"done", "cancelled"} => t = pending
    /\ refreshing <=> Refreshing # {}

\* A pass that has started runs to its end: no notification cancels it, not
\* even the one its own `bd list` provokes (watcher.py:44-60).
PassNeverCancelled ==
    [][\A t \in Task : phase[t] = "refresh" => phase'[t] # "cancelled"]_vars

\* A pass starts only when the cooldown since the last completed one is over,
\* however the debounce and cooldown sleeps were cancelled and restarted.
CooldownHonoured ==
    [][~refreshing /\ refreshing' => elapsed = Cooldown]_vars

\* "~debounce+cooldown of the write" (watcher.py:38-39): no settle sleeps longer
\* than that, counted from the notification (or the end of the pass) that
\* created it.
SettlesInTime ==
    \A t \in Sleeping : age[t] + left[t] <= Debounce + Cooldown

\* The latch of the contract: a live settle still asleep, or a dirty pass.
Owed == Sleeping # {} \/ (refreshing /\ dirty)

Contract == INSTANCE RefreshContract WITH owed <- Owed, running <- refreshing

\* The scheduler does what its caller relies on: no notification is lost
\* unless a pass raises, and passes never overlap (watcher.py:34-60).
ImplementsContract == Contract!ContractSpec

\* "trailing/isolated writes ALWAYS produce a refresh" (watcher.py:38-39): once
\* notifications pause, a settle that sleeps, whatever it replaced, gets to
\* its pass, also when earlier passes raised.
SettleLeadsToPass == Sleeping # {} ~> refreshing
================================================================================
