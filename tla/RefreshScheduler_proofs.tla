------------------------ MODULE RefreshScheduler_proofs ------------------------
(***************************************************************************)
(* Proofs about RefreshScheduler, for every number of task slots, every     *)
(* debounce and cooldown and any number of notifications.                   *)
(***************************************************************************)
EXTENDS RefreshScheduler, TLAPS

USE SchedulerAssumption DEF SchedulerAssumption

(* What the sleeps have in common with the cooldown clock.  A debounce is    *)
(* as old as it has slept; a cooldown sleep ends exactly when the cooldown   *)
(* does, because no other pass can end meanwhile (SingleFlight).             *)
ClockInv ==
    \A t \in Task :
        /\ phase[t] = "debounce" => age[t] + left[t] = Debounce
        /\ phase[t] = "cooldown" =>
               /\ left[t] = Cooldown - elapsed
               /\ age[t] + left[t] <= Debounce + Cooldown

IInv == TypeOK /\ SingleFlight /\ ClockInv

LEMMA InitIInv == Init => IInv
<1> SUFFICES ASSUME Init PROVE IInv
    OBVIOUS
<1>1. TypeOK
  <2>1. phase \in [Task -> Phase]
      BY DEF Init, Phase
  <2>2. left \in [Task -> Nat] /\ age \in [Task -> Nat]
      BY DEF Init
  <2>3. elapsed \in 0..Cooldown /\ notified \in 0..MaxNotify
      BY DEF Init
  <2>4. /\ pending \in Task \cup {None}
        /\ refreshing \in BOOLEAN /\ dirty \in BOOLEAN
        /\ outcome \in {"none", "changed", "unchanged", "raised"}
      BY DEF Init
  <2> QED BY <2>1, <2>2, <2>3, <2>4 DEF TypeOK
<1>2. SingleFlight
    BY DEF Init, SingleFlight, Refreshing
<1>3. ClockInv
    BY DEF Init, ClockInv
<1> QED BY <1>1, <1>2, <1>3 DEF IInv

(* A settle started in a slot that is free once the pending one is gone     *)
(* keeps the invariant: it is the only one alive.                           *)
LEMMA StartSettleIInv ==
    ASSUME IInv, NEW u \in Task, NEW phases \in [Task -> Phase],
           \A t \in Task : phases[t] \in {"done", "cancelled"},
           StartSettle(u, phases), refreshing' = FALSE, dirty' \in BOOLEAN,
           elapsed' \in 0..Cooldown, notified' \in 0..MaxNotify,
           outcome' \in {"none", "changed", "unchanged", "raised"}
    PROVE  IInv'
<1>1. TypeOK'
    BY DEF IInv, TypeOK, StartSettle, Phase
<1>2. /\ phase'[u] = "debounce" /\ pending' = u
      /\ age'[u] = 0 /\ left'[u] = Debounce
      /\ \A t \in Task : t # u => phase'[t] \in {"done", "cancelled"}
    BY DEF IInv, TypeOK, StartSettle, Phase
<1>3. SingleFlight'
    BY <1>2 DEF SingleFlight, Refreshing
<1>4. ClockInv'
    BY <1>2 DEF ClockInv
<1> QED BY <1>1, <1>3, <1>4 DEF IInv

(* Cancelling the pending settle leaves none alive when no pass is running.  *)
LEMMA CancelPendingPhases ==
    ASSUME IInv, ~refreshing
    PROVE  /\ CancelPending \in [Task -> Phase]
           /\ \A t \in Task : CancelPending[t] \in {"done", "cancelled"}
<1>1. \A t \in Task : phase[t] # "refresh"
    BY DEF IInv, SingleFlight, Refreshing
<1>2. \A t \in Task : phase[t] \notin {"done", "cancelled"} => t = pending
    BY DEF IInv, SingleFlight
<1>3. phase \in [Task -> Phase] /\ pending \in Task \cup {None}
    BY DEF IInv, TypeOK
<1>4. CASE pending = None \/ (pending \in Task /\ phase[pending] = "done")
    BY <1>2, <1>3, <1>4 DEF CancelPending
<1>5. CASE ~(pending = None \/ (pending \in Task /\ phase[pending] = "done"))
    BY <1>2, <1>3, <1>5 DEF CancelPending, Phase
<1> QED BY <1>4, <1>5

LEMMA NotifyIInv == IInv /\ Notify => IInv'
<1> SUFFICES ASSUME IInv, Notify PROVE IInv'
    OBVIOUS
<1>0. notified' \in 0..MaxNotify
    BY DEF IInv, TypeOK, Notify
<1>1. CASE refreshing
    BY <1>0, <1>1 DEF IInv, TypeOK, SingleFlight, ClockInv, Refreshing, Notify, timing
<1>2. CASE ~refreshing
  <2>1. PICK u \in Task : StartSettle(u, CancelPending)
      BY <1>2 DEF Notify
  <2>2. UNCHANGED <<refreshing, dirty, elapsed, outcome>>
      BY <1>2 DEF Notify
  <2> QED BY <1>0, <1>2, <2>1, <2>2, CancelPendingPhases, StartSettleIInv DEF IInv, TypeOK
<1> QED BY <1>1, <1>2 DEF IInv, TypeOK

LEMMA FinishRefreshIInv ==
    ASSUME NEW t \in Task, IInv, FinishRefresh(t)
    PROVE  IInv'
<1> DEFINE finished == [phase EXCEPT ![t] = "done"]
<1>1. finished \in [Task -> Phase]
    BY DEF IInv, TypeOK, Phase
<1>2. \A s \in Task : finished[s] \in {"done", "cancelled"}
    BY DEF IInv, TypeOK, SingleFlight, FinishRefresh
<1>3. /\ refreshing' = FALSE /\ elapsed' = 0
      /\ dirty' = dirty /\ notified' = notified
      /\ outcome' \in {"changed", "unchanged"}
    BY DEF FinishRefresh
<1>4. /\ dirty' \in BOOLEAN /\ notified' \in 0..MaxNotify /\ elapsed' \in 0..Cooldown
       /\ outcome' \in {"none", "changed", "unchanged", "raised"}
    BY <1>3 DEF IInv, TypeOK
<1>5. CASE dirty
  <2>1. PICK u \in Task : StartSettle(u, finished)
      BY <1>5 DEF FinishRefresh
  <2> HIDE DEF finished
  <2> QED BY <1>1, <1>2, <1>3, <1>4, <2>1, StartSettleIInv
<1>6. CASE ~dirty
  <2>1. phase' = finished /\ UNCHANGED <<left, age, pending>>
      BY <1>6 DEF FinishRefresh, timing
  <2> HIDE DEF finished
  <2>2. TypeOK'
      BY <1>1, <1>3, <1>4, <2>1 DEF IInv, TypeOK
  <2>3. SingleFlight'
      BY <1>2, <1>3, <2>1 DEF SingleFlight, Refreshing
  <2>4. ClockInv'
      BY <1>2, <2>1 DEF ClockInv
  <2> QED BY <2>2, <2>3, <2>4 DEF IInv
<1> QED BY <1>5, <1>6 DEF IInv, TypeOK

(* The invariant is inductive.                                              *)
LEMMA NextIInv == IInv /\ [Next]_vars => IInv'
<1> SUFFICES ASSUME IInv, [Next]_vars PROVE IInv'
    OBVIOUS
<1>1. CASE Notify
    BY <1>1, NotifyIInv
<1>2. CASE Tick
  <2>1. TypeOK'
      BY <1>2 DEF IInv, TypeOK, Tick, Sleeping
  <2>2. SingleFlight'
      BY <1>2 DEF IInv, SingleFlight, Refreshing, Tick
  <2>3. ClockInv'
    <3> SUFFICES ASSUME NEW t \in Task
                 PROVE  /\ phase[t] = "debounce" => age'[t] + left'[t] = Debounce
                        /\ phase[t] = "cooldown" =>
                               /\ left'[t] = Cooldown - elapsed'
                               /\ age'[t] + left'[t] <= Debounce + Cooldown
        BY <1>2 DEF ClockInv, Tick
    <3>1. CASE t \in Sleeping
      <4>1. left[t] > 0 /\ left'[t] = left[t] - 1 /\ age'[t] = age[t] + 1
          BY <1>2, <3>1 DEF Tick
      <4>2. elapsed' = IF elapsed < Cooldown THEN elapsed + 1 ELSE Cooldown
          BY <1>2 DEF Tick
      <4>3. left[t] \in Nat /\ age[t] \in Nat /\ elapsed \in 0..Cooldown
          BY DEF IInv, TypeOK
      <4> QED BY <4>1, <4>2, <4>3 DEF IInv, ClockInv
    <3>2. CASE t \notin Sleeping
        BY <3>2 DEF Sleeping
    <3> QED BY <3>1, <3>2
  <2> QED BY <2>1, <2>2, <2>3 DEF IInv
<1>3. ASSUME NEW t \in Task, Cancelled(t) PROVE IInv'
    BY <1>3 DEF IInv, TypeOK, Phase, SingleFlight, ClockInv, Refreshing, Cancelled, timing
<1>4. ASSUME NEW t \in Task, SleepRemainder(t) PROVE IInv'
  <2>1. /\ phase' = [phase EXCEPT ![t] = "cooldown"]
        /\ left' = [left EXCEPT ![t] = Cooldown - elapsed]
        /\ UNCHANGED <<age, pending, refreshing, dirty, elapsed, notified, outcome>>
        /\ phase[t] = "debounce" /\ left[t] = 0 /\ elapsed < Cooldown
      BY <1>4 DEF SleepRemainder
  <2>2. age[t] \in Nat /\ elapsed \in 0..Cooldown
      BY DEF IInv, TypeOK
  <2>3. age[t] + (Cooldown - elapsed) <= Debounce + Cooldown
      BY <2>1, <2>2 DEF IInv, ClockInv
  <2>4. TypeOK'
      BY <2>1, <2>2 DEF IInv, TypeOK, Phase
  <2>5. SingleFlight'
      BY <2>1 DEF IInv, TypeOK, SingleFlight, Refreshing
  <2>6. ClockInv'
      BY <2>1, <2>3 DEF IInv, TypeOK, ClockInv
  <2> QED BY <2>4, <2>5, <2>6 DEF IInv
<1>5. ASSUME NEW t \in Task, StartRefresh(t) PROVE IInv'
  <2>1. /\ phase[t] \in {"debounce", "cooldown"}
        /\ phase' = [phase EXCEPT ![t] = "refresh"]
        /\ refreshing' = TRUE /\ dirty' = FALSE
        /\ UNCHANGED <<left, age, pending, elapsed, notified, outcome>>
      BY <1>5 DEF StartRefresh, Sleeping, timing
  <2>2. TypeOK'
      BY <2>1 DEF IInv, TypeOK, Phase
  <2>3. SingleFlight'
      BY <2>1 DEF IInv, TypeOK, SingleFlight, Refreshing
  <2>4. ClockInv'
      BY <2>1 DEF IInv, TypeOK, ClockInv
  <2> QED BY <2>2, <2>3, <2>4 DEF IInv
<1>6. ASSUME NEW t \in Task, FinishRefresh(t) PROVE IInv'
    BY <1>6, FinishRefreshIInv
<1>7. ASSUME NEW t \in Task, RefreshRaises(t) PROVE IInv'
  <2>1. /\ phase[t] = "refresh"
        /\ phase' = [phase EXCEPT ![t] = "done"]
        /\ refreshing' = FALSE /\ outcome' = "raised"
        /\ UNCHANGED <<left, age, pending, dirty, elapsed, notified>>
      BY <1>7 DEF RefreshRaises, timing
  <2>2. TypeOK'
      BY <2>1 DEF IInv, TypeOK, Phase
  <2>3. SingleFlight'
      BY <2>1 DEF IInv, TypeOK, SingleFlight, Refreshing
  <2>4. ClockInv'
      BY <2>1 DEF IInv, TypeOK, ClockInv
  <2> QED BY <2>2, <2>3, <2>4 DEF IInv
<1>8. CASE UNCHANGED vars
    BY <1>8 DEF vars, IInv, TypeOK, SingleFlight, ClockInv, Refreshing
<1> QED BY <1>1, <1>2, <1>3, <1>4, <1>5, <1>6, <1>7, <1>8 DEF Next, TaskStep

LEMMA InductiveInvariant == Spec => []IInv
BY InitIInv, NextIInv, PTL DEF Spec

(* The variables keep their types, the clock its range.                      *)
THEOREM TypeCorrect == Spec => []TypeOK
BY InductiveInvariant, PTL DEF IInv

(* Two refresh() calls never overlap and no settle is orphaned by notify().  *)
THEOREM SingleFlightHolds == Spec => []SingleFlight
BY InductiveInvariant, PTL DEF IInv

(* No settle sleeps longer than debounce + cooldown.                         *)
THEOREM SettlesInTimeHolds == Spec => []SettlesInTime
<1>1. ASSUME IInv, NEW t \in Sleeping
      PROVE  age[t] + left[t] <= Debounce + Cooldown
  <2>1. CASE phase[t] = "debounce"
      BY <1>1, <2>1 DEF IInv, ClockInv, Sleeping
  <2>2. CASE phase[t] = "cooldown"
      BY <1>1, <2>2 DEF IInv, ClockInv, Sleeping
  <2> QED BY <2>1, <2>2 DEF Sleeping
<1>2. IInv => SettlesInTime
    BY <1>1 DEF SettlesInTime
<1> QED BY <1>2, InductiveInvariant, PTL

(* Only StartRefresh raises _refreshing, and it finds the cooldown over.     *)
THEOREM CooldownHonouredHolds == Spec => CooldownHonoured
<1>1. IInv /\ [Next]_vars => [~refreshing /\ refreshing' => elapsed = Cooldown]_vars
  <2> SUFFICES ASSUME IInv, Next, ~refreshing, refreshing' PROVE elapsed = Cooldown
      BY DEF vars
  <2>1. ~Notify /\ ~Tick
      BY DEF Notify, Tick
  <2>2. PICK t \in Task : TaskStep(t)
      BY <2>1 DEF Next
  <2>3. StartRefresh(t)
      BY <2>2 DEF TaskStep, Cancelled, SleepRemainder, FinishRefresh, RefreshRaises
  <2>4. CASE phase[t] = "debounce"
      BY <2>3, <2>4 DEF StartRefresh
  <2>5. CASE phase[t] = "cooldown"
      BY <2>3, <2>5 DEF StartRefresh, IInv, TypeOK, ClockInv
  <2> QED BY <2>3, <2>4, <2>5 DEF StartRefresh, Sleeping
<1> QED BY <1>1, InductiveInvariant, PTL DEF Spec, CooldownHonoured

(* A running pass is not touched by notify(), which sees _refreshing.        *)
THEOREM PassNeverCancelledHolds == Spec => PassNeverCancelled
<1>1. IInv /\ [Next]_vars
      => [\A t \in Task : phase[t] = "refresh" => phase'[t] # "cancelled"]_vars
  <2> SUFFICES ASSUME IInv, Next, NEW t \in Task, phase[t] = "refresh"
               PROVE  phase'[t] # "cancelled"
      BY DEF vars
  <2>1. CASE Notify
      BY <2>1 DEF Notify, IInv, SingleFlight, Refreshing
  <2>2. CASE Tick
      BY <2>2 DEF Tick
  <2>3. ASSUME NEW s \in Task, TaskStep(s) PROVE phase'[t] # "cancelled"
    <3>1. CASE Cancelled(s) \/ SleepRemainder(s) \/ StartRefresh(s) \/ RefreshRaises(s)
        BY <3>1 DEF Cancelled, SleepRemainder, StartRefresh, RefreshRaises, IInv, TypeOK
    <3>2. CASE FinishRefresh(s)
        BY <3>2 DEF FinishRefresh, StartSettle, IInv, TypeOK
    <3> QED BY <2>3, <3>1, <3>2 DEF TaskStep
  <2> QED BY <2>1, <2>2, <2>3 DEF Next
<1> QED BY <1>1, InductiveInvariant, PTL DEF Spec, PassNeverCancelled

--------------------------------------------------------------------------------
(* The refinement: each step is a step of the latch or leaves it alone.      *)

LEMMA InitRefines == Init => Contract!ContractInit
BY DEF Init, Contract!ContractInit, Owed, Sleeping

LEMMA NotifyRefines == IInv /\ Notify => Contract!Notified
<1> SUFFICES ASSUME IInv, Notify PROVE Contract!Notified
    OBVIOUS
<1>1. UNCHANGED <<refreshing, outcome>> /\ notified' = notified + 1
    BY DEF Notify
<1>2. Owed'
  <2>1. CASE refreshing
      BY <2>1 DEF Notify, Owed
  <2>2. CASE ~refreshing
    <3>1. PICK u \in Task : StartSettle(u, CancelPending)
        BY <2>2 DEF Notify
    <3>2. phase'[u] = "debounce"
        BY <2>2, <3>1, CancelPendingPhases DEF StartSettle
    <3> QED BY <3>2 DEF Owed, Sleeping
  <2> QED BY <2>1, <2>2
<1> QED BY <1>1, <1>2 DEF Contract!Notified, Owed

(* While a pass runs no settle sleeps, so the latch is _dirty.               *)
LEMMA OwedWhileRefreshing == IInv /\ refreshing => Sleeping = {}
BY DEF IInv, SingleFlight, Refreshing, Sleeping

LEMMA FinishRefines ==
    ASSUME NEW t \in Task, IInv, FinishRefresh(t)
    PROVE  Contract!PassEnds
<1>1. refreshing /\ Sleeping = {}
    BY OwedWhileRefreshing DEF FinishRefresh, IInv, SingleFlight, Refreshing
<1>2. /\ refreshing' = FALSE /\ notified' = notified
      /\ outcome' \in {"changed", "unchanged"}
    BY DEF FinishRefresh
<1>3. Owed' = Owed
  <2>1. CASE dirty
    <3>1. PICK u \in Task : StartSettle(u, [phase EXCEPT ![t] = "done"])
        BY <2>1 DEF FinishRefresh
    <3>2. phase'[u] = "debounce"
        BY <3>1 DEF StartSettle, IInv, TypeOK
    <3>3. Owed'
        BY <3>2 DEF Owed, Sleeping
    <3> QED BY <1>1, <2>1, <3>3 DEF Owed
  <2>2. CASE ~dirty
    <3>1. phase' = [phase EXCEPT ![t] = "done"]
        BY <2>2 DEF FinishRefresh
    <3>2. Sleeping' = {}
        BY <1>1, <3>1 DEF Sleeping, IInv, TypeOK
    <3> QED BY <1>1, <1>2, <2>2, <3>2 DEF Owed
  <2> QED BY <2>1, <2>2
<1> QED BY <1>1, <1>2, <1>3 DEF Contract!PassEnds

LEMMA TaskStepRefines ==
    ASSUME NEW t \in Task, IInv, TaskStep(t)
    PROVE  [Contract!ContractNext]_(Contract!contractVars)
<1>1. CASE Cancelled(t)
  <2>1. Sleeping' = Sleeping
      BY <1>1 DEF Cancelled, Sleeping, IInv, TypeOK
  <2> QED BY <1>1, <2>1 DEF Cancelled, Owed, Contract!contractVars
<1>2. CASE SleepRemainder(t)
  <2>1. Sleeping' = Sleeping
      BY <1>2 DEF SleepRemainder, Sleeping, IInv, TypeOK
  <2> QED BY <1>2, <2>1 DEF SleepRemainder, Owed, Contract!contractVars
<1>3. CASE StartRefresh(t)
  <2>1. t \in Sleeping /\ ~refreshing
      BY <1>3, OwedWhileRefreshing DEF StartRefresh
  <2>2. Sleeping' = {}
      BY <1>3 DEF StartRefresh, Sleeping, IInv, TypeOK, SingleFlight
  <2> QED BY <1>3, <2>1, <2>2
          DEF StartRefresh, Owed, Contract!ContractNext, Contract!PassStarts
<1>4. CASE FinishRefresh(t)
    BY <1>4, FinishRefines DEF Contract!ContractNext
<1>5. CASE RefreshRaises(t)
  <2>1. refreshing /\ Sleeping = {}
      BY <1>5, OwedWhileRefreshing DEF RefreshRaises, IInv, SingleFlight, Refreshing
  <2>2. Sleeping' = {}
      BY <1>5, <2>1 DEF RefreshRaises, Sleeping, IInv, TypeOK
  <2> QED BY <1>5, <2>1, <2>2
          DEF RefreshRaises, Owed, Contract!ContractNext, Contract!PassRaises
<1> QED BY <1>1, <1>2, <1>3, <1>4, <1>5 DEF TaskStep

(* RefreshScheduler implements the latch of RefreshContract.                 *)
THEOREM SchedulerImplementsContract == Spec => ImplementsContract
<1>1. IInv /\ [Next]_vars => [Contract!ContractNext]_(Contract!contractVars)
  <2> SUFFICES ASSUME IInv, [Next]_vars
               PROVE  [Contract!ContractNext]_(Contract!contractVars)
      OBVIOUS
  <2>1. CASE Notify
      BY <2>1, NotifyRefines DEF Contract!ContractNext
  <2>2. CASE Tick
      BY <2>2 DEF Tick, Owed, Sleeping, Contract!contractVars
  <2>3. ASSUME NEW t \in Task, TaskStep(t)
        PROVE  [Contract!ContractNext]_(Contract!contractVars)
      BY <2>3, TaskStepRefines
  <2>4. CASE UNCHANGED vars
      BY <2>4 DEF vars, Owed, Sleeping, Contract!contractVars
  <2> QED BY <2>1, <2>2, <2>3, <2>4 DEF Next
<1> QED BY <1>1, InitRefines, InductiveInvariant, PTL
        DEF Spec, ImplementsContract, Contract!ContractSpec
================================================================================
