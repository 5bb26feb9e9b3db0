---------------------------- MODULE RefreshContract ----------------------------
(***************************************************************************)
(* What RefreshScheduler (src/bdboard/watcher.py) promises its caller, with *)
(* every timer, task and flag left out: a one-place latch.  A notification  *)
(* sets the latch; a refresh pass clears it when it starts, so that what    *)
(* arrives during the pass asks for another one; at most one pass runs.     *)
(*                                                                          *)
(* Only a pass that raised may forget what was notified meanwhile: the code *)
(* promises no more ("will retry on next change").                          *)
(***************************************************************************)
EXTENDS Naturals

VARIABLES
    notified,   \* how many notifications were delivered so far
    owed,       \* a notification no pass has started after
    running,    \* a refresh pass is executing
    outcome     \* how the last finished pass ended

contractVars == <<notified, owed, running, outcome>>

Outcome == {"none", "changed", "unchanged", "raised"}

ContractInit ==
    /\ notified = 0
    /\ owed = FALSE
    /\ running = FALSE
    /\ outcome = "none"

Notified ==
    /\ notified' = notified + 1
    /\ owed' = TRUE
    /\ UNCHANGED <<running, outcome>>

PassStarts ==
    /\ owed
    /\ ~running
    /\ owed' = FALSE
    /\ running' = TRUE
    /\ UNCHANGED <<notified, outcome>>

\* A pass that ran to its end forgets nothing.
PassEnds ==
    /\ running
    /\ running' = FALSE
    /\ outcome' \in {"changed", "unchanged"}
    /\ UNCHANGED <<notified, owed>>

PassRaises ==
    /\ running
    /\ running' = FALSE
    /\ outcome' = "raised"
    /\ owed' = FALSE
    /\ UNCHANGED notified

ContractNext == Notified \/ PassStarts \/ PassEnds \/ PassRaises

ContractSpec == ContractInit /\ [][ContractNext]_contractVars
================================================================================
