----------------------------------- MODULE Pour -----------------------------------
(***************************************************************************)
(* api_formula_pour of src/bdboard/app.py: the formulas are listed, the     *)
(* form is checked, bd mol pour writes a tree of beads, the tree is renamed,*)
(* the store refreshes and the tabs are told, each step a turn of its own   *)
(* at BdClient's gate, while other routes, the watcher and agents go on.    *)
(*                                                                          *)
(* The poured tree is a key of BdClient: its version grows when bd mol pour *)
(* creates it and when the rename changes it.  Store.refresh() always lists *)
(* here: that a refresh it skips would have found nothing is Store's.       *)
(***************************************************************************)
EXTENDS BdClient

VARIABLES
    route,      \* where the request for a pour stands
    poured      \* (history) the newest version of the tree the process was told
                \* of when the route had the store refresh

pourVars == <<clientVars, route, poured>>

Route == {"idle", "formulas", "form", "pour", "rename", "refresh", "told"}

PourInit ==
    /\ ClientInit
    /\ route = [t \in Task |-> "idle"]
    /\ poured = [t \in Task |-> 0]

--------------------------------------------------------------------------------
(* The route.                                                               *)

Goes(t, from, to) ==
    /\ route[t] = from
    /\ route' = [route EXCEPT ![t] = to]

Asks(t) ==
    /\ Goes(t, "idle", "formulas")
    /\ Fetch(t)
    /\ UNCHANGED poured

\* 500, 404: no list, no such formula, or its file cannot be read.
Declines(t) ==
    /\ Goes(t, "formulas", "idle")
    /\ Returns(t)
    /\ UNCHANGED poured

ReadsForm(t) ==
    /\ Goes(t, "formulas", "form")
    /\ pc[t] = "saved"
    /\ Returns(t)
    /\ UNCHANGED poured

\* 400: a variable without a default was left blank.
Blocks(t) ==
    /\ Goes(t, "form", "idle")
    /\ UNCHANGED <<clientVars, poured>>

Pours(t, tree) ==
    /\ Goes(t, "form", "pour")
    /\ Mutate(t, tree)
    /\ UNCHANGED poured

\* 500: bd refused, was killed, or printed what is no result, whether or not it
\* had poured; no refresh and no broadcast follow.
PourFails(t) ==
    /\ Goes(t, "pour", "idle")
    /\ Returns(t)
    /\ UNCHANGED poured

Renames(t) ==
    /\ Goes(t, "pour", "rename")
    /\ pc[t] = "saved"
    /\ Mutate(t, key[t])
    /\ UNCHANGED poured

Refreshes(t, after) ==
    /\ Goes(t, after, "refresh")
    /\ List(t)
    /\ poured' = [poured EXCEPT ![t] = known[key[t]]]

\* A result without a new_epic_id has nothing to rename.
RefreshesUnnamed(t) == pc[t] = "saved" /\ Refreshes(t, "pour")

\* A rename that failed is only a warning.
RefreshesRenamed(t) == Refreshes(t, "rename")

\* For the mutation runs: the broadcast before the refresh.
BroadcastsFirst(t) ==
    /\ Goes(t, "rename", "told")
    /\ pc[t] \in {"saved", "raised"}
    /\ poured' = [poured EXCEPT ![t] = known[key[t]]]
    /\ UNCHANGED clientVars

\* beads_changed: refresh() returns also when its lists failed.
Broadcasts(t) ==
    /\ Goes(t, "refresh", "told")
    /\ pc[t] \in {"saved", "raised"}
    /\ UNCHANGED <<clientVars, poured>>

Replies(t) ==
    /\ Goes(t, "told", "idle")
    /\ Returns(t)
    /\ poured' = [poured EXCEPT ![t] = 0]

PourStep(t) ==
    \/ Asks(t) \/ Declines(t) \/ ReadsForm(t) \/ Blocks(t)
    \/ \E tree \in Detail : Pours(t, tree)
    \/ PourFails(t) \/ Renames(t)
    \/ RefreshesUnnamed(t) \/ RefreshesRenamed(t)
    \/ Broadcasts(t) \/ Replies(t)

--------------------------------------------------------------------------------
(* The others.                                                              *)

\* The routes that read, those that write and read back, and the watcher's
\* refresh. Further fetches would hold the gate and change nothing.
OtherStep(t) ==
    /\ route[t] = "idle"
    /\ \/ \E k \in Key, fresh \in BOOLEAN : pc[t] = "idle" /\ Read(t, k, fresh)
       \/ \E k \in Memory : pc[t] = "idle" /\ Mutate(t, k)
       \/ pc[t] = "answered" /\ Mutate(t, key[t])
       \/ pc[t] = "idle" /\ List(t)
       \/ ReadsBack(t) \/ Returns(t)
    /\ UNCHANGED <<route, poured>>

Subprocess(t) ==
    /\ EntersGate(t) \/ LooksUp(t) \/ Commits(t) \/ SubprocessEnds(t)
    /\ UNCHANGED <<route, poured>>

Outside(k) ==
    /\ AgentWrites(k) \/ Expires(k)
    /\ UNCHANGED <<route, poured>>

PourNext ==
    \/ \E t \in Task : PourStep(t) \/ OtherStep(t) \/ Subprocess(t)
    \/ \E k \in Key : Outside(k)

PourSpec == PourInit /\ [][PourNext]_pourVars

\* The gate is FIFO, and every subprocess ends or is killed.
PourFairSpec ==
    /\ PourSpec
    /\ \A t \in Task :
        /\ SF_pourVars(EntersGate(t) /\ UNCHANGED <<route, poured>>)
        /\ WF_pourVars(SubprocessEnds(t) /\ UNCHANGED <<route, poured>>)

--------------------------------------------------------------------------------
(* Properties.                                                              *)

\* When the tabs are told of a pour, what they fetch holds the poured tree under
\* the newest title the process was told of, whatever lists of others were on
\* their way: unless bd list failed (app.py:1416-1421).
ToldIsListed ==
    \A t \in Task : route[t] = "told" /\ pc[t] = "saved" => poured[t] <= listed[key[t]]
================================================================================
