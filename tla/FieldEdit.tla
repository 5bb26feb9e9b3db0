------------------------------- MODULE FieldEdit -------------------------------
(***************************************************************************)
(* The bead dialog and the edit of one field (src/bdboard/app.py): the      *)
(* status gate and the optimistic lock in front of a write that takes its   *)
(* own turn at BdClient's gate, while other tabs and agents write too.      *)
(*                                                                          *)
(* A tab is a coroutine of BdClient with one request at a time, and the     *)
(* forms it holds.  `updated_at` is the version of the bead.                *)
(***************************************************************************)
EXTENDS BdClient

VARIABLES
    route,      \* where the tab's request stands
    token,      \* expected_updated_at of its form for each bead, None without one
    append,     \* the edit only appends
    locked      \* the versions of each bead in which its status locks it

form == <<token, append>>
vars == <<clientVars, route, form, locked>>

Route == {"idle", "check", "save"}

Init ==
    /\ ClientInit
    /\ route = [t \in Task |-> "idle"]
    /\ token = [t \in Task |-> [b \in Detail |-> None]]
    /\ append = [t \in Task |-> FALSE]
    /\ locked = [k \in Detail |-> {}]

--------------------------------------------------------------------------------

Views(t, b) ==
    /\ route[t] = "idle"
    /\ pc[t] = "idle"
    /\ Read(t, b, FALSE)
    /\ UNCHANGED <<route, form, locked>>

\* The form carries whatever the read returned.
RendersUnread(t) ==
    /\ route[t] = "idle"
    /\ kind[t] = "read"
    /\ Returns(t)
    /\ token' = [token EXCEPT ![t][key[t]] = answer[t]]
    /\ UNCHANGED <<route, append, locked>>

\* The dialog or the row is rendered from the read or, when it failed, from
\* the store's lists; its form carries that version.
Renders(t) ==
    /\ route[t] = "idle"
    /\ kind[t] = "read"
    /\ Returns(t)
    /\ token' = [token EXCEPT ![t][key[t]] =
                    IF answer[t] = Failed THEN listed[key[t]] ELSE answer[t]]
    /\ UNCHANGED <<route, append, locked>>

\* The form is posted; the route reads the bead live before anything else.
Submits(t, b, ap) ==
    /\ route[t] = "idle"
    /\ pc[t] = "idle"
    /\ Read(t, b, TRUE)
    /\ route' = [route EXCEPT ![t] = "check"]
    /\ append' = [append EXCEPT ![t] = ap]
    /\ UNCHANGED <<token, locked>>

\* An edit that replaces the value of a form that sent its token.
Guarded(t) == ~append[t] /\ token[t][key[t]] # None

\* The check without the status gate.
RefusedIfMoved(t) ==
    answer[t] # Failed /\ Guarded(t) /\ answer[t] # token[t][key[t]]

\* The check without the optimistic lock.
RefusedIfLocked(t) == answer[t] # Failed /\ answer[t] \in locked[key[t]]

\* 403 for a bead that is not open, 409 for one that moved on.
Refused(t) ==
    /\ answer[t] # Failed
    /\ \/ answer[t] \in locked[key[t]]
       \/ Guarded(t) /\ answer[t] # token[t][key[t]]

Rejects(t) ==
    /\ route[t] = "check"
    /\ pc[t] = "answered"
    /\ Refused(t)
    /\ Returns(t)
    /\ route' = [route EXCEPT ![t] = "idle"]
    /\ UNCHANGED <<form, locked>>

\* update_field; a live read that failed does not block the edit.
Saves(t) ==
    /\ route[t] = "check"
    /\ pc[t] = "answered"
    /\ ~Refused(t)
    /\ Mutate(t, key[t])
    /\ route' = [route EXCEPT ![t] = "save"]
    /\ UNCHANGED <<form, locked>>

\* The write returned: read again, to render the row.
Rereads(t) ==
    /\ route[t] = "save"
    /\ ReadsBack(t)
    /\ route' = [route EXCEPT ![t] = "idle"]
    /\ UNCHANGED <<form, locked>>

\* 500: the write raised, whether or not bd had committed it.
SaveFails(t) ==
    /\ route[t] = "save"
    /\ pc[t] = "raised"
    /\ Returns(t)
    /\ route' = [route EXCEPT ![t] = "idle"]
    /\ UNCHANGED <<form, locked>>

\* The watcher's refresh.
Refreshes(t) ==
    /\ route[t] = "idle"
    /\ \/ List(t)
       \/ kind[t] = "list" /\ Returns(t)
    /\ UNCHANGED <<route, form, locked>>

\* An edit of a field leaves the bead's status alone.
Commit(t) ==
    /\ Commits(t)
    /\ locked' = IF db[key[t]] \in locked[key[t]]
                 THEN [locked EXCEPT ![key[t]] = @ \cup {db'[key[t]]}]
                 ELSE locked
    /\ UNCHANGED <<route, form>>

\* An agent changes a bead, and perhaps claims, closes or reopens it.
Agent(b) ==
    /\ AgentWrites(b)
    /\ locked' \in {locked, [locked EXCEPT ![b] = @ \cup {db'[b]}]}
    /\ UNCHANGED <<route, form>>

Subprocess(t) ==
    /\ EntersGate(t) \/ LooksUp(t) \/ SubprocessEnds(t)
    /\ UNCHANGED <<route, form, locked>>

Expiry(b) == Expires(b) /\ UNCHANGED <<route, form, locked>>

Next ==
    \/ \E t \in Task :
        \/ \E b \in Detail : Views(t, b)
        \/ \E b \in Detail, ap \in BOOLEAN : Submits(t, b, ap)
        \/ Renders(t) \/ Rejects(t) \/ Saves(t) \/ Rereads(t) \/ SaveFails(t)
        \/ Refreshes(t)
        \/ Subprocess(t) \/ Commit(t)
    \/ \E b \in Detail : Agent(b) \/ Expiry(b)

Spec == Init /\ [][Next]_vars

--------------------------------------------------------------------------------
(* Properties.                                                              *)

TypeOK ==
    /\ ClientTypeOK
    /\ route \in [Task -> Route]
    /\ token \in [Task -> [Detail -> Maybe(Version)]]
    /\ append \in [Task -> BOOLEAN]
    /\ locked \in [Detail -> SUBSET Version]

\* An edit of a bead about to be written, after a live check that worked.
Checked(t) ==
    route[t] = "save" /\ kind[t] = "mutate" /\ answer[t] \in Version

\* An edit that replaces a value was made on a form at least as new as
\* everything bdboard itself had saved or listed when it was submitted: two
\* edits of bdboard never overwrite one another unless both were under way
\* at once (app.py:1468-1477).
OwnEditsSurvive ==
    \A t \in Task : Checked(t) /\ Guarded(t) => floor[t] <= token[t][key[t]]

\* A field is written only when the newest state bdboard had seen of the bead,
\* or a later one, was open (app.py:1503-1513, 1526).
LockedBeadsStay ==
    \A t \in Task :
        Checked(t) => answer[t] \notin locked[key[t]] /\ floor[t] <= answer[t]

\* "To prevent silent clobber we run an optimistic-lock precondition"
\* (app.py:1471): an edit that replaces a value is committed on top of the
\* version its form was rendered from.
NoSilentClobber ==
    [][\A t \in Task : Commit(t) /\ Checked(t) /\ Guarded(t) =>
        db[key[t]] = token[t][key[t]]]_vars
================================================================================
