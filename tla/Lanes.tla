--------------------------------- MODULE Lanes ---------------------------------
(***************************************************************************)
(* The board's derivation (src/bdboard/derive/lanes.py, feed.py and the     *)
(* badges of hygiene.py) on the lists the board's routes give it, over a    *)
(* workspace that agents change.                                            *)
(*                                                                          *)
(* The routes derive from two lists: `bd list`, which leaves closed beads   *)
(* out, and the closed list, which is bounded by the board's window and is  *)
(* loaded after the first paint.  That the cached lists follow the database *)
(* is the subject of Store and LiveSync: here they are up to date, so what  *)
(* the board shows is a function of the workspace.  Sorting within a lane   *)
(* and the template check of incomplete_sections() are left out.            *)
(***************************************************************************)
EXTENDS Naturals, FiniteSets

CONSTANTS
    Bead,       \* bead ids, numbered in the order of their _stable_key
    Status,     \* the statuses that occur
    Typing,     \* the ways the beads may be typed
    Graph,      \* the sets of links a behaviour may start from
    MaxLinks    \* bound: links and parents that agents add up to

Type == {"task", "epic", "gate", "wrapper", "swarm"}
ClosedStatus == {"closed", "resolved", "done"}
Link == Bead \X {"blocks", "waits-for"} \X Bead
Parenthood == Bead \X Bead

ASSUME LanesAssumption ==
    /\ Bead \subseteq Nat
    /\ IsFiniteSet(Bead)
    /\ Typing \subseteq [Bead -> Type]
    /\ Graph \subseteq SUBSET Link
    /\ MaxLinks \in Nat
    /\ "gate" \notin Status    \* counts() uses the name for a cell of its own

VARIABLES
    type,       \* issue_type; a wrapper and a swarm are both molecules
    status,     \* status, or "absent": not created yet, or deleted
    links,      \* <<waiter, dependency type, target>>
    parents,    \* <<child, parent>>
    faded,      \* the beads closed before the board's window
    warm        \* the store has loaded the closed list

vars == <<type, status, links, parents, faded, warm>>

Init ==
    /\ type \in Typing
    /\ links \in Graph
    /\ status = [b \in Bead |-> "open"]
    /\ parents = {}
    /\ faded = {}
    /\ warm = FALSE

--------------------------------------------------------------------------------
(* The workspace.  Deleting a bead leaves the links that point at it.       *)

SetStatus(b, s) ==
    /\ s # status[b]
    /\ status' = [status EXCEPT ![b] = s]
    /\ faded' = faded \ {b}
    /\ UNCHANGED <<type, links, parents, warm>>

Fades(b) ==
    /\ status[b] = "closed"
    /\ b \notin faded
    /\ faded' = faded \cup {b}
    /\ UNCHANGED <<type, status, links, parents, warm>>

MayAdd == Cardinality(links) + Cardinality(parents) < MaxLinks

AddLink(l) ==
    /\ MayAdd
    /\ links' = links \cup {l}
    /\ UNCHANGED <<type, status, parents, faded, warm>>

AddParent(c, p) ==
    /\ MayAdd
    /\ c # p
    /\ \A q \in parents : q[1] # c
    /\ parents' = parents \cup {<<c, p>>}
    /\ UNCHANGED <<type, status, links, faded, warm>>

Detach(l) ==
    /\ l \in links
    /\ links' = links \ {l}
    /\ UNCHANGED <<type, status, parents, faded, warm>>

\* /api/lanes/closed or /api/counts loads the closed list.
Warms ==
    /\ ~warm
    /\ warm' = TRUE
    /\ UNCHANGED <<type, status, links, parents, faded>>

Next ==
    \/ \E b \in Bead, s \in Status : SetStatus(b, s)
    \/ \E b \in Bead : Fades(b)
    \/ \E l \in Link : AddLink(l) \/ Detach(l)
    \/ \E c, p \in Bead : AddParent(c, p)
    \/ Warms

Spec == Init /\ [][Next]_vars

--------------------------------------------------------------------------------
(* What the store hands out.                                                *)

IsClosed(b) == status[b] \in ClosedStatus

Active == {b \in Bead : status[b] \notin {"absent", "closed"}}
ClosedList == {b \in Bead : status[b] = "closed"} \ faded

\* cached_known_ids()
KnownIds == Active \cup (IF warm THEN ClosedList ELSE {})

Deps(b, t) == {x \in Bead : <<b, t, x>> \in links}
Children(p) == {c \in Bead : <<c, p>> \in parents}

--------------------------------------------------------------------------------
(* lanes()                                                                  *)

IsMolecule(b) == type[b] \in {"wrapper", "swarm"}

\* non_epics: epics live in the strip, pour wrappers and hooked beads nowhere.
NonEpics == {b \in Active : type[b] \notin {"epic", "wrapper"} /\ status[b] # "hooked"}

\* Mutation: the children are looked up among the cards.
WaitsForUnmetAmongCards(p) == \E c \in Children(p) \cap NonEpics : ~IsClosed(c)

\* A fanout edge waits for the spawner's children; none is as good as all closed.
WaitsForUnmet(p) == \E c \in Children(p) \cap Active : ~IsClosed(c)

\* `loaded` is the keys of by_id: a target outside it counts as unmet.
HasUnmetBlockingDep(b, loaded) ==
    \/ \E x \in Deps(b, "blocks") : x \notin loaded \/ ~IsClosed(x)
    \/ \E p \in Deps(b, "waits-for") : WaitsForUnmet(p)

LaneOf(b) ==
    CASE IsClosed(b) -> "closed"
      [] ~IsClosed(b) /\ type[b] = "swarm" -> "swarm"
      [] ~IsClosed(b) /\ type[b] = "gate" -> "gate"
      [] OTHER ->
         CASE status[b] \in {"in_progress", "blocked", "pinned"} -> status[b]
           [] status[b] = "open" ->
              IF HasUnmetBlockingDep(b, NonEpics) THEN "blocked" ELSE "ready"
           [] OTHER -> "deferred"

Cards(l) == {b \in NonEpics : LaneOf(b) = l}

--------------------------------------------------------------------------------
(* blocked_reason()                                                         *)

\* Mutation: the targets are looked up among the cards, as lanes() does.
BlockedReasonAmongCards(b) ==
    IF Deps(b, "blocks") \ (NonEpics \cup KnownIds) # {} THEN "missing"
    ELSE IF \E x \in Deps(b, "blocks") \cap NonEpics : ~IsClosed(x) THEN "open"
    ELSE "none"

\* A target outside both lists is missing, and one in the closed list is met.
BlockedReason(b) ==
    IF Deps(b, "blocks") \ (Active \cup KnownIds) # {} THEN "missing"
    ELSE IF \E x \in Deps(b, "blocks") \cap Active : ~IsClosed(x) THEN "open"
    ELSE "none"

--------------------------------------------------------------------------------
(* counts(), of snapshot(): the beads a masthead cell tallies.              *)

Tallied == {b \in Active \cup ClosedList : status[b] # "hooked" /\ type[b] # "epic"}
PendingGate(b) == type[b] = "gate" /\ ~IsClosed(b)

\* Mutation: a gate is tallied under its raw status.
CountedRaw(cell) == {b \in Tallied : status[b] = cell}

Counted(cell) ==
    {b \in Tallied : IF PendingGate(b) THEN cell = "gate" ELSE status[b] = cell}

--------------------------------------------------------------------------------
(* Properties                                                               *)

TypeOK ==
    /\ type \in [Bead -> Type]
    /\ status \in [Bead -> Status \cup {"open"}]
    /\ links \subseteq Link
    /\ parents \subseteq Parenthood
    /\ faded \subseteq {b \in Bead : status[b] = "closed"}
    /\ warm \in BOOLEAN

\* A link holds its bead back, by what the database says.
HeldBack(b) ==
    \/ \E x \in Deps(b, "blocks") : status[x] # "absent" /\ ~IsClosed(x)
    \/ \E p \in Deps(b, "waits-for") :
          \E c \in Children(p) : status[c] # "absent" /\ ~IsClosed(c)

\* "Both must gate lane derivation or bdboard shows a bd-blocked bead as
\* actionable READY work" (lanes.py:68-70): a Ready card is claimable by the
\* whole database, although the lane sees no epic, wrapper or closed bead.
ReadyIsClaimable ==
    \A b \in Cards("ready") : ~HeldBack(b) /\ type[b] \notin {"gate", "swarm"}

\* The badge, which is given other lists than the lane, agrees with the
\* database: without one no target is open or deleted, and a dangling edge
\* is one whose target is deleted or in neither cached list (hygiene.py:151-176).
BadgeTellsTruth ==
    \A b \in NonEpics : LET X == Deps(b, "blocks") IN
        /\ BlockedReason(b) = "none" => \A x \in X : IsClosed(x)
        /\ BlockedReason(b) = "open" => \E x \in X : ~IsClosed(x)
        /\ BlockedReason(b) = "missing" =>
              \E x \in X : status[x] = "absent" \/ x \in faded \/ ~warm

\* "the masthead never shows a count without a matching lane" (feed.py:81-82):
\* counts() and lanes() filter the beads apart from each other, and still every
\* cell tallies the cards of its lane, and of molecules nothing is said.
CountsMatchLanes ==
    LET Plain(S) == {b \in S : ~IsMolecule(b)} IN
    /\ Plain(Counted("gate")) = Cards("gate")
    /\ Plain(Counted("in_progress")) = Cards("in_progress")
    /\ Plain(Counted("open") \cup Counted("blocked")) = Cards("ready") \cup Cards("blocked")

\* "any bead depending on a closed bead will conservatively show as blocked. ...
\* The UI corrects itself on SSE refresh" (app.py:771-774): once the closed list
\* is loaded, a bead whose every target is in it is not shown as blocked.
BlockedSelfCorrects ==
    warm => \A b \in Cards("blocked") :
        status[b] = "open" => HeldBack(b) \/ ~ Deps(b, "blocks") \subseteq ClosedList
================================================================================
