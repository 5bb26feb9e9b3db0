-------------------------------- MODULE Hygiene --------------------------------
(***************************************************************************)
(* The graph algorithms of the board: cycle_member_ids() of                 *)
(* src/bdboard/derive/hygiene.py, Tarjan's algorithm with an explicit work  *)
(* stack, and epic_lane() of derive/lanes.py, which orders the epic strip   *)
(* by Kahn's algorithm, component by component.  Both are checked against   *)
(* what the graph itself says.                                              *)
(***************************************************************************)
EXTENDS Lanes, SequencesExt

Least(S) == CHOOSE x \in S : \A y \in S : x <= y

\* Where one can get from n along edges E, in one step or more: what is in every
\* set that holds the nodes after n and those after its own.
After(S, E) == {x \in Bead : \E y \in S : <<y, x>> \in E}
Reach(E, n) == {x \in Bead : \A S \in SUBSET Bead : After({n} \cup S, E) \subseteq S => x \in S}

--------------------------------------------------------------------------------
(* cycle_member_ids()                                                       *)

\* _blocking_succ(): the edges from waiter to target between listed beads.
BlockingSucc == {e \in Active \X Active : <<e[1], "blocks", e[2]>> \in links}

Smaller(a, b) == IF a < b THEN a ELSE b

\* Mutation: a child that has been visited counts whether it is on the stack or not.
LooksAtAnyVisited(s, v, c) ==
    [s EXCEPT !.low[v] = Smaller(@, s.index[c]), !.todo[v] = @ \ {c}]

\* A child visited before counts while it is on the stack.
LooksAt(s, v, c) ==
    [s EXCEPT !.low[v] = IF c \in Range(s.stack) THEN Smaller(@, s.index[c]) ELSE @,
              !.todo[v] = @ \ {c}]

Enters(s, v, E) ==
    LET n == Cardinality(s.visited) IN
    [s EXCEPT !.visited = @ \cup {v}, !.index[v] = n, !.low[v] = n,
              !.todo[v] = {c \in Bead : <<v, c>> \in E},
              !.stack = <<v>> \o @, !.work = <<v>> \o @]

\* How many nodes leave the stack with v: a component, if v is its root.
Leaving(s, v) ==
    IF s.low[v] = s.index[v] THEN SelectInSeq(s.stack, LAMBDA x : x = v) ELSE 0

Cyclic(component, v, E) == Cardinality(component) > 1 \/ (component = {v} /\ <<v, v>> \in E)

\* The parent of v, on top of the work below it, hears of its low link.
Hears(low, below, v) ==
    IF below = <<>> THEN low ELSE [low EXCEPT ![Head(below)] = Smaller(@, low[v])]

\* The node on top of the work is done.
Leaves(s, E) ==
    LET v == Head(s.work)
        component == Range(SubSeq(s.stack, 1, Leaving(s, v)))
    IN [s EXCEPT !.work = Tail(@),
                 !.low = Hears(@, Tail(s.work), v),
                 !.stack = SubSeq(@, Leaving(s, v) + 1, Len(@)),
                 !.members = IF Cyclic(component, v, E) THEN @ \cup component ELSE @]

Turn(s, roots, E) ==
    IF s.work = <<>>
    THEN Enters(s, roots[SelectInSeq(roots, LAMBDA r : r \notin s.visited)], E)
    ELSE LET v == Head(s.work) IN
         IF s.todo[v] = {} THEN Leaves(s, E)
         ELSE LET c == Least(s.todo[v]) IN
              IF c \in s.visited THEN LooksAt(s, v, c)
              ELSE Enters([s EXCEPT !.todo[v] = @ \ {c}], c, E)

\* The nodes are a Python set: `roots` is the order it is iterated in.
CycleMemberIds(E, roots) ==
    LET zero == [b \in Bead |-> 0]
        start == [visited |-> {}, index |-> zero, low |-> zero, todo |-> [b \in Bead |-> {}],
                  stack |-> <<>>, work |-> <<>>, members |-> {}]
        Run[k \in 0..(3 * Cardinality(Bead) * Cardinality(Bead) + 1)] ==
            IF k = 0 THEN start
            ELSE LET s == Run[k - 1] IN
                 IF s.work = <<>> /\ Range(roots) \subseteq s.visited THEN s
                 ELSE Turn(s, roots, E)
    IN Run[3 * Cardinality(Bead) * Cardinality(Bead) + 1].members

--------------------------------------------------------------------------------
(* epic_lane()                                                              *)

ActiveEpics == {b \in Active : type[b] = "epic" /\ ~IsClosed(b)}

\* From predecessor to waiter, along both kinds of blocking edge.
Succ == {e \in ActiveEpics \X ActiveEpics :
            \E t \in {"blocks", "waits-for"} : <<e[2], t, e[1]>> \in links}

Component(n) == Reach(Succ \cup {<<e[2], e[1]>> : e \in Succ}, n) \cup {n}
Leader(n) == Least(Component(n))
Wired(n) == \E e \in Succ : e[1] \in Component(n)

\* The list of S that a sort by R gives, R a strict order.
Arranged(S, R) ==
    [i \in 1..Cardinality(S) |->
        CHOOSE x \in S : Cardinality({y \in S : <<y, x>> \in R}) = i - 1]

\* Mutation: a node is ready when one of its predecessors is placed.
ReadyEagerly(comp, placed) ==
    {n \in comp \ placed : LET P == {m \in comp : <<m, n>> \in Succ} IN
                           P = {} \/ P \cap placed # {}}

\* The nodes whose in-degree has come down to zero.
Ready(comp, placed) == {n \in comp \ placed : \A m \in comp : <<m, n>> \in Succ => m \in placed}

\* Kahn's algorithm: the nodes placed after so many turns.
Placed(comp) ==
    LET P[k \in 0..Cardinality(comp)] ==
            IF k = 0 THEN {}
            ELSE IF Ready(comp, P[k - 1]) = {} THEN P[k - 1]
            ELSE P[k - 1] \cup {Least(Ready(comp, P[k - 1]))}
    IN P

\* In the order they are placed; what a cycle keeps from being ready is appended.
TopoComponentOrder(comp) ==
    LET P == Placed(comp)
        leftovers == comp \ P[Cardinality(comp)]
    IN {e \in comp \X comp :
            \/ \E k \in DOMAIN P : e[1] \in P[k] /\ e[2] \notin P[k]
            \/ {e[1], e[2]} \subseteq leftovers /\ e[1] < e[2]}

EpicLaneRank(b) ==
    CASE status[b] = "in_progress" -> 0
      [] status[b] = "open" -> IF HasUnmetBlockingDep(b, Active) THEN 2 ELSE 1
      [] status[b] = "blocked" -> 2
      [] status[b] = "deferred" -> 3
      [] OTHER -> 4

Leads(b, c) ==
    \/ EpicLaneRank(b) < EpicLaneRank(c)
    \/ EpicLaneRank(b) = EpicLaneRank(c) /\ b <= c

Anchor == CHOOSE b \in ActiveEpics : \A c \in ActiveEpics : Leads(b, c)

\* Wired components in the order of their leaders, then the unwired epics.
Chains ==
    {e \in ActiveEpics \X ActiveEpics :
        \/ Wired(e[1]) /\ ~Wired(e[2])
        \/ /\ Wired(e[1]) /\ Wired(e[2])
           /\ \/ Leader(e[1]) < Leader(e[2])
              \/ e \in TopoComponentOrder(Component(e[1]))
        \/ ~Wired(e[1]) /\ ~Wired(e[2]) /\ e[1] < e[2]}

AnchorFirst ==
    {e \in ActiveEpics \X ActiveEpics :
        e[2] # Anchor /\ (e[1] = Anchor \/ e \in Chains)}

EpicLane == Arranged(ActiveEpics, AnchorFirst)

--------------------------------------------------------------------------------
(* Properties                                                               *)

\* "Return the ids of every bead that participates in a blocking cycle", never
\* one that is merely downstream (hygiene.py:84-92), in whatever order the
\* nodes are visited.
CyclesExact ==
    \A roots \in SetToSeqs(Active) :
        CycleMemberIds(BlockingSucc, roots) = {b \in Active : b \in Reach(BlockingSucc, b)}

\* "Wired epics are sequenced predecessor->successor left-to-right"
\* (lanes.py:350): the strip holds each active epic once, no epic stands before
\* a predecessor unless a cycle leads to it or it is the one drawn to the front,
\* the wired ones come first, and no epic leads while another is in progress.
StripInSequence ==
    LET strip == EpicLane
        Before(i, j) ==
            \/ <<strip[j], strip[i]>> \notin Succ
            \/ \E x \in ActiveEpics : x \in Reach(Succ, x) /\ strip[i] \in Reach(Succ, x)
    IN /\ Range(strip) = ActiveEpics /\ Len(strip) = Cardinality(ActiveEpics)
       /\ \A i, j \in 2..Len(strip) : i < j => Before(i, j) /\ (Wired(strip[j]) => Wired(strip[i]))
       /\ (\E b \in ActiveEpics : status[b] = "in_progress") => status[strip[1]] = "in_progress"
================================================================================
