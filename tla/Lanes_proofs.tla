------------------------------ MODULE Lanes_proofs ------------------------------
(***************************************************************************)
(* Proofs about the board's derivation, for any workspace: any beads, types *)
(* and links, and any history of changes to them.  First the lanes and the  *)
(* counts; then the two algorithms of Hygiene: that the strip of epics is   *)
(* in the order its links ask for, and that Tarjan's algorithm finds the    *)
(* cycle members.  Both run for a number of turns that depends on the graph *)
(* and are defined by recursion on it; what holds after every turn is       *)
(* proved by induction over a set of natural numbers.                       *)
(***************************************************************************)
EXTENDS Hygiene, FiniteSetTheorems, SequenceTheorems, WellFoundedInduction, TLAPS


\* The workspace stays well-typed under every change, and only closed beads
\* fade out of the board's window.
THEOREM TypeCorrect == Spec => []TypeOK
<1>1. Init => TypeOK
  BY LanesAssumption DEF Init, TypeOK
<1>2. TypeOK /\ [Next]_vars => TypeOK'
  <2> SUFFICES ASSUME TypeOK, [Next]_vars PROVE TypeOK'
    OBVIOUS
  <2> USE DEF TypeOK
  <2>1. ASSUME NEW b \in Bead, NEW s \in Status, SetStatus(b, s) PROVE TypeOK'
    <3>1. status' \in [Bead -> Status \cup {"open"}]
      BY <2>1 DEF SetStatus
    <3>2. faded' \subseteq {x \in Bead : status'[x] = "closed"}
      BY <2>1 DEF SetStatus
    <3> QED
      BY <2>1, <3>1, <3>2 DEF SetStatus
  <2>2. ASSUME NEW b \in Bead, Fades(b) PROVE TypeOK'
    BY <2>2 DEF Fades
  <2>3. ASSUME NEW l \in Link, AddLink(l) PROVE TypeOK'
    BY <2>3 DEF AddLink
  <2>4. ASSUME NEW l \in Link, Detach(l) PROVE TypeOK'
    BY <2>4 DEF Detach
  <2>5. ASSUME NEW c \in Bead, NEW p \in Bead, AddParent(c, p) PROVE TypeOK'
    BY <2>5 DEF AddParent, Parenthood
  <2>6. CASE Warms
    BY <2>6 DEF Warms
  <2>7. CASE UNCHANGED vars
    BY <2>7 DEF vars
  <2> QED
    BY <2>1, <2>2, <2>3, <2>4, <2>5, <2>6, <2>7 DEF Next
<1> QED
  BY <1>1, <1>2, PTL DEF Spec

\* What puts a bead in the Ready lane.
LEMMA InReady ==
    ASSUME NEW b \in Cards("ready")
    PROVE  /\ ~HasUnmetBlockingDep(b, NonEpics)
           /\ type[b] \notin {"gate", "swarm"}
  BY DEF Cards, LaneOf

\* A bead that some link holds back has an unmet blocking dependency, whatever
\* set of loaded beads the lane looks targets up in.
LEMMA HeldBackIsUnmet ==
    ASSUME NEW b \in Bead, NEW loaded, HeldBack(b)
    PROVE  HasUnmetBlockingDep(b, loaded)
<1>1. CASE \E x \in Deps(b, "blocks") : status[x] # "absent" /\ ~IsClosed(x)
  BY <1>1 DEF HasUnmetBlockingDep
<1>2. ASSUME NEW p \in Deps(b, "waits-for"), NEW c \in Children(p),
             status[c] # "absent", ~IsClosed(c)
      PROVE  HasUnmetBlockingDep(b, loaded)
  <2>1. c \in Active
    BY <1>2 DEF Active, IsClosed, ClosedStatus, Children
  <2> QED
    BY <1>2, <2>1 DEF HasUnmetBlockingDep, WaitsForUnmet
<1> QED
  BY <1>1, <1>2 DEF HeldBack

\* A card in the Ready lane is claimable by the whole database: no bead and no
\* fanout that holds it back is open, though lanes() looks at active beads only.
THEOREM ReadyIsClaimableHolds == Spec => []ReadyIsClaimable
<1>1. ReadyIsClaimable
  <2> SUFFICES ASSUME NEW b \in Cards("ready")
               PROVE  ~HeldBack(b) /\ type[b] \notin {"gate", "swarm"}
    BY DEF ReadyIsClaimable
  <2>1. b \in Bead
    BY DEF Cards, NonEpics, Active
  <2> QED
    BY <2>1, InReady, HeldBackIsUnmet
<1> QED
  BY <1>1, PTL

\* The badge of blocked_reason() tells the truth about the database although it
\* is derived from two lists, one of which may not be loaded.
THEOREM BadgeTellsTruthHolds == Spec => []BadgeTellsTruth
<1>1. TypeOK => BadgeTellsTruth
  <2> SUFFICES ASSUME TypeOK, NEW b \in NonEpics
               PROVE  /\ BlockedReason(b) = "none" => \A x \in Deps(b, "blocks") : IsClosed(x)
                      /\ BlockedReason(b) = "open" => \E x \in Deps(b, "blocks") : ~IsClosed(x)
                      /\ BlockedReason(b) = "missing" =>
                            \E x \in Deps(b, "blocks") :
                                status[x] = "absent" \/ x \in faded \/ ~warm
    BY DEF BadgeTellsTruth
  <2> DEFINE X == Deps(b, "blocks")
  <2>1. X \subseteq Bead
    BY DEF Deps
  <2>2. CASE X \ (Active \cup KnownIds) # {}
    <3>1. PICK x \in X : x \notin Active /\ x \notin KnownIds
      BY <2>2
    <3>2. status[x] = "absent" \/ x \in faded \/ ~warm
      BY <2>1, <3>1 DEF Active, KnownIds, ClosedList
    <3>3. BlockedReason(b) = "missing"
      BY <2>2 DEF BlockedReason
    <3> QED
      BY <3>1, <3>2, <3>3
  <2>3. CASE X \subseteq Active \cup KnownIds /\ \E x \in X \cap Active : ~IsClosed(x)
    <3>1. BlockedReason(b) = "open"
      BY <2>3 DEF BlockedReason
    <3> QED
      BY <2>3, <3>1
  <2>4. CASE X \subseteq Active \cup KnownIds /\ \A x \in X \cap Active : IsClosed(x)
    <3>1. BlockedReason(b) = "none"
      BY <2>4 DEF BlockedReason
    <3>2. ASSUME NEW x \in X PROVE IsClosed(x)
      BY <2>1, <2>4, <3>2 DEF KnownIds, ClosedList, IsClosed, ClosedStatus
    <3> QED
      BY <3>1, <3>2
  <2> QED
    BY <2>2, <2>3, <2>4
<1> QED
  BY <1>1, TypeCorrect, PTL

\* What lanes() makes of a card that is no molecule, by the lanes of active work.
LEMMA PlainLane ==
    ASSUME NEW b, ~IsMolecule(b)
    PROVE  /\ LaneOf(b) = "gate" <=> ~IsClosed(b) /\ type[b] = "gate"
           /\ LaneOf(b) = "in_progress" <=> /\ ~IsClosed(b) /\ type[b] # "gate"
                                            /\ status[b] = "in_progress"
           /\ LaneOf(b) \in {"ready", "blocked"} <=> /\ ~IsClosed(b) /\ type[b] # "gate"
                                                     /\ status[b] \in {"open", "blocked"}
<1>1. CASE IsClosed(b)
  BY <1>1 DEF LaneOf
<1>2. CASE ~IsClosed(b) /\ type[b] = "gate"
  BY <1>2 DEF LaneOf
<1>3. CASE ~IsClosed(b) /\ type[b] # "gate"
  <2>1. LaneOf(b) = CASE status[b] \in {"in_progress", "blocked", "pinned"} -> status[b]
                      [] status[b] = "open" ->
                         IF HasUnmetBlockingDep(b, NonEpics) THEN "blocked" ELSE "ready"
                      [] OTHER -> "deferred"
    BY <1>3 DEF LaneOf, IsMolecule
  <2> QED
    BY <1>3, <2>1
<1> QED
  BY <1>1, <1>2, <1>3

\* counts() tallies an open bead in a cell of active work by these rules.
LEMMA PlainTally ==
    ASSUME TypeOK, NEW b \in Bead, NEW c \in {"gate", "in_progress", "open", "blocked"}
    PROVE  b \in Counted(c) <=>
              /\ b \in Active /\ ~IsClosed(b)
              /\ type[b] # "epic" /\ status[b] # "hooked"
              /\ IF type[b] = "gate" THEN c = "gate" ELSE status[b] = c
<1>1. b \in ClosedList => b \notin Active /\ IsClosed(b)
  BY DEF ClosedList, Active, IsClosed, ClosedStatus
<1>2. CASE type[b] = "gate" /\ ~IsClosed(b)
  BY <1>1, <1>2 DEF Counted, Tallied, PendingGate
<1>3. CASE IsClosed(b)
  <2>1. status[b] # c
    BY <1>3 DEF IsClosed, ClosedStatus
  <2> QED
    BY <1>3, <2>1 DEF Counted, PendingGate
<1>4. CASE type[b] # "gate" /\ ~IsClosed(b)
  BY <1>1, <1>4 DEF Counted, Tallied, PendingGate
<1> QED
  BY <1>2, <1>3, <1>4

\* Every masthead cell tallies exactly the cards of its lane, molecules apart.
THEOREM CountsMatchLanesHolds == Spec => []CountsMatchLanes
<1>1. TypeOK => CountsMatchLanes
  <2> SUFFICES ASSUME TypeOK PROVE CountsMatchLanes
    OBVIOUS
  <2> DEFINE Plain(S) == {b \in S : ~IsMolecule(b)}
             Listed(b) == b \in Active /\ type[b] # "epic" /\ status[b] # "hooked"
  <2>1. ASSUME NEW l \in {"gate", "in_progress", "ready", "blocked"}, NEW b
        PROVE  b \in Cards(l) <=> /\ b \in Bead /\ ~IsMolecule(b)
                                  /\ Listed(b) /\ LaneOf(b) = l
    <3>1. b \in Active => b \in Bead
      BY DEF Active
    <3>2. type[b] = "swarm" => LaneOf(b) \notin {"gate", "in_progress", "ready", "blocked"}
      BY DEF LaneOf
    <3> QED
      BY <3>1, <3>2 DEF Cards, NonEpics, IsMolecule
  <2>2. ASSUME NEW c \in {"gate", "in_progress", "open", "blocked"}, NEW b
        PROVE  b \in Plain(Counted(c)) <=>
                  /\ b \in Bead /\ ~IsMolecule(b) /\ Listed(b) /\ ~IsClosed(b)
                  /\ IF type[b] = "gate" THEN c = "gate" ELSE status[b] = c
    <3>1. b \in Counted(c) => b \in Bead
      BY DEF Counted, Tallied, Active, ClosedList
    <3> QED
      BY <3>1, PlainTally
  <2> HIDE DEF Plain, Listed
  <2>3. Plain(Counted("gate")) = Cards("gate")
    <3>1. ASSUME NEW b PROVE b \in Plain(Counted("gate")) <=> b \in Cards("gate")
      <4>1. CASE b \in Bead /\ ~IsMolecule(b) /\ Listed(b)
        <5>1. status[b] # "gate"
          BY <4>1, LanesAssumption DEF TypeOK
        <5> QED
          BY <2>1, <2>2, <4>1, <5>1, PlainLane
      <4> QED
        BY <2>1, <2>2, <4>1
    <3> QED
      BY <3>1
  <2>4. Plain(Counted("in_progress")) = Cards("in_progress")
    <3>1. ASSUME NEW b PROVE b \in Plain(Counted("in_progress")) <=> b \in Cards("in_progress")
      BY <2>1, <2>2, PlainLane
    <3> QED
      BY <3>1
  <2>5. Plain(Counted("open") \cup Counted("blocked")) = Cards("ready") \cup Cards("blocked")
    <3>1. Plain(Counted("open") \cup Counted("blocked"))
             = Plain(Counted("open")) \cup Plain(Counted("blocked"))
      BY DEF Plain
    <3>2. ASSUME NEW b
          PROVE  b \in Plain(Counted("open")) \cup Plain(Counted("blocked"))
                    <=> b \in Cards("ready") \cup Cards("blocked")
      BY <2>1, <2>2, PlainLane
    <3> QED
      BY <3>1, <3>2
  <2> QED
    BY <2>3, <2>4, <2>5 DEF CountsMatchLanes, Plain
<1> QED
  BY <1>1, TypeCorrect, PTL

--------------------------------------------------------------------------------
(* Sets of natural numbers, and their least element.                        *)

\* Induction: a set that holds 0, and n + 1 with n, holds every natural number.
LEMMA NatInSet ==
    ASSUME NEW T, 0 \in T, \A n \in Nat : n \in T => n + 1 \in T
    PROVE  Nat \subseteq T
<1> DEFINE Out == Nat \ T
<1> SUFFICES ASSUME Out # {} PROVE FALSE
  OBVIOUS
<1>1. PICK x \in Out : \A y \in Out : ~(<<y, x>> \in OpToRel(<, Nat))
  BY NatLessThanWellFounded, WFMin
<1>2. x \in Nat /\ x # 0 /\ x \notin T
  OBVIOUS
<1>3. x - 1 \in Nat /\ x - 1 < x /\ (x - 1) + 1 = x
  BY <1>2
<1>4. x - 1 \in T
  BY <1>1, <1>2, <1>3 DEF OpToRel
<1> QED
  BY <1>2, <1>3, <1>4

\* A set of naturals that is not empty has a least element.
LEMMA LeastHolds ==
    ASSUME NEW S, S \subseteq Nat, S # {}
    PROVE  Least(S) \in S /\ \A y \in S : Least(S) <= y
<1>1. PICK x \in S : \A y \in S : ~(<<y, x>> \in OpToRel(<, Nat))
  BY NatLessThanWellFounded, WFMin
<1>2. \A y \in S : x <= y
  <2> SUFFICES ASSUME NEW y \in S PROVE x <= y
    OBVIOUS
  <2>1. x \in Nat /\ y \in Nat /\ ~(y < x)
    BY <1>1 DEF OpToRel
  <2> QED
    BY <2>1
<1> QED
  BY <1>2 DEF Least

--------------------------------------------------------------------------------
(* Reachability.                                                            *)

\* One gets to the nodes after a node, and on from where one has got to.
LEMMA ReachSteps ==
    ASSUME NEW E, NEW n, NEW x \in Bead
    PROVE  /\ <<n, x>> \in E => x \in Reach(E, n)
           /\ \A y \in Reach(E, n) : <<y, x>> \in E => x \in Reach(E, n)
  BY DEF Reach, After

\* One gets nowhere else than into a set that holds the nodes after n and its own.
LEMMA ReachWithin ==
    ASSUME NEW E, NEW n, NEW S,
           \A x \in Bead, y \in {n} \cup S : <<y, x>> \in E => x \in S
    PROVE  Reach(E, n) \subseteq S
<1> DEFINE C == S \cap Bead
<1>1. C \in SUBSET Bead /\ After({n} \cup C, E) \subseteq C
  BY DEF After
<1> QED
  BY <1>1 DEF Reach

LEMMA ReachOn ==
    ASSUME NEW E, NEW n, NEW m \in Reach(E, n)
    PROVE  Reach(E, m) \subseteq Reach(E, n)
<1>1. Reach(E, n) \subseteq Bead
  BY DEF Reach
<1>2. \A x \in Bead, y \in {m} \cup Reach(E, n) : <<y, x>> \in E => x \in Reach(E, n)
  BY ReachSteps
<1> QED
  BY <1>2, ReachWithin, Zenon

\* One gets back along edges that lead both ways.
LEMMA ReachBack ==
    ASSUME NEW E, NEW n \in Bead, NEW m \in Reach(E, n),
           \A x, y \in Bead : <<x, y>> \in E => <<y, x>> \in E
    PROVE  n \in Reach(E, m)
<1> DEFINE S == {x \in Reach(E, n) : n \in Reach(E, x)}
<1>0. Reach(E, n) \subseteq Bead
  BY DEF Reach
<1>1. ASSUME NEW x \in Bead, NEW y \in {n} \cup S, <<y, x>> \in E PROVE x \in S
  <2>1. y \in Bead /\ <<x, y>> \in E
    BY <1>0, <1>1
  <2>2. y \in Reach(E, x)
    BY <2>1, ReachSteps
  <2>3. CASE y = n
    BY <1>1, <2>2, <2>3, ReachSteps
  <2>4. CASE y \in S
    <3>1. x \in Reach(E, n)
      BY <1>1, <2>4, ReachSteps
    <3>2. n \in Reach(E, x)
      BY <2>2, <2>4, ReachOn
    <3> QED
      BY <3>1, <3>2
  <2> QED
    BY <2>3, <2>4
<1>2. Reach(E, n) \subseteq S
  <2> HIDE DEF S
  <2> QED
    BY <1>1, ReachWithin
<1> QED
  BY <1>2

\* The members of a component have the component in common, and its leader.
LEMMA ComponentHolds ==
    ASSUME NEW n \in ActiveEpics
    PROVE  /\ Component(n) \subseteq ActiveEpics /\ n \in Component(n)
           /\ \A m \in Component(n) : Component(m) = Component(n)
           /\ \A m \in ActiveEpics :
                 <<m, n>> \in Succ \/ <<n, m>> \in Succ => m \in Component(n)
<1> DEFINE E == Succ \cup {<<e[2], e[1]>> : e \in Succ}
<1>1. ActiveEpics \subseteq Bead
  BY DEF ActiveEpics, Active
<1>2. Succ \subseteq ActiveEpics \X ActiveEpics
  BY DEF Succ
<1>3. E \subseteq ActiveEpics \X ActiveEpics /\ \A x, y \in Bead : <<x, y>> \in E => <<y, x>> \in E
  BY <1>2
<1>4. \A m : Component(m) = Reach(E, m) \cup {m}
  BY DEF Component
<1>5. \A m \in ActiveEpics : <<m, n>> \in Succ \/ <<n, m>> \in Succ => <<n, m>> \in E
  BY <1>2
<1> HIDE DEF E
<1>6. \A x \in Bead, y \in {n} \cup ActiveEpics : <<y, x>> \in E => x \in ActiveEpics
  BY <1>3
<1>7. Reach(E, n) \subseteq ActiveEpics
  BY <1>6, ReachWithin, Zenon
<1>8. ASSUME NEW m \in Reach(E, n) PROVE Component(m) = Component(n)
  <2>1. n \in Reach(E, m)
    BY <1>1, <1>3, ReachBack
  <2> QED
    BY <2>1, <1>4, ReachOn
<1> QED
  BY <1>1, <1>4, <1>5, <1>7, <1>8, ReachSteps

--------------------------------------------------------------------------------
(* Arranging a set by a strict order.                                       *)

\* R puts the members of S one after the other.
Orders(R, S) ==
    /\ \A x \in S : <<x, x>> \notin R
    /\ \A x, y, z \in S : <<x, y>> \in R /\ <<y, z>> \in R => <<x, z>> \in R
    /\ \A x, y \in S : x # y => <<x, y>> \in R \/ <<y, x>> \in R

\* A sort by a strict order lists every member once, each before those it orders later.
LEMMA ArrangedHolds ==
    ASSUME NEW S, NEW R, IsFiniteSet(S), Orders(R, S)
    PROVE  /\ Arranged(S, R) \in [1..Cardinality(S) -> S] /\ Cardinality(S) \in Nat
           /\ \A x \in S : \E i \in 1..Cardinality(S) : Arranged(S, R)[i] = x
           /\ \A i, j \in 1..Cardinality(S) :
                 i < j => <<Arranged(S, R)[i], Arranged(S, R)[j]>> \in R
<1> DEFINE n == Cardinality(S)
           ahead == [x \in S |-> Cardinality({y \in S : <<y, x>> \in R})]
<1>1. n \in Nat
  BY FS_CardinalityType
<1>2. ASSUME NEW x \in S PROVE ahead[x] \in Nat /\ ahead[x] < n
  <2> DEFINE A == {y \in S : <<y, x>> \in R}
  <2>1. A \in SUBSET S /\ A # S
    BY DEF Orders
  <2>2. IsFiniteSet(A) /\ Cardinality(A) <= n /\ Cardinality(A) # n
    BY <2>1, FS_Subset
  <2>3. Cardinality(A) \in Nat
    BY <2>2, FS_CardinalityType
  <2> QED
    BY <1>1, <2>2, <2>3
<1>3. ASSUME NEW x \in S, NEW y \in S, <<x, y>> \in R PROVE ahead[x] < ahead[y]
  <2> DEFINE A == {z \in S : <<z, x>> \in R}
             B == {z \in S : <<z, y>> \in R}
  <2>1. A \in SUBSET B /\ x \in B /\ x \notin A /\ B \in SUBSET S
    BY <1>3 DEF Orders
  <2>2. ahead[x] = Cardinality(A) /\ ahead[y] = Cardinality(B)
    OBVIOUS
  <2> HIDE DEF A, B
  <2>3. IsFiniteSet(B)
    BY <2>1, FS_Subset
  <2>4. Cardinality(A) <= Cardinality(B) /\ Cardinality(A) # Cardinality(B)
    BY <2>1, <2>3, FS_Subset
  <2> QED
    BY <1>2, <2>2, <2>4
<1> HIDE DEF ahead
<1>4. ASSUME NEW x \in S, NEW y \in S, x # y PROVE ahead[x] # ahead[y]
  <2>1. CASE <<x, y>> \in R
    BY <1>2, <1>3, <2>1
  <2>2. CASE <<y, x>> \in R
    BY <1>2, <1>3, <2>2
  <2> QED
    BY <1>4, <2>1, <2>2 DEF Orders
<1>5. ASSUME NEW i \in 1..n PROVE \E x \in S : ahead[x] = i - 1
  <2>1. IsFiniteSet(0..(n - 1)) /\ Cardinality(0..(n - 1)) = n
    <3> HIDE DEF n
    <3>1. 0 \in Int /\ n - 1 \in Int /\ (n - 1) - 0 + 1 = n
      BY <1>1
    <3> QED
      BY <1>1, <3>1, FS_Interval
  <2>2. ahead \in [S -> 0..(n - 1)]
    BY <1>1, <1>2 DEF ahead
  <2>3. ahead \in Injection(S, 0..(n - 1))
    BY <1>4, <2>2 DEF Injection, IsInjective
  <2>4. ahead \in Surjection(S, 0..(n - 1))
    BY <2>1, <2>3, FS_Injection
  <2>5. i - 1 \in 0..(n - 1)
    BY <1>1
  <2> QED
    BY <2>4, <2>5 DEF Surjection
<1> DEFINE list == Arranged(S, R)
<1>6. list = [i \in 1..n |-> CHOOSE x \in S : Cardinality({y \in S : <<y, x>> \in R}) = i - 1]
  BY DEF Arranged
<1> HIDE DEF n, list
<1>7. ASSUME NEW i \in 1..n PROVE list[i] \in S /\ ahead[list[i]] = i - 1
  <2>1. \E x \in S : Cardinality({y \in S : <<y, x>> \in R}) = i - 1
    BY <1>5 DEF ahead
  <2>2. list[i] = CHOOSE x \in S : Cardinality({y \in S : <<y, x>> \in R}) = i - 1
    BY <1>6
  <2>3. list[i] \in S /\ Cardinality({y \in S : <<y, list[i]>> \in R}) = i - 1
    BY <2>1, <2>2
  <2> QED
    BY <2>3 DEF ahead
<1>8. list \in [1..n -> S]
  BY <1>6, <1>7
<1>9. ASSUME NEW x \in S PROVE \E i \in 1..n : list[i] = x
  <2>1. ahead[x] + 1 \in 1..n /\ (ahead[x] + 1) - 1 = ahead[x]
    BY <1>1, <1>2
  <2> QED
    BY <1>4, <1>7, <2>1
<1>10. ASSUME NEW i \in 1..n, NEW j \in 1..n, i < j PROVE <<list[i], list[j]>> \in R
  <2>1. list[i] \in S /\ list[j] \in S /\ ahead[list[i]] < ahead[list[j]]
    BY <1>1, <1>7, <1>10
  <2>2. <<list[j], list[i]>> \notin R
    BY <1>2, <1>3, <2>1
  <2> QED
    BY <1>2, <2>1, <2>2 DEF Orders
<1> QED
  BY <1>1, <1>8, <1>9, <1>10 DEF n, list

--------------------------------------------------------------------------------
(* Kahn's algorithm.                                                        *)

\* One turn of the algorithm.
Turned(comp, placed) ==
    IF Ready(comp, placed) = {} THEN placed
    ELSE placed \cup {Least(Ready(comp, placed))}

\* The nodes placed are what the recursion says.
LEMMA PlacedIs ==
    ASSUME NEW comp, Cardinality(comp) \in Nat
    PROVE  Placed(comp) = [k \in 0..Cardinality(comp) |->
              IF k = 0 THEN {} ELSE Turned(comp, Placed(comp)[k - 1])]
<1> DEFINE Solves(f, n) == f = [k \in 0..n |-> IF k = 0 THEN {} ELSE Turned(comp, f[k - 1])]
           T == {n \in Nat : \E f : Solves(f, n)}
<1>1. 0 \in T
  <2> DEFINE f == [k \in 0..0 |-> {}]
  <2>1. f = [k \in 0..0 |-> IF k = 0 THEN {} ELSE Turned(comp, f[k - 1])]
    OBVIOUS
  <2> QED
    BY <2>1
<1>2. ASSUME NEW n \in Nat, n \in T PROVE n + 1 \in T
  <2>1. PICK f : Solves(f, n)
    BY <1>2
  <2> DEFINE g == [k \in 0..(n + 1) |-> IF k = n + 1 THEN Turned(comp, f[n]) ELSE f[k]]
  <2>2. ASSUME NEW k \in 0..(n + 1)
        PROVE  g[k] = IF k = 0 THEN {} ELSE Turned(comp, g[k - 1])
    <3>1. CASE k = 0
      BY <2>1, <3>1
    <3>2. CASE k = n + 1
      <4>1. k # 0 /\ k - 1 = n /\ n \in 0..(n + 1) /\ n # n + 1
        BY <3>2
      <4> QED
        BY <3>2, <4>1
    <3>3. CASE k \in 1..n
      <4>1. k # 0 /\ k \in 0..n /\ k # n + 1 /\ k - 1 # n + 1 /\ k - 1 \in 0..(n + 1)
        BY <3>3
      <4>2. f[k] = Turned(comp, f[k - 1])
        BY <2>1, <4>1
      <4> QED
        BY <4>1, <4>2
    <3> QED
      BY <3>1, <3>2, <3>3
  <2> HIDE DEF g
  <2>3. g = [k \in 0..(n + 1) |-> g[k]]
    BY DEF g
  <2>4. Solves(g, n + 1)
    BY <2>2, <2>3
  <2> QED
    BY <2>4
<1>3. Nat \subseteq T
  <2> HIDE DEF T
  <2> QED
    BY <1>1, <1>2, NatInSet
<1>4. \E f : Solves(f, Cardinality(comp))
  BY <1>3
<1>5. Placed(comp) = CHOOSE f : Solves(f, Cardinality(comp))
  BY DEF Placed, Turned
<1> HIDE DEF Solves
<1>6. Solves(Placed(comp), Cardinality(comp))
  BY <1>4, <1>5
<1> QED
  BY <1>6 DEF Solves

\* A node that is ready is not placed, though its predecessors are.
LEMMA ReadyWithin == ASSUME NEW comp, NEW placed PROVE Ready(comp, placed) \subseteq comp \ placed
  BY DEF Ready

\* A turn places one node that is ready, if there is one.
LEMMA TurnedHolds ==
    ASSUME NEW comp, comp \subseteq Nat, NEW placed
    PROVE  \/ Ready(comp, placed) = {} /\ Turned(comp, placed) = placed
           \/ \E x \in Ready(comp, placed) : Turned(comp, placed) = placed \cup {x}
<1> DEFINE R == Ready(comp, placed)
<1>1. R \subseteq Nat
  BY ReadyWithin
<1>2. R # {} => Least(R) \in R
  <2> HIDE DEF R
  <2> QED
    BY <1>1, LeastHolds
<1> QED
  BY <1>2 DEF Turned

\* What is placed stays placed, a node is placed when its predecessors are, one a
\* turn, and the last turn leaves no node ready.
Places(comp, P, n) ==
    /\ n \in Nat /\ P[0] = {} /\ DOMAIN P = 0..n
    /\ \A k \in 0..n : P[k] \subseteq comp
    /\ \A j, k \in 0..n : j <= k => P[j] \subseteq P[k]
    /\ \A k \in 1..n : \A x, y \in P[k] \ P[k - 1] : x = y
    /\ \A k \in 1..n : P[k] \ P[k - 1] \subseteq Ready(comp, P[k - 1])
    /\ Ready(comp, P[n]) = {}

LEMMA PlacedHolds ==
    ASSUME NEW comp, comp \subseteq Nat, IsFiniteSet(comp)
    PROVE  Places(comp, Placed(comp), Cardinality(comp))
<1> SUFFICES ASSUME NEW P, P = Placed(comp), NEW n, n = Cardinality(comp)
             PROVE  Places(comp, P, n)
  OBVIOUS
<1>1. n \in Nat
  BY FS_CardinalityType
<1>2. P = [k \in 0..n |-> IF k = 0 THEN {} ELSE Turned(comp, P[k - 1])]
  BY <1>1, PlacedIs
<1>3. P[0] = {} /\ \A k \in 1..n : P[k] = Turned(comp, P[k - 1])
  <2>1. 0 \in 0..n /\ \A k \in 1..n : k \in 0..n /\ k # 0
    BY <1>1
  <2>2. \A k \in 0..n : P[k] = IF k = 0 THEN {} ELSE Turned(comp, P[k - 1])
    BY <1>2, Zenon
  <2> QED
    BY <2>1, <2>2
<1> DEFINE Good(k) == /\ P[k] \subseteq comp
                      /\ \A j \in 0..k : P[j] \subseteq P[k]
                      /\ Cardinality(P[k]) = k \/ Ready(comp, P[k]) = {}
           T == {k \in Nat : k <= n => Good(k)}
<1>4. 0 \in T
  BY <1>3, FS_EmptySet
<1>5. ASSUME NEW k \in Nat, k \in T PROVE k + 1 \in T
  <2> SUFFICES ASSUME k + 1 <= n PROVE Good(k + 1)
    OBVIOUS
  <2>1. Good(k) /\ k + 1 \in 1..n /\ (k + 1) - 1 = k
    BY <1>1, <1>5
  <2>2. P[k + 1] = Turned(comp, P[k]) /\ P[k] \subseteq comp
    BY <1>3, <2>1
  <2>3. \/ Ready(comp, P[k]) = {} /\ P[k + 1] = P[k]
        \/ \E x \in Ready(comp, P[k]) : P[k + 1] = P[k] \cup {x}
    <3>1. \/ Ready(comp, P[k]) = {} /\ Turned(comp, P[k]) = P[k]
          \/ \E x \in Ready(comp, P[k]) : Turned(comp, P[k]) = P[k] \cup {x}
      BY TurnedHolds
    <3> QED
      BY <2>2, <3>1
  <2>4. P[k] \subseteq P[k + 1] /\ P[k + 1] \subseteq comp
    BY <2>2, <2>3, ReadyWithin
  <2>5. \A j \in 0..(k + 1) : P[j] \subseteq P[k + 1]
    <3>1. \A j \in 0..(k + 1) : j = k + 1 \/ j \in 0..k
      OBVIOUS
    <3> QED
      BY <2>1, <2>4, <3>1
  <2>6. CASE Ready(comp, P[k]) = {}
    BY <2>3, <2>4, <2>5, <2>6
  <2>7. ASSUME NEW x \in Ready(comp, P[k]), P[k + 1] = P[k] \cup {x} PROVE Good(k + 1)
    <3>1. Cardinality(P[k]) = k
      BY <2>1, <2>7
    <3>2. x \notin P[k]
      BY ReadyWithin
    <3>3. IsFiniteSet(P[k])
      BY <2>2, FS_Subset
    <3>4. Cardinality(P[k + 1]) = k + 1
      BY <2>7, <3>1, <3>2, <3>3, FS_AddElement
    <3> QED
      BY <2>4, <2>5, <3>4
  <2> QED
    BY <2>3, <2>6, <2>7
<1>6. \A k \in 0..n : Good(k)
  <2>1. Nat \subseteq T
    <3> HIDE DEF T
    <3> QED
      BY <1>4, <1>5, NatInSet
  <2> QED
    BY <1>1, <2>1
<1>7. \A j, k \in 0..n : j <= k => P[j] \subseteq P[k]
  BY <1>1, <1>6
<1>8. ASSUME NEW k \in 1..n
      PROVE  /\ \A x, y \in P[k] \ P[k - 1] : x = y
             /\ P[k] \ P[k - 1] \subseteq Ready(comp, P[k - 1])
  <2>1. P[k - 1] \subseteq comp /\ P[k] = Turned(comp, P[k - 1])
    BY <1>1, <1>3, <1>6
  <2>2. \/ P[k] = P[k - 1]
        \/ \E x \in Ready(comp, P[k - 1]) : P[k] = P[k - 1] \cup {x}
    <3>1. PICK Q : Q = P[k - 1]
      OBVIOUS
    <3>2. \/ Ready(comp, Q) = {} /\ Turned(comp, Q) = Q
          \/ \E x \in Ready(comp, Q) : Turned(comp, Q) = Q \cup {x}
      BY TurnedHolds
    <3> QED
      BY <2>1, <3>1, <3>2
  <2> QED
    BY <2>1, <2>2
<1>9. Ready(comp, P[n]) = {}
  <2>1. Good(n)
    BY <1>1, <1>6
  <2>2. CASE Cardinality(P[n]) = n
    <3>1. P[n] = comp
      BY <2>1, <2>2, FS_Subset
    <3> QED
      BY <3>1 DEF Ready
  <2> QED
    BY <2>1, <2>2
<1>10. DOMAIN P = 0..n
  BY <1>2
<1> QED
  BY <1>1, <1>3, <1>6, <1>7, <1>8, <1>9, <1>10 DEF Places

\* Every node that is placed is placed on some turn.
LEMMA PlacedOnTurn ==
    ASSUME NEW P, NEW n \in Nat, P[0] = {}, NEW x \in P[n]
    PROVE  \E k \in 1..n : x \in P[k] /\ \A j \in 0..(k - 1) : x \notin P[j]
<1> DEFINE S == {k \in 0..n : x \in P[k]}
<1>1. S \subseteq Nat /\ n \in S
  OBVIOUS
<1>2. Least(S) \in S /\ \A k \in S : Least(S) <= k
  <2> HIDE DEF S
  <2> QED
    BY <1>1, LeastHolds
<1>3. Least(S) \in 1..n
  BY <1>2
<1>4. \A j \in 0..(Least(S) - 1) : x \notin P[j]
  BY <1>2, <1>3
<1> QED
  BY <1>2, <1>3, <1>4

--------------------------------------------------------------------------------
(* The order within a component.                                            *)

LEMMA TopoOrders ==
    ASSUME NEW comp, comp \subseteq Nat, IsFiniteSet(comp)
    PROVE  Orders(TopoComponentOrder(comp), comp)
<1> SUFFICES ASSUME NEW P, P = Placed(comp), NEW n, n = Cardinality(comp)
             PROVE  Orders(TopoComponentOrder(comp), comp)
  OBVIOUS
<1> DEFINE left == comp \ P[n]
           R == TopoComponentOrder(comp)
<1>1. /\ n \in Nat /\ P[0] = {} /\ DOMAIN P = 0..n
      /\ \A k \in 0..n : P[k] \subseteq comp
      /\ \A j, k \in 0..n : j <= k => P[j] \subseteq P[k]
      /\ \A k \in 1..n : \A x, y \in P[k] \ P[k - 1] : x = y
  BY PlacedHolds DEF Places
<1>2. R = {e \in comp \X comp :
             \/ \E k \in 0..n : e[1] \in P[k] /\ e[2] \notin P[k]
             \/ {e[1], e[2]} \subseteq left /\ e[1] < e[2]}
  BY <1>1 DEF TopoComponentOrder
<1> HIDE DEF R
<1>20. left \subseteq Nat /\ left = comp \ P[n]
  OBVIOUS
<1>21. n \in 0..n
  BY <1>1
<1>3. \A x, y \in comp : <<x, y>> \in R <=>
             \/ \E k \in 0..n : x \in P[k] /\ y \notin P[k]
             \/ x \in left /\ y \in left /\ x < y
  BY <1>2
<1>4. \A x \in left : \A k \in 0..n : x \notin P[k]
  BY <1>1
<1> HIDE DEF left
<1>5. ASSUME NEW x \in comp PROVE <<x, x>> \notin R
  BY <1>3, <1>20
<1>6. ASSUME NEW x \in comp, NEW y \in comp, NEW z \in comp, <<x, y>> \in R, <<y, z>> \in R
      PROVE  <<x, z>> \in R
  <2>1. CASE \E k \in 0..n : x \in P[k] /\ y \notin P[k]
    <3>1. PICK k \in 0..n : x \in P[k] /\ y \notin P[k]
      BY <2>1
    <3>2. CASE y \in left /\ z \in left
      BY <1>3, <1>4, <3>1, <3>2
    <3>3. ASSUME NEW m \in 0..n, y \in P[m], z \notin P[m] PROVE <<x, z>> \in R
      <4>1. k <= m
        BY <1>1, <3>1, <3>3
      <4> QED
        BY <1>1, <1>3, <3>1, <3>3, <4>1
    <3> QED
      BY <1>3, <1>6, <3>2, <3>3
  <2>2. CASE x \in left /\ y \in left /\ x < y
    <3>1. z \in left /\ y < z
      BY <1>3, <1>4, <1>6, <2>2
    <3>2. x < z
      BY <1>20, <2>2, <3>1
    <3> QED
      BY <1>3, <2>2, <3>1, <3>2
  <2> QED
    BY <1>3, <1>6, <2>1, <2>2
<1>7. ASSUME NEW x \in comp, NEW y \in comp, x # y PROVE <<x, y>> \in R \/ <<y, x>> \in R
  <2>1. CASE x \in left /\ y \in left
    <3>1. x < y \/ y < x
      BY <1>7, <1>20, <2>1
    <3> QED
      BY <1>3, <2>1, <3>1
  <2>2. CASE x \in P[n] /\ y \notin P[n]
    BY <1>21, <1>3, <2>2
  <2>3. CASE y \in P[n] /\ x \notin P[n]
    BY <1>21, <1>3, <2>3
  <2>4. CASE x \in P[n] /\ y \in P[n]
    <3>0. n \in Nat /\ P[0] = {} /\ x \in P[n]
      BY <1>1, <2>4
    <3>1. PICK k \in 1..n : x \in P[k] /\ \A j \in 0..(k - 1) : x \notin P[j]
      BY <3>0, PlacedOnTurn
    <3>2. k \in 0..n /\ k - 1 \in 0..n /\ k - 1 \in 0..(k - 1)
      BY <1>1
    <3>3. CASE y \notin P[k]
      BY <1>3, <3>1, <3>2, <3>3
    <3>4. CASE y \in P[k]
      <4>1. y \in P[k - 1]
        BY <1>1, <1>7, <3>1, <3>2, <3>4
      <4> QED
        BY <1>3, <3>1, <3>2, <4>1
    <3> QED
      BY <3>3, <3>4
  <2> QED
    BY <1>20, <2>1, <2>2, <2>3, <2>4
<1> QED
  BY <1>5, <1>6, <1>7 DEF Orders, R

\* A node stands before its predecessor only when the algorithm never placed it.
LEMMA OutOfPlace ==
    ASSUME NEW comp, comp \subseteq Nat, IsFiniteSet(comp),
           NEW m \in comp, NEW x \in comp, <<m, x>> \in Succ,
           <<x, m>> \in TopoComponentOrder(comp)
    PROVE  x \notin Placed(comp)[Cardinality(comp)]
<1> SUFFICES ASSUME NEW P, P = Placed(comp), NEW n, n = Cardinality(comp), x \in P[n]
             PROVE  FALSE
  OBVIOUS
<1>1. Places(comp, P, n)
  BY PlacedHolds
<1>2. PICK k \in 1..n : x \in P[k] /\ \A j \in 0..(k - 1) : x \notin P[j]
  BY <1>1, PlacedOnTurn DEF Places
<1>3. k \in 0..n /\ k - 1 \in 0..n /\ k - 1 \in 0..(k - 1) /\ n \in 0..n
  BY <1>1 DEF Places
<1>4. x \in Ready(comp, P[k - 1])
  BY <1>1, <1>2, <1>3 DEF Places
<1>5. m \in P[k - 1]
  BY <1>4 DEF Ready
<1>6. \E j \in 0..n : x \in P[j] /\ m \notin P[j]
  BY <1>1 DEF TopoComponentOrder, Places
<1>7. PICK j \in 0..n : x \in P[j] /\ m \notin P[j]
  BY <1>6
<1>8. ~(j <= k - 1)
  BY <1>2, <1>3, <1>7
<1>9. k - 1 <= j
  BY <1>3, <1>8
<1> QED
  BY <1>1, <1>3, <1>5, <1>7, <1>9 DEF Places

\* What is left over waits for something that is left over.
LEMMA LeftWaits ==
    ASSUME NEW comp, comp \subseteq Nat, IsFiniteSet(comp),
           NEW x \in comp \ Placed(comp)[Cardinality(comp)]
    PROVE  \E m \in comp \ Placed(comp)[Cardinality(comp)] : <<m, x>> \in Succ
<1> SUFFICES ASSUME NEW P, P = Placed(comp)[Cardinality(comp)]
             PROVE  \E m \in comp \ P : <<m, x>> \in Succ
  OBVIOUS
<1>1. Ready(comp, P) = {}
  BY PlacedHolds DEF Places
<1> QED
  BY <1>1 DEF Ready

\* Where every node comes after another, each is led to by a cycle: among the nodes
\* that lead to it, take one that the fewest lead to.
LEMMA LedByCycle ==
    ASSUME NEW E, NEW L, L \subseteq Bead, IsFiniteSet(L),
           \A x \in L : \E m \in L : <<m, x>> \in E,
           NEW n \in L
    PROVE  \E m \in L : m \in Reach(E, m) /\ n \in Reach(E, m)
<1> DEFINE Before(x) == {y \in L : x \in Reach(E, y)}
           Size(x) == Cardinality(Before(x))
           S == {Size(x) : x \in Before(n)}
<1>1. \A x \in L : \E m \in Before(x) : TRUE
  BY ReachSteps
<1>2. \A x : IsFiniteSet(Before(x)) /\ Size(x) \in Nat
  <2> SUFFICES ASSUME NEW x PROVE IsFiniteSet(Before(x)) /\ Size(x) \in Nat
    OBVIOUS
  <2>1. Before(x) \in SUBSET L
    OBVIOUS
  <2> HIDE DEF Before
  <2> QED
    BY <2>1, FS_Subset, FS_CardinalityType
<1>3. S \subseteq Nat /\ S # {}
  <2> HIDE DEF Size, Before
  <2> QED
    BY <1>1, <1>2
<1>4. PICK x \in Before(n) : \A y \in Before(n) : Size(x) <= Size(y)
  <2>1. Least(S) \in S /\ \A y \in S : Least(S) <= y
    <3> HIDE DEF S
    <3> QED
      BY <1>3, LeastHolds
  <2> HIDE DEF Size, Before
  <2> QED
    BY <2>1
<1>5. PICK m \in L : <<m, x>> \in E
  BY <1>4
<1>6. x \in Reach(E, m)
  BY <1>4, <1>5, ReachSteps
<1>7. m \in Before(n)
  BY <1>4, <1>6, ReachOn
<1>8. Before(m) \subseteq Before(x)
  BY <1>6, ReachOn
<1>9. Size(m) = Size(x)
  <2>1. Size(x) <= Size(m) /\ Size(x) \in Nat /\ Size(m) \in Nat
    BY <1>2, <1>4, <1>7
  <2>2. Size(m) <= Size(x)
    <3> HIDE DEF Before
    <3> QED
      BY <1>2, <1>8, FS_Subset
  <2> HIDE DEF Size
  <2> QED
    BY <2>1, <2>2
<1>10. Before(m) = Before(x)
  <2> HIDE DEF Before
  <2> QED
    BY <1>2, <1>8, <1>9, FS_Subset
<1>11. m \in Before(m)
  BY <1>6, <1>10
<1> QED
  BY <1>7, <1>11

\* In a component, an epic stands before its predecessor only if a cycle leads to it.
LEMMA InSequence ==
    ASSUME NEW comp, comp \subseteq ActiveEpics,
           NEW m \in comp, NEW x \in comp, <<m, x>> \in Succ,
           <<x, m>> \in TopoComponentOrder(comp)
    PROVE  \E y \in ActiveEpics : y \in Reach(Succ, y) /\ x \in Reach(Succ, y)
<1> DEFINE L == comp \ Placed(comp)[Cardinality(comp)]
<1>1. ActiveEpics \subseteq Bead /\ Bead \subseteq Nat /\ IsFiniteSet(Bead)
  BY LanesAssumption DEF ActiveEpics, Active
<1>2. comp \subseteq Nat /\ comp \in SUBSET Bead
  BY <1>1
<1>3. IsFiniteSet(comp)
  BY <1>1, <1>2, FS_Subset
<1>4. x \in L
  BY <1>2, <1>3, OutOfPlace
<1>5. \A z \in L : \E y \in L : <<y, z>> \in Succ
  BY <1>2, <1>3, LeftWaits
<1>6. L \in SUBSET comp
  OBVIOUS
<1> HIDE DEF L
<1>7. IsFiniteSet(L)
  BY <1>3, <1>6, FS_Subset
<1>8. L \subseteq Bead
  BY <1>2, <1>6
<1>9. \E y \in L : y \in Reach(Succ, y) /\ x \in Reach(Succ, y)
  BY <1>4, <1>5, <1>7, <1>8, LedByCycle
<1> QED
  BY <1>6, <1>9

LEMMA EpicsFinite == ActiveEpics \subseteq Nat /\ IsFiniteSet(ActiveEpics)
<1>1. ActiveEpics \in SUBSET Bead
  BY DEF ActiveEpics, Active
<1> QED
  BY <1>1, FS_Subset, LanesAssumption

\* Two epics have their leader in common when they are of one component.
LEMMA LeaderHolds ==
    ASSUME NEW x \in ActiveEpics
    PROVE  /\ Leader(x) \in Nat /\ Leader(x) \in Component(x)
           /\ \A y \in ActiveEpics :
                 /\ Leader(x) = Leader(y) => y \in Component(x)
                 /\ y \in Component(x) => Component(y) = Component(x) /\ Leader(x) = Leader(y)
<1>1. ASSUME NEW z \in ActiveEpics PROVE Leader(z) \in Nat /\ Leader(z) \in Component(z)
  <2>1. Component(z) \subseteq Nat /\ Component(z) # {}
    BY ComponentHolds, EpicsFinite
  <2> QED
    BY <2>1, LeastHolds DEF Leader
<1>2. ASSUME NEW y \in ActiveEpics, Leader(x) = Leader(y) PROVE y \in Component(x)
  <2>1. Component(Leader(x)) = Component(x)
    BY <1>1, ComponentHolds
  <2>2. Component(Leader(x)) = Component(y) /\ y \in Component(y)
    BY <1>1, <1>2, ComponentHolds
  <2> QED
    BY <2>1, <2>2
<1>3. \A y \in Component(x) : Component(y) = Component(x)
  BY ComponentHolds
<1> QED
  BY <1>1, <1>2, <1>3 DEF Leader

LEMMA WiredHolds ==
    ASSUME NEW x \in ActiveEpics, NEW y \in ActiveEpics, <<x, y>> \in Succ
    PROVE  Wired(x) /\ Wired(y) /\ y \in Component(x)
<1>1. x \in Component(x) /\ y \in Component(x) /\ x \in Component(y)
  BY ComponentHolds
<1> QED
  BY <1>1 DEF Wired

\* Within a component the strip follows the order of that component.
LEMMA TopoWithin ==
    ASSUME NEW x \in ActiveEpics, NEW y \in ActiveEpics
    PROVE  /\ <<x, x>> \notin TopoComponentOrder(Component(x))
           /\ <<x, y>> \in TopoComponentOrder(Component(x)) => y \in Component(x)
           /\ \A z \in ActiveEpics :
                 /\ <<x, y>> \in TopoComponentOrder(Component(x))
                 /\ <<y, z>> \in TopoComponentOrder(Component(x))
                 => <<x, z>> \in TopoComponentOrder(Component(x))
           /\ x # y /\ y \in Component(x) =>
                 \/ <<x, y>> \in TopoComponentOrder(Component(x))
                 \/ <<y, x>> \in TopoComponentOrder(Component(x))
<1> SUFFICES ASSUME NEW C, C = Component(x), NEW R, R = TopoComponentOrder(C)
             PROVE  /\ <<x, x>> \notin R
                    /\ <<x, y>> \in R => y \in C
                    /\ \A z \in ActiveEpics : <<x, y>> \in R /\ <<y, z>> \in R => <<x, z>> \in R
                    /\ x # y /\ y \in C => <<x, y>> \in R \/ <<y, x>> \in R
  OBVIOUS
<1>1. C \in SUBSET ActiveEpics /\ x \in C
  BY ComponentHolds
<1>2. C \subseteq Nat /\ IsFiniteSet(C)
  BY <1>1, EpicsFinite, FS_Subset
<1>3. R \subseteq C \X C
  BY DEF TopoComponentOrder
<1>4. Orders(R, C)
  BY <1>2, TopoOrders
<1> QED
  BY <1>1, <1>3, <1>4 DEF Orders

LEMMA ChainsAre ==
    ASSUME NEW x \in ActiveEpics, NEW y \in ActiveEpics
    PROVE  <<x, y>> \in Chains <=>
              \/ Wired(x) /\ ~Wired(y)
              \/ /\ Wired(x) /\ Wired(y)
                 /\ Leader(x) < Leader(y) \/ <<x, y>> \in TopoComponentOrder(Component(x))
              \/ ~Wired(x) /\ ~Wired(y) /\ x < y
  BY DEF Chains

\* The chains put the epics one after the other.
LEMMA ChainsOrder == Orders(Chains, ActiveEpics)
<1>1. ASSUME NEW x \in ActiveEpics PROVE <<x, x>> \notin Chains
  <2>1. x \in Nat /\ Leader(x) \in Nat
    BY EpicsFinite, LeaderHolds
  <2>2. ~(x < x) /\ ~(Leader(x) < Leader(x))
    BY <2>1
  <2> QED
    BY <2>2, ChainsAre, TopoWithin
<1>2. ASSUME NEW x \in ActiveEpics, NEW y \in ActiveEpics, NEW z \in ActiveEpics,
             <<x, y>> \in Chains, <<y, z>> \in Chains
      PROVE  <<x, z>> \in Chains
  <2>1. CASE Wired(x) /\ ~Wired(z)
    BY <2>1, ChainsAre
  <2>2. CASE ~Wired(x)
    <3>1. ~Wired(y) /\ ~Wired(z) /\ x < y /\ y < z
      BY <1>2, <2>2, ChainsAre
    <3>2. x < z
      BY <3>1, EpicsFinite
    <3> QED
      BY <2>2, <3>1, <3>2, ChainsAre
  <2>3. CASE Wired(x) /\ Wired(z)
    <3>1. Wired(y)
      BY <1>2, <2>3, ChainsAre
    <3>2. Leader(x) < Leader(y) \/ <<x, y>> \in TopoComponentOrder(Component(x))
      BY <1>2, <2>3, <3>1, ChainsAre
    <3>3. Leader(y) < Leader(z) \/ <<y, z>> \in TopoComponentOrder(Component(y))
      BY <1>2, <2>3, <3>1, ChainsAre
    <3>4. Leader(x) \in Nat /\ Leader(y) \in Nat /\ Leader(z) \in Nat
      BY LeaderHolds
    <3>5. <<x, y>> \in TopoComponentOrder(Component(x)) =>
             Component(y) = Component(x) /\ Leader(x) = Leader(y)
      BY TopoWithin, LeaderHolds
    <3>6. <<y, z>> \in TopoComponentOrder(Component(y)) => Leader(y) = Leader(z)
      BY TopoWithin, LeaderHolds
    <3>7. \/ Leader(x) < Leader(z)
          \/ <<x, z>> \in TopoComponentOrder(Component(x))
      <4>1. CASE Leader(x) < Leader(y)
        BY <3>3, <3>4, <3>6, <4>1
      <4>2. CASE <<x, y>> \in TopoComponentOrder(Component(x)) /\ Leader(y) < Leader(z)
        BY <3>4, <3>5, <4>2
      <4>3. CASE /\ <<x, y>> \in TopoComponentOrder(Component(x))
                 /\ <<y, z>> \in TopoComponentOrder(Component(y))
        BY <3>5, <4>3, TopoWithin
      <4> QED
        BY <3>2, <3>3, <4>1, <4>2, <4>3
    <3> QED
      BY <2>3, <3>7, ChainsAre
  <2> QED
    BY <2>1, <2>2, <2>3
<1>3. ASSUME NEW x \in ActiveEpics, NEW y \in ActiveEpics, x # y
      PROVE  <<x, y>> \in Chains \/ <<y, x>> \in Chains
  <2>1. CASE Wired(x) # Wired(y)
    BY <2>1, ChainsAre DEF Wired
  <2>2. CASE ~Wired(x) /\ ~Wired(y)
    <3>1. x < y \/ y < x
      BY <1>3, EpicsFinite
    <3> QED
      BY <2>2, <3>1, ChainsAre
  <2>3. CASE Wired(x) /\ Wired(y)
    <3>1. Leader(x) \in Nat /\ Leader(y) \in Nat
      BY LeaderHolds
    <3>2. CASE Leader(x) # Leader(y)
      <4>1. Leader(x) < Leader(y) \/ Leader(y) < Leader(x)
        BY <3>1, <3>2
      <4> QED
        BY <2>3, <4>1, ChainsAre
    <3>3. CASE Leader(x) = Leader(y)
      <4>1. y \in Component(x) /\ Component(y) = Component(x)
        BY <3>3, LeaderHolds
      <4>2. \/ <<x, y>> \in TopoComponentOrder(Component(x))
            \/ <<y, x>> \in TopoComponentOrder(Component(y))
        BY <1>3, <4>1, TopoWithin
      <4> QED
        BY <2>3, <4>2, ChainsAre
    <3> QED
      BY <3>2, <3>3
  <2> QED
    BY <2>1, <2>2, <2>3 DEF Wired
<1> QED
  BY <1>1, <1>2, <1>3 DEF Orders

\* The epic drawn to the front is one of the best rank, an epic in progress if
\* there is one.
LEMMA RankHolds ==
    ASSUME NEW b
    PROVE  EpicLaneRank(b) \in Nat /\ (EpicLaneRank(b) = 0 <=> status[b] = "in_progress")
  BY DEF EpicLaneRank

LEMMA AnchorHolds ==
    ASSUME NEW b \in ActiveEpics
    PROVE  /\ Anchor \in ActiveEpics
           /\ status[b] = "in_progress" => status[Anchor] = "in_progress"
<1> DEFINE ranks == {EpicLaneRank(c) : c \in ActiveEpics}
<1>1. ranks \subseteq Nat /\ ranks # {}
  BY RankHolds
<1>2. PICK r \in ranks : r \in Nat /\ \A c \in ActiveEpics : r <= EpicLaneRank(c)
  <2>1. Least(ranks) \in ranks /\ \A y \in ranks : Least(ranks) <= y
    <3> HIDE DEF ranks
    <3> QED
      BY <1>1, LeastHolds
  <2> QED
    BY <1>1, <2>1
<1> DEFINE best == {c \in ActiveEpics : EpicLaneRank(c) = r}
<1>3. best \subseteq Nat /\ best # {}
  BY <1>2, EpicsFinite
<1>4. PICK a \in best : \A c \in best : a <= c
  <2> HIDE DEF best
  <2> QED
    BY <1>3, LeastHolds
<1>5. a \in ActiveEpics /\ EpicLaneRank(a) = r
  BY <1>4
<1>6. ASSUME NEW c \in ActiveEpics PROVE Leads(a, c)
  <2>1. r <= EpicLaneRank(c) /\ EpicLaneRank(c) \in Nat
    BY <1>2, RankHolds
  <2>2. EpicLaneRank(c) = r => a <= c
    BY <1>4
  <2> QED
    BY <1>2, <1>5, <2>1, <2>2 DEF Leads
<1>7. Anchor \in ActiveEpics /\ \A c \in ActiveEpics : Leads(Anchor, c)
  BY <1>5, <1>6 DEF Anchor
<1>8. ASSUME status[b] = "in_progress" PROVE status[Anchor] = "in_progress"
  <2>1. EpicLaneRank(b) = 0 /\ EpicLaneRank(Anchor) \in Nat
    BY <1>8, RankHolds
  <2>2. Leads(Anchor, b)
    BY <1>7
  <2>3. EpicLaneRank(Anchor) = 0
    BY <2>1, <2>2 DEF Leads
  <2> QED
    BY <2>3, RankHolds
<1> QED
  BY <1>7, <1>8

LEMMA AnchorFirstOrders == Orders(AnchorFirst, ActiveEpics)
<1>1. \A x, y \in ActiveEpics :
          <<x, y>> \in AnchorFirst <=> y # Anchor /\ (x = Anchor \/ <<x, y>> \in Chains)
  BY DEF AnchorFirst
<1> QED
  BY <1>1, ChainsOrder DEF Orders

\* The strip holds every active epic once, none before an epic it waits for unless a
\* cycle leads to it or it is the one drawn to the front, the wired ones first, and
\* none leads while another is in progress: whatever the epics and their links.
THEOREM StripInSequenceHolds == Spec => []StripInSequence
<1>1. StripInSequence
  <2> SUFFICES ASSUME NEW strip, strip = EpicLane, NEW n, n = Cardinality(ActiveEpics)
               PROVE  StripInSequence
    OBVIOUS
  <2>1. /\ strip \in [1..n -> ActiveEpics] /\ n \in Nat
        /\ \A x \in ActiveEpics : \E i \in 1..n : strip[i] = x
        /\ \A i, j \in 1..n : i < j => <<strip[i], strip[j]>> \in AnchorFirst
    BY ArrangedHolds, AnchorFirstOrders, EpicsFinite DEF EpicLane
  <2>2. Range(strip) = ActiveEpics
    BY <2>1 DEF Range
  <2>3. Len(strip) = n
    BY <2>1
  <2>4. ASSUME NEW i \in 2..n, NEW j \in 2..n, i < j
        PROVE  /\ \/ <<strip[j], strip[i]>> \notin Succ
                  \/ \E x \in ActiveEpics : x \in Reach(Succ, x) /\ strip[i] \in Reach(Succ, x)
               /\ Wired(strip[j]) => Wired(strip[i])
    <3> DEFINE a == strip[i]
               b == strip[j]
    <3>1. /\ 1 \in 1..n /\ i \in 1..n /\ j \in 1..n /\ 1 < i /\ 1 < j
          /\ a \in ActiveEpics /\ b \in ActiveEpics /\ strip[1] \in ActiveEpics
      BY <2>1
    <3>2. a # Anchor /\ <<a, b>> \in AnchorFirst
      BY <2>1, <2>4, <3>1 DEF AnchorFirst
    <3>3. <<a, b>> \in Chains
      BY <3>2 DEF AnchorFirst
    <3> HIDE DEF a, b
    <3>4. Wired(b) => Wired(a)
      BY <3>1, <3>3, ChainsAre
    <3>5. ASSUME <<b, a>> \in Succ
          PROVE  \E x \in ActiveEpics : x \in Reach(Succ, x) /\ a \in Reach(Succ, x)
      <4>1. Wired(a) /\ Wired(b) /\ a \in Component(b)
        BY <3>1, <3>5, WiredHolds
      <4>2. Component(a) = Component(b) /\ Leader(a) = Leader(b) /\ Leader(a) \in Nat
        BY <3>1, <4>1, LeaderHolds
      <4>3. <<a, b>> \in TopoComponentOrder(Component(a))
        BY <3>1, <3>3, <4>1, <4>2, ChainsAre
      <4>4. Component(a) \subseteq ActiveEpics /\ a \in Component(a) /\ b \in Component(a)
        BY <3>1, <4>2, ComponentHolds
      <4> QED
        BY <3>5, <4>3, <4>4, InSequence
    <3> QED
      BY <3>4, <3>5 DEF a, b
  <2>5. ASSUME NEW b \in ActiveEpics, status[b] = "in_progress"
        PROVE  status[strip[1]] = "in_progress"
    <3>1. Anchor \in ActiveEpics /\ status[Anchor] = "in_progress"
      BY <2>5, AnchorHolds
    <3>2. PICK i \in 1..n : strip[i] = Anchor
      BY <2>1, <3>1
    <3>3. ~(1 < i)
      <4>1. 1 \in 1..n
        BY <2>1, <3>2
      <4>2. 1 < i => <<strip[1], Anchor>> \in AnchorFirst
        BY <2>1, <3>2, <4>1
      <4> QED
        BY <4>2 DEF AnchorFirst
    <3>4. i = 1
      BY <3>3
    <3> QED
      BY <3>1, <3>2, <3>4
  <2> QED
    BY <2>2, <2>3, <2>4, <2>5 DEF StripInSequence
<1> QED
  BY <1>1, PTL

--------------------------------------------------------------------------------
(* Stacks: what was pushed last comes first, and has the highest index.     *)

Falls(q, index) == \A i, j \in 1..Len(q) : i < j => index[q[j]] < index[q[i]]

\* What is in a sequence.
LEMMA RangeIs ==
    ASSUME NEW S, NEW q \in Seq(S)
    PROVE  /\ Len(q) \in Nat /\ Range(q) \subseteq S
           /\ \A i \in 1..Len(q) : q[i] \in Range(q)
           /\ \A x \in Range(q) : \E i \in 1..Len(q) : q[i] = x
           /\ q = <<>> <=> Range(q) = {}
<1>1. Len(q) \in Nat /\ Range(q) = {q[i] : i \in 1..Len(q)}
  BY RangeEquality
<1>2. \A i \in 1..Len(q) : q[i] \in S
  OBVIOUS
<1>3. q # <<>> => 1 \in 1..Len(q)
  OBVIOUS
<1>4. q = <<>> => 1..Len(q) = {}
  OBVIOUS
<1> QED
  BY <1>1, <1>2, <1>3, <1>4

\* A node pushed on a stack.
LEMMA PushHolds ==
    ASSUME NEW S, NEW q \in Seq(S), NEW v \in S, NEW index, Falls(q, index),
           \A x \in Range(q) : index[x] < index[v]
    PROVE  /\ <<v>> \o q \in Seq(S) /\ Range(<<v>> \o q) = {v} \cup Range(q)
           /\ Len(<<v>> \o q) = Len(q) + 1 /\ Len(q) \in Nat
           /\ Falls(<<v>> \o q, index)
<1> DEFINE t == <<v>> \o q
<1>1. /\ t \in Seq(S) /\ Len(t) = Len(q) + 1 /\ Len(q) \in Nat
      /\ t[1] = v /\ \A i \in 2..Len(t) : t[i] = q[i - 1] /\ i - 1 \in 1..Len(q)
  OBVIOUS
<1>2. Range(t) = {v} \cup Range(q)
  <2>1. Range(t) \subseteq {v} \cup Range(q)
    <3> HIDE DEF t
    <3> SUFFICES ASSUME NEW x \in Range(t) PROVE x = v \/ x \in Range(q)
      OBVIOUS
    <3>1. PICK i \in 1..Len(t) : t[i] = x
      BY <1>1, RangeIs
    <3>2. i = 1 \/ i \in 2..Len(t)
      OBVIOUS
    <3> QED
      BY <1>1, <3>1, <3>2, RangeIs
  <2>2. ASSUME NEW x \in Range(q) PROVE x \in Range(t)
    <3> HIDE DEF t
    <3>1. PICK i \in 1..Len(q) : q[i] = x
      BY RangeIs
    <3>2. i + 1 \in 2..Len(t) /\ (i + 1) - 1 = i /\ i + 1 \in 1..Len(t)
      BY <1>1
    <3>3. t[i + 1] = x
      BY <1>1, <3>1, <3>2
    <3> QED
      BY <1>1, <3>2, <3>3, RangeIs
  <2>3. v \in Range(t)
    <3> HIDE DEF t
    <3>1. 1 \in 1..Len(t)
      BY <1>1
    <3> QED
      BY <1>1, <3>1, RangeIs
  <2> QED
    BY <2>1, <2>2, <2>3
<1> HIDE DEF t
<1>3. ASSUME NEW i \in 1..Len(t), NEW j \in 1..Len(t), i < j PROVE index[t[j]] < index[t[i]]
  <2>1. j \in 2..Len(t)
    BY <1>1, <1>3
  <2>2. t[j] = q[j - 1] /\ j - 1 \in 1..Len(q)
    BY <1>1, <2>1
  <2>3. CASE i = 1
    BY <1>1, <2>2, <2>3, RangeIs
  <2>4. CASE i # 1
    <3>1. i \in 2..Len(t) /\ i - 1 < j - 1
      BY <1>1, <1>3, <2>4
    <3>2. t[i] = q[i - 1] /\ i - 1 \in 1..Len(q)
      BY <1>1, <3>1
    <3> QED
      BY <2>2, <3>1, <3>2 DEF Falls
  <2> QED
    BY <2>3, <2>4
<1>4. Falls(t, index)
  BY <1>3 DEF Falls
<1> QED
  BY <1>1, <1>2, <1>4 DEF t

\* What is left of a stack below some node, and what is taken off.
Under(r, q, v, index) ==
    /\ Range(r) = {x \in Range(q) : index[x] < index[v]}
    /\ Falls(r, index)

LEMMA CutHolds ==
    ASSUME NEW S, NEW q \in Seq(S), NEW index \in [S -> Nat], Falls(q, index),
           NEW e \in 1..Len(q)
    PROVE  /\ Range(SubSeq(q, 1, e)) = {x \in Range(q) : index[q[e]] <= index[x]}
           /\ Under(SubSeq(q, e + 1, Len(q)), q, q[e], index)
           /\ SubSeq(q, e + 1, Len(q)) \in Seq(S)
           /\ Len(SubSeq(q, e + 1, Len(q))) = Len(q) - e
<1> DEFINE top == SubSeq(q, 1, e)
           rest == SubSeq(q, e + 1, Len(q))
<1>1. /\ Len(q) \in Nat /\ \A i \in 1..Len(q) : q[i] \in S /\ index[q[i]] \in Nat
      /\ \A i, j \in 1..Len(q) : i < j => index[q[j]] < index[q[i]]
  BY DEF Falls
<1>2. top \in Seq(S) /\ Len(top) = e /\ \A i \in 1..e : top[i] = q[i]
  OBVIOUS
<1>3. rest \in Seq(S) /\ Len(rest) = Len(q) - e /\ \A i \in 1..(Len(q) - e) : rest[i] = q[e + i]
  OBVIOUS
<1> HIDE DEF top, rest
<1>7. /\ \A x : x \in Range(top) <=> \E i \in 1..e : q[i] = x
      /\ \A x : x \in Range(rest) <=> \E i \in 1..(Len(q) - e) : q[e + i] = x
  <2>1. Range(top) = {top[i] : i \in 1..Len(top)}
    BY <1>2, RangeEquality
  <2>2. Range(rest) = {rest[i] : i \in 1..Len(rest)}
    BY <1>3, RangeEquality
  <2>3. \A x : x \in Range(top) <=> \E i \in 1..e : q[i] = x
    BY <1>2, <2>1
  <2>4. \A x : x \in Range(rest) <=> \E i \in 1..(Len(q) - e) : q[e + i] = x
    BY <1>3, <2>2
  <2> QED
    BY <2>3, <2>4
<1>4. Range(top) = {x \in Range(q) : index[q[e]] <= index[x]}
  <2>1. ASSUME NEW x \in Range(top) PROVE x \in Range(q) /\ index[q[e]] <= index[x]
    <3>1. PICK i \in 1..e : q[i] = x
      BY <1>7
    <3>2. i \in 1..Len(q) /\ (i < e \/ i = e)
      BY <1>1
    <3> QED
      BY <1>1, <3>1, <3>2, RangeIs
  <2>2. ASSUME NEW x \in Range(q), index[q[e]] <= index[x] PROVE x \in Range(top)
    <3>1. PICK i \in 1..Len(q) : q[i] = x
      BY RangeIs
    <3>2. ~(e < i)
      BY <1>1, <2>2, <3>1
    <3>3. i \in 1..e
      BY <1>1, <3>2
    <3> QED
      BY <1>7, <3>1, <3>3
  <2> QED
    BY <2>1, <2>2
<1>5. Range(rest) = {x \in Range(q) : index[x] < index[q[e]]}
  <2>1. ASSUME NEW x \in Range(rest) PROVE x \in Range(q) /\ index[x] < index[q[e]]
    <3>1. PICK i \in 1..(Len(q) - e) : q[e + i] = x
      BY <1>7
    <3>2. e + i \in 1..Len(q) /\ e < e + i
      BY <1>1
    <3> QED
      BY <1>1, <3>1, <3>2, RangeIs
  <2>2. ASSUME NEW x \in Range(q), index[x] < index[q[e]] PROVE x \in Range(rest)
    <3>1. PICK i \in 1..Len(q) : q[i] = x
      BY RangeIs
    <3>2. ~(i < e) /\ i # e
      BY <1>1, <2>2, <3>1
    <3>3. i - e \in 1..(Len(q) - e) /\ e + (i - e) = i
      BY <1>1, <3>2
    <3> QED
      BY <1>7, <3>1, <3>3
  <2> QED
    BY <2>1, <2>2
<1>6. ASSUME NEW i \in 1..Len(rest), NEW j \in 1..Len(rest), i < j
      PROVE  index[rest[j]] < index[rest[i]]
  <2>1. i \in 1..(Len(q) - e) /\ j \in 1..(Len(q) - e)
    BY <1>3
  <2>2. rest[i] = q[e + i] /\ rest[j] = q[e + j]
    BY <1>3, <2>1
  <2>3. e + i \in 1..Len(q) /\ e + j \in 1..Len(q) /\ e + i < e + j
    BY <1>1, <1>6, <2>1
  <2> QED
    BY <1>1, <2>2, <2>3
<1> QED
  BY <1>3, <1>4, <1>5, <1>6 DEF Under, Falls, top, rest

\* The work under its top.
LEMMA PopHolds ==
    ASSUME NEW S, NEW q \in Seq(S), NEW index \in [S -> Nat], Falls(q, index), q # <<>>
    PROVE  /\ Head(q) \in Range(q) /\ Tail(q) \in Seq(S) /\ Falls(Tail(q), index)
           /\ Len(q) \in Nat /\ Len(Tail(q)) = Len(q) - 1
           /\ Range(Tail(q)) = {x \in Range(q) : index[x] < index[Head(q)]}
           /\ \A x \in Range(q) : x = Head(q) \/ index[x] < index[Head(q)]
<1>1. Tail(q) = SubSeq(q, 2, Len(q)) /\ Head(q) = q[1] /\ 1 \in 1..Len(q) /\ Len(q) \in Nat
  BY TailIsSubSeq
<1>2. SubSeq(q, 1 + 1, Len(q)) = Tail(q)
  BY <1>1
<1>3. ASSUME NEW x \in Range(q) PROVE x = Head(q) \/ index[x] < index[Head(q)]
  <2>1. PICK i \in 1..Len(q) : q[i] = x
    BY RangeIs
  <2>2. i = 1 \/ 1 < i
    BY <2>1
  <2> QED
    BY <1>1, <2>1, <2>2 DEF Falls
<1>4. Head(q) \in Range(q)
  BY <1>1, RangeIs
<1>5. /\ Range(Tail(q)) = {x \in Range(q) : index[x] < index[q[1]]}
      /\ Tail(q) \in Seq(S) /\ Len(Tail(q)) = Len(q) - 1 /\ Falls(Tail(q), index)
  <2> PICK e : e = 1
    OBVIOUS
  <2>1. e \in 1..Len(q) /\ Tail(q) = SubSeq(q, e + 1, Len(q)) /\ e = 1
    BY <1>1, <1>2
  <2>2. /\ Under(SubSeq(q, e + 1, Len(q)), q, q[e], index)
        /\ SubSeq(q, e + 1, Len(q)) \in Seq(S)
        /\ Len(SubSeq(q, e + 1, Len(q))) = Len(q) - e
    BY <2>1, CutHolds
  <2> QED
    BY <2>1, <2>2 DEF Under
<1> QED
  BY <1>1, <1>3, <1>4, <1>5

--------------------------------------------------------------------------------
(* Tarjan's algorithm: what holds of its state s on every turn.             *)

States ==
    [visited : SUBSET Bead, index : [Bead -> Nat], low : [Bead -> Nat],
     todo : [Bead -> SUBSET Bead], stack : Seq(Bead), work : Seq(Bead), members : SUBSET Bead]

On(s) == Range(s.stack)
Open(s) == Range(s.work)
Done(s) == s.visited \ On(s)

\* Nodes are numbered as they are visited, and both stacks keep that order.
Numbered(s, N) ==
    /\ s \in States
    /\ s.visited \subseteq N
    /\ Open(s) \subseteq On(s) /\ On(s) \subseteq s.visited
    /\ \A x \in s.visited : s.index[x] < Cardinality(s.visited)
    /\ \A x, y \in s.visited : s.index[x] = s.index[y] => x = y
    /\ Falls(s.stack, s.index) /\ Falls(s.work, s.index)

\* A child left to do is a child, one that is done was visited, and what is off the
\* work has none left.
Looked(s, E) ==
    /\ \A x \in s.visited, c \in Bead : <<x, c>> \in E => c \in s.todo[x] \/ c \in s.visited
    /\ \A x \in s.visited \ Open(s) : s.todo[x] = {}
    /\ \A x \in s.visited : \A c \in s.todo[x] : <<x, c>> \in E

\* No edge leads out of what has left the stack.
DoneStays(s, E) == \A x \in Done(s), c \in Bead : <<x, c>> \in E => c \in Done(s)

\* A low link is the number of a node on the stack that one can get to, and none
\* that was looked at is lower.
LowReached(s, E) ==
    \A x \in On(s) :
        /\ s.low[x] <= s.index[x]
        /\ \E y \in On(s) : s.low[x] = s.index[y] /\ (y = x \/ y \in Reach(E, x))
LowSeen(s, E) ==
    \A x, c \in On(s) : <<x, c>> \in E /\ c \notin s.todo[x] => s.low[x] <= s.index[c]

\* A node of the work gathers the low links of the nodes above it on the stack, up
\* to the next node of the work, and leads to all that are above it.
LowGathered(s) ==
    \A v \in Open(s), x \in On(s) :
        /\ s.index[v] <= s.index[x]
        /\ \A w \in Open(s) : s.index[w] <= s.index[v] \/ s.index[x] < s.index[w]
        => s.low[v] <= s.low[x]
Descended(s, E) == \A v \in Open(s), x \in On(s) : s.index[v] < s.index[x] => x \in Reach(E, v)

\* What is off the work and on the stack leads to a node that came before.
Held(s) ==
    \A x \in On(s) \ Open(s) :
        s.low[x] < s.index[x] /\ \E v \in Open(s) : s.index[v] < s.index[x]

Found(s, E) == s.members = {b \in Done(s) : b \in Reach(E, b)}

TarjanInv(s, E, N) ==
    /\ Numbered(s, N) /\ Looked(s, E) /\ DoneStays(s, E)
    /\ LowReached(s, E) /\ LowSeen(s, E) /\ LowGathered(s)
    /\ Descended(s, E) /\ Held(s) /\ Found(s, E)

Typed(s) ==
    /\ s.visited \subseteq Bead /\ s.members \subseteq Bead
    /\ s.index \in [Bead -> Nat] /\ s.low \in [Bead -> Nat] /\ s.todo \in [Bead -> SUBSET Bead]
    /\ s.stack \in Seq(Bead) /\ s.work \in Seq(Bead)
    /\ On(s) \subseteq Bead /\ Open(s) \subseteq Bead
    /\ \A x \in Bead : s.index[x] \in Nat /\ s.low[x] \in Nat /\ s.todo[x] \subseteq Bead

\* What the type of a state says of its parts.
LEMMA StateTypes == ASSUME NEW s \in States PROVE Typed(s)
<1>1. /\ s.visited \subseteq Bead /\ s.members \subseteq Bead
      /\ s.index \in [Bead -> Nat] /\ s.low \in [Bead -> Nat] /\ s.todo \in [Bead -> SUBSET Bead]
      /\ s.stack \in Seq(Bead) /\ s.work \in Seq(Bead)
  BY DEF States
<1>2. On(s) \subseteq Bead /\ Open(s) \subseteq Bead
  BY <1>1, RangeIs DEF On, Open
<1> QED
  BY <1>1, <1>2 DEF Typed

LEMMA SmallerHolds ==
    ASSUME NEW a \in Nat, NEW b \in Nat
    PROVE  /\ Smaller(a, b) \in Nat /\ Smaller(a, b) <= a /\ Smaller(a, b) <= b
           /\ Smaller(a, b) = a \/ Smaller(a, b) = b
  BY DEF Smaller

\* The node on top of the work came after every other node of the work.
OnTop(s, v) ==
    /\ v \in Open(s) /\ Tail(s.work) \in Seq(Bead)
    /\ Len(s.work) \in Nat /\ Len(Tail(s.work)) = Len(s.work) - 1
    /\ Falls(Tail(s.work), s.index)
    /\ Range(Tail(s.work)) = {x \in Open(s) : s.index[x] < s.index[v]}
    /\ \A x \in Open(s) : x = v \/ s.index[x] < s.index[v]

LEMMA TopHolds ==
    ASSUME NEW N, NEW s, Numbered(s, N), s.work # <<>>
    PROVE  OnTop(s, Head(s.work))
<1>1. s.work \in Seq(Bead) /\ s.index \in [Bead -> Nat] /\ Falls(s.work, s.index)
  BY StateTypes DEF Numbered, Typed
<1>2. PICK q : q = s.work
  OBVIOUS
<1>3. /\ Head(q) \in Range(q) /\ Tail(q) \in Seq(Bead) /\ Falls(Tail(q), s.index)
      /\ Len(q) \in Nat /\ Len(Tail(q)) = Len(q) - 1
      /\ Range(Tail(q)) = {x \in Range(q) : s.index[x] < s.index[Head(q)]}
      /\ \A x \in Range(q) : x = Head(q) \/ s.index[x] < s.index[Head(q)]
  BY <1>1, <1>2, PopHolds
<1> QED
  BY <1>2, <1>3 DEF OnTop, Open

--------------------------------------------------------------------------------
(* A child that was visited.                                                *)

AfterLook(s, v, c, t) ==
    /\ t \in States
    /\ t.visited = s.visited /\ t.index = s.index /\ t.members = s.members
    /\ t.stack = s.stack /\ t.work = s.work
    /\ On(t) = On(s) /\ Open(t) = Open(s) /\ Done(t) = Done(s)
    /\ t.low[v] = IF c \in On(s) THEN Smaller(s.low[v], s.index[c]) ELSE s.low[v]
    /\ \A x \in Bead \ {v} : t.low[x] = s.low[x] /\ t.todo[x] = s.todo[x]
    /\ t.todo[v] = s.todo[v] \ {c}

LEMMA LooksAtIs ==
    ASSUME NEW s \in States, NEW v \in Bead, NEW c \in Bead, NEW t, t = LooksAt(s, v, c)
    PROVE  AfterLook(s, v, c, t)
<1>1. s.low[v] \in Nat /\ s.index[c] \in Nat /\ s.todo[v] \subseteq Bead
  BY StateTypes DEF Typed
<1> DEFINE lowest == IF c \in On(s) THEN Smaller(s.low[v], s.index[c]) ELSE s.low[v]
           low == [s.low EXCEPT ![v] = lowest]
           todo == [s.todo EXCEPT ![v] = s.todo[v] \ {c}]
<1>2. lowest \in Nat
  BY <1>1, SmallerHolds
<1>3. t = [s EXCEPT !.low = low, !.todo = todo]
  BY DEF LooksAt, On
<1>4. /\ low \in [Bead -> Nat] /\ low[v] = lowest
      /\ todo \in [Bead -> SUBSET Bead] /\ todo[v] = s.todo[v] \ {c}
      /\ \A x \in Bead \ {v} : low[x] = s.low[x] /\ todo[x] = s.todo[x]
  <2> HIDE DEF lowest
  <2> QED
    BY <1>1, <1>2, StateTypes DEF Typed
<1> HIDE DEF low, todo, lowest
<1>5. /\ t \in States
      /\ t.visited = s.visited /\ t.index = s.index /\ t.members = s.members
      /\ t.stack = s.stack /\ t.work = s.work
      /\ t.low = low /\ t.todo = todo
  BY <1>3, <1>4 DEF States
<1> QED
  BY <1>4, <1>5 DEF AfterLook, On, Open, Done, lowest

\* Its low link takes in a child on the stack, the number of which it leads to.
LEMMA LooksAtKeeps ==
    ASSUME NEW E, NEW N, NEW s, TarjanInv(s, E, N), s.work # <<>>,
           NEW v, v = Head(s.work), NEW c \in s.todo[v], c \in s.visited,
           NEW t, t = LooksAt(s, v, c)
    PROVE  TarjanInv(t, E, N)
<1>1. /\ s \in States /\ v \in Open(s) /\ v \in On(s) /\ v \in s.visited /\ v \in Bead
      /\ On(s) \subseteq Bead /\ Open(s) \subseteq On(s) /\ On(s) \subseteq s.visited
      /\ s.visited \subseteq Bead
      /\ \A x \in Bead : s.index[x] \in Nat /\ s.low[x] \in Nat
      /\ \A x \in Open(s) : x = v \/ s.index[x] < s.index[v]
  <2>1. Numbered(s, N)
    BY DEF TarjanInv
  <2>2. Typed(s) /\ OnTop(s, v)
    BY <2>1, StateTypes, TopHolds DEF Numbered
  <2> QED
    BY <2>1, <2>2 DEF Typed, OnTop, Numbered
<1>2. c \in Bead /\ <<v, c>> \in E
  BY <1>1 DEF TarjanInv, Looked
<1>3. /\ t \in States
      /\ t.visited = s.visited /\ t.index = s.index /\ t.members = s.members
      /\ t.stack = s.stack /\ t.work = s.work
      /\ On(t) = On(s) /\ Open(t) = Open(s) /\ Done(t) = Done(s)
      /\ t.low[v] = IF c \in On(s) THEN Smaller(s.low[v], s.index[c]) ELSE s.low[v]
      /\ \A x \in Bead \ {v} : t.low[x] = s.low[x] /\ t.todo[x] = s.todo[x]
      /\ t.todo[v] = s.todo[v] \ {c}
  <2>1. AfterLook(s, v, c, t)
    BY <1>1, <1>2, LooksAtIs
  <2> QED
    BY <2>1 DEF AfterLook
<1>4. /\ t.low[v] <= s.low[v] /\ t.low[v] \in Nat
      /\ c \in On(s) => t.low[v] <= s.index[c]
      /\ t.low[v] = s.low[v] \/ (c \in On(s) /\ t.low[v] = s.index[c])
  <2>1. s.low[v] \in Nat /\ s.index[c] \in Nat
    BY <1>1, <1>2
  <2>2. CASE c \in On(s)
    BY <1>3, <2>1, <2>2 DEF Smaller
  <2>3. CASE c \notin On(s)
    BY <1>3, <2>1, <2>3
  <2> QED
    BY <2>2, <2>3
<1>5. Numbered(t, N)
  BY <1>3 DEF TarjanInv, Numbered
<1>6. Looked(t, E)
  BY <1>1, <1>3 DEF TarjanInv, Looked
<1>7. DoneStays(t, E) /\ Found(t, E)
  BY <1>3 DEF TarjanInv, DoneStays, Found
<1>8. LowReached(t, E)
  <2> SUFFICES ASSUME NEW x \in On(s)
               PROVE  /\ t.low[x] <= s.index[x]
                      /\ \E y \in On(s) : t.low[x] = s.index[y] /\ (y = x \/ y \in Reach(E, x))
    BY <1>3 DEF LowReached
  <2>1. /\ s.low[x] <= s.index[x]
        /\ \E y \in On(s) : s.low[x] = s.index[y] /\ (y = x \/ y \in Reach(E, x))
    BY DEF TarjanInv, LowReached
  <2>2. CASE x # v \/ t.low[v] = s.low[v]
    BY <1>1, <1>3, <2>1, <2>2
  <2>3. CASE x = v /\ c \in On(s) /\ t.low[v] = s.index[c]
    <3>1. c \in Reach(E, v)
      BY <1>2, ReachSteps
    <3>2. t.low[v] <= s.index[v]
      BY <1>1, <1>2, <1>4, <2>1, <2>3
    <3> QED
      BY <2>3, <3>1, <3>2
  <2> QED
    BY <1>4, <2>2, <2>3
<1>9. LowSeen(t, E)
  <2> SUFFICES ASSUME NEW x \in On(s), NEW d \in On(s), <<x, d>> \in E, d \notin t.todo[x]
               PROVE  t.low[x] <= s.index[d]
    BY <1>3 DEF LowSeen
  <2>1. d \notin s.todo[x] => s.low[x] <= s.index[d]
    BY DEF TarjanInv, LowSeen
  <2>2. s.low[x] \in Nat /\ s.index[d] \in Nat
    BY <1>1
  <2>3. CASE x # v
    BY <1>1, <1>3, <2>1, <2>3
  <2>4. CASE x = v /\ d = c
    BY <1>4, <2>4
  <2>5. CASE x = v /\ d # c
    <3>1. s.low[v] <= s.index[d]
      BY <1>3, <2>1, <2>5
    <3> QED
      BY <1>4, <2>2, <2>5, <3>1
  <2> QED
    BY <2>3, <2>4, <2>5
<1>10. LowGathered(t)
  <2> SUFFICES ASSUME NEW u \in Open(s), NEW x \in On(s), s.index[u] <= s.index[x],
                      \A w \in Open(s) : s.index[w] <= s.index[u] \/ s.index[x] < s.index[w]
               PROVE  t.low[u] <= t.low[x]
    BY <1>3 DEF LowGathered
  <2>1. s.low[u] <= s.low[x] /\ s.low[u] \in Nat /\ s.low[x] \in Nat
    BY <1>1 DEF TarjanInv, LowGathered
  <2>2. CASE x # v /\ u # v
    BY <1>1, <1>3, <2>1, <2>2
  <2>3. CASE x # v /\ u = v
    BY <1>1, <1>3, <1>4, <2>1, <2>3
  <2>4. CASE x = v
    <3>1. s.index[v] <= s.index[u]
      BY <1>1, <2>4
    <3>2. u = v
      BY <1>1, <3>1
    <3> QED
      BY <1>4, <2>4, <3>2
  <2> QED
    BY <2>2, <2>3, <2>4
<1>11. Descended(t, E)
  BY <1>3 DEF TarjanInv, Descended
<1>12. Held(t)
  <2>1. \A x \in On(s) \ Open(s) : x # v /\ t.low[x] = s.low[x]
    BY <1>1, <1>3
  <2> QED
    BY <1>3, <2>1 DEF TarjanInv, Held
<1> QED
  BY <1>5, <1>6, <1>7, <1>8, <1>9, <1>10, <1>11, <1>12 DEF TarjanInv

--------------------------------------------------------------------------------
(* A node that is entered.                                                  *)

\* Only the numbers of what is on the stack count.
LEMMA FallsSame ==
    ASSUME NEW S, NEW q \in Seq(S), NEW index, NEW other, Falls(q, index),
           \A x \in Range(q) : other[x] = index[x]
    PROVE  Falls(q, other)
<1>1. \A i \in 1..Len(q) : other[q[i]] = index[q[i]]
  BY RangeIs
<1> QED
  BY <1>1 DEF Falls

AfterEnter(s, todo, c, E, t) ==
    /\ t \in States
    /\ t.visited = s.visited \cup {c} /\ t.members = s.members
    /\ On(t) = On(s) \cup {c} /\ Open(t) = Open(s) \cup {c} /\ Done(t) = Done(s)
    /\ Cardinality(s.visited) \in Nat /\ Cardinality(t.visited) = Cardinality(s.visited) + 1
    /\ t.index[c] = Cardinality(s.visited) /\ t.low[c] = Cardinality(s.visited)
    /\ t.todo[c] = {d \in Bead : <<c, d>> \in E}
    /\ \A x \in Bead \ {c} : t.index[x] = s.index[x] /\ t.low[x] = s.low[x] /\ t.todo[x] = todo[x]
    /\ Falls(t.stack, t.index) /\ Falls(t.work, t.index)
    /\ Len(s.work) \in Nat /\ Len(t.work) = Len(s.work) + 1

LEMMA EntersIs ==
    ASSUME NEW E, NEW N, N \subseteq Bead, NEW s, Numbered(s, N),
           NEW c \in N, c \notin s.visited, NEW todo \in [Bead -> SUBSET Bead],
           NEW t, t = Enters([s EXCEPT !.todo = todo], c, E)
    PROVE  AfterEnter(s, todo, c, E, t)
<1> DEFINE n == Cardinality(s.visited)
           index == [s.index EXCEPT ![c] = n]
           low == [s.low EXCEPT ![c] = n]
           left == [todo EXCEPT ![c] = {d \in Bead : <<c, d>> \in E}]
           stack == <<c>> \o s.stack
           work == <<c>> \o s.work
           visited == s.visited \cup {c}
<1>1. s \in States /\ Typed(s) /\ c \in Bead
  BY StateTypes DEF Numbered
<1>2. n \in Nat /\ Cardinality(visited) = n + 1
  <2>1. s.visited \in SUBSET Bead /\ IsFiniteSet(Bead)
    BY <1>1, LanesAssumption DEF Typed
  <2>2. IsFiniteSet(s.visited)
    BY <2>1, FS_Subset
  <2> QED
    BY <2>2, FS_CardinalityType, FS_AddElement
<1>3. t = [s EXCEPT !.visited = visited, !.index = index, !.low = low, !.todo = left,
                    !.stack = stack, !.work = work]
  BY <1>1 DEF Enters, States
<1>4. /\ index \in [Bead -> Nat] /\ index[c] = n
      /\ low \in [Bead -> Nat] /\ low[c] = n
      /\ left \in [Bead -> SUBSET Bead] /\ left[c] = {d \in Bead : <<c, d>> \in E}
      /\ \A x \in Bead \ {c} : index[x] = s.index[x] /\ low[x] = s.low[x] /\ left[x] = todo[x]
  <2> HIDE DEF n
  <2> QED
    BY <1>1, <1>2 DEF Typed
<1>5. visited \subseteq Bead
  BY <1>1 DEF Typed
<1>6. \A x \in s.visited : index[x] = s.index[x] /\ index[x] < n
  BY <1>1, <1>4 DEF Typed, Numbered
<1>7. /\ stack \in Seq(Bead) /\ Range(stack) = {c} \cup On(s) /\ Falls(stack, index)
  <2>1. s.stack \in Seq(Bead) /\ Range(s.stack) \subseteq s.visited /\ Falls(s.stack, s.index)
    BY <1>1 DEF Typed, Numbered, On
  <2> HIDE DEF index, n
  <2> PICK q : q = s.stack
    OBVIOUS
  <2>2. \A x \in Range(q) : index[x] = s.index[x] /\ index[x] < index[c]
    BY <1>4, <1>6, <2>1
  <2>4. q \in Seq(Bead) /\ Falls(q, s.index)
    BY <2>1
  <2>5. Falls(q, index)
    BY <2>2, <2>4, FallsSame
  <2>3. <<c>> \o q \in Seq(Bead) /\ Range(<<c>> \o q) = {c} \cup Range(q) /\ Falls(<<c>> \o q, index)
    BY <1>1, <2>2, <2>4, <2>5, PushHolds
  <2> QED
    BY <2>3 DEF On
<1>8. /\ work \in Seq(Bead) /\ Range(work) = {c} \cup Open(s) /\ Falls(work, index)
      /\ Len(s.work) \in Nat /\ Len(work) = Len(s.work) + 1
  <2>1. s.work \in Seq(Bead) /\ Range(s.work) \subseteq s.visited /\ Falls(s.work, s.index)
    BY <1>1 DEF Typed, Numbered, Open
  <2> HIDE DEF index, n
  <2> PICK q : q = s.work
    OBVIOUS
  <2>2. \A x \in Range(q) : index[x] = s.index[x] /\ index[x] < index[c]
    BY <1>4, <1>6, <2>1
  <2>4. q \in Seq(Bead) /\ Falls(q, s.index)
    BY <2>1
  <2>5. Falls(q, index)
    BY <2>2, <2>4, FallsSame
  <2>3. /\ <<c>> \o q \in Seq(Bead) /\ Range(<<c>> \o q) = {c} \cup Range(q)
        /\ Falls(<<c>> \o q, index) /\ Len(<<c>> \o q) = Len(q) + 1 /\ Len(q) \in Nat
    BY <1>1, <2>2, <2>4, <2>5, PushHolds
  <2> QED
    BY <2>3 DEF Open
<1> HIDE DEF index, low, left, stack, work, visited
<1>9. /\ t \in States
      /\ t.visited = visited /\ t.index = index /\ t.low = low /\ t.todo = left
      /\ t.stack = stack /\ t.work = work /\ t.members = s.members
  BY <1>1, <1>3, <1>4, <1>5, <1>7, <1>8 DEF States
<1>10. visited = s.visited \cup {c}
  BY DEF visited
<1>11. On(t) = On(s) \cup {c} /\ Open(t) = Open(s) \cup {c} /\ Done(t) = Done(s)
  BY <1>7, <1>8, <1>9, <1>10 DEF On, Open, Done
<1> QED
  BY <1>2, <1>4, <1>7, <1>8, <1>9, <1>10, <1>11 DEF AfterEnter

\* A new node comes last and has looked at nothing; all of the work leads to it.
LEMMA EntersKeeps ==
    ASSUME NEW E, NEW N, N \subseteq Bead, NEW s, TarjanInv(s, E, N),
           NEW c \in N, c \notin s.visited, \A u \in Open(s) : c \in Reach(E, u),
           NEW todo \in [Bead -> SUBSET Bead],
           \A x \in Bead : todo[x] \subseteq s.todo[x] /\ s.todo[x] \subseteq todo[x] \cup {c},
           NEW t, t = Enters([s EXCEPT !.todo = todo], c, E)
    PROVE  TarjanInv(t, E, N)
<1> DEFINE n == Cardinality(s.visited)
<1>1. /\ s \in States /\ c \in Bead /\ On(s) \subseteq Bead /\ Open(s) \subseteq On(s)
      /\ On(s) \subseteq s.visited /\ s.visited \subseteq Bead /\ s.visited \subseteq N
      /\ \A x \in Bead : s.index[x] \in Nat /\ s.low[x] \in Nat
      /\ \A x \in s.visited : s.index[x] < n
      /\ \A x, y \in s.visited : s.index[x] = s.index[y] => x = y
  BY StateTypes DEF TarjanInv, Numbered, Typed
<1>2. AfterEnter(s, todo, c, E, t)
  BY EntersIs DEF TarjanInv
<1> HIDE DEF n
<1>3. /\ t \in States
      /\ t.visited = s.visited \cup {c} /\ t.members = s.members
      /\ On(t) = On(s) \cup {c} /\ Open(t) = Open(s) \cup {c} /\ Done(t) = Done(s)
      /\ n \in Nat /\ Cardinality(t.visited) = n + 1
      /\ t.index[c] = n /\ t.low[c] = n
      /\ t.todo[c] = {d \in Bead : <<c, d>> \in E}
      /\ \A x \in Bead \ {c} : t.index[x] = s.index[x] /\ t.low[x] = s.low[x] /\ t.todo[x] = todo[x]
      /\ Falls(t.stack, t.index) /\ Falls(t.work, t.index)
  BY <1>2 DEF AfterEnter, n
<1>4. \A x \in s.visited : /\ x \in Bead \ {c} /\ t.index[x] = s.index[x] /\ t.index[x] < n
                           /\ t.low[x] = s.low[x] /\ t.todo[x] = todo[x] /\ t.index[x] \in Nat
  BY <1>1, <1>3
<1>5. Numbered(t, N)
  <2>1. \A x \in t.visited : t.index[x] < Cardinality(t.visited)
    BY <1>1, <1>3, <1>4
  <2>2. \A x, y \in t.visited : t.index[x] = t.index[y] => x = y
    BY <1>1, <1>3, <1>4
  <2> QED
    BY <1>1, <1>3, <2>1, <2>2 DEF Numbered
<1>6. Looked(t, E)
  <2>1. ASSUME NEW x \in s.visited, NEW d \in Bead, <<x, d>> \in E
        PROVE  d \in t.todo[x] \/ d \in t.visited
    BY <1>1, <1>3, <1>4, <2>1 DEF TarjanInv, Looked
  <2>2. \A d \in Bead : <<c, d>> \in E => d \in t.todo[c]
    BY <1>3
  <2>3. \A x \in s.visited \ Open(s) : t.todo[x] = {}
    BY <1>1, <1>4 DEF TarjanInv, Looked
  <2>4. \A x \in s.visited : \A d \in t.todo[x] : <<x, d>> \in E
    BY <1>1, <1>4 DEF TarjanInv, Looked
  <2> QED
    BY <1>3, <2>1, <2>2, <2>3, <2>4 DEF Looked
<1>7. DoneStays(t, E) /\ Found(t, E)
  BY <1>3 DEF TarjanInv, DoneStays, Found
<1>8. LowReached(t, E)
  <2> SUFFICES ASSUME NEW x \in On(t)
               PROVE  /\ t.low[x] <= t.index[x]
                      /\ \E y \in On(t) : t.low[x] = t.index[y] /\ (y = x \/ y \in Reach(E, x))
    BY DEF LowReached
  <2>1. CASE x = c
    BY <1>3, <2>1
  <2>2. CASE x \in On(s)
    <3>1. s.low[x] <= s.index[x]
      BY <2>2 DEF TarjanInv, LowReached
    <3>2. PICK y \in On(s) : s.low[x] = s.index[y] /\ (y = x \/ y \in Reach(E, x))
      BY <2>2 DEF TarjanInv, LowReached
    <3>3. t.index[y] = s.index[y] /\ t.index[x] = s.index[x] /\ t.low[x] = s.low[x]
      BY <1>1, <1>4, <2>2
    <3> QED
      BY <1>3, <3>1, <3>2, <3>3
  <2> QED
    BY <1>3, <2>1, <2>2
<1>9. LowSeen(t, E)
  <2> SUFFICES ASSUME NEW x \in On(t), NEW d \in On(t), <<x, d>> \in E, d \notin t.todo[x]
               PROVE  t.low[x] <= t.index[d]
    BY DEF LowSeen
  <2>1. x # c
    BY <1>1, <1>3
  <2>2. x \in On(s) /\ t.low[x] = s.low[x] /\ t.todo[x] = todo[x] /\ s.low[x] \in Nat
    BY <1>1, <1>3, <1>4, <2>1
  <2>3. CASE d = c
    <3>1. s.low[x] <= s.index[x] /\ s.index[x] < n /\ s.index[x] \in Nat
      BY <1>1, <2>2 DEF TarjanInv, LowReached
    <3> QED
      BY <1>3, <2>2, <2>3, <3>1
  <2>4. CASE d \in On(s)
    <3>1. d # c
      BY <1>1, <2>4
    <3>2. d \notin s.todo[x]
      BY <1>1, <2>2, <3>1
    <3>3. s.low[x] <= s.index[d]
      BY <2>2, <2>4, <3>2 DEF TarjanInv, LowSeen
    <3> QED
      BY <1>1, <1>4, <2>2, <2>4, <3>3
  <2> QED
    BY <1>3, <2>3, <2>4
<1>10. LowGathered(t)
  <2> SUFFICES ASSUME NEW u \in Open(t), NEW x \in On(t), t.index[u] <= t.index[x],
                      \A w \in Open(t) : t.index[w] <= t.index[u] \/ t.index[x] < t.index[w]
               PROVE  t.low[u] <= t.low[x]
    BY DEF LowGathered
  <2>1. CASE u = c
    <3>1. x = c
      BY <1>1, <1>3, <1>4, <2>1
    <3> QED
      BY <1>3, <2>1, <3>1
  <2>2. CASE u \in Open(s) /\ x = c
    <3>1. c \in Open(t) /\ t.index[u] < n /\ t.index[u] \in Nat
      BY <1>1, <1>3, <1>4, <2>2
    <3> QED
      BY <1>3, <2>2, <3>1
  <2>3. CASE u \in Open(s) /\ x \in On(s)
    <3>1. /\ t.index[u] = s.index[u] /\ t.index[x] = s.index[x]
          /\ t.low[u] = s.low[u] /\ t.low[x] = s.low[x]
      BY <1>1, <1>4, <2>3
    <3>2. \A w \in Open(s) : t.index[w] = s.index[w] /\ w \in Open(t)
      BY <1>1, <1>3, <1>4
    <3>3. \A w \in Open(s) : s.index[w] <= s.index[u] \/ s.index[x] < s.index[w]
      BY <3>1, <3>2
    <3> QED
      BY <2>3, <3>1, <3>3 DEF TarjanInv, LowGathered
  <2> QED
    BY <1>3, <2>1, <2>2, <2>3
<1>11. Descended(t, E)
  <2> SUFFICES ASSUME NEW u \in Open(t), NEW x \in On(t), t.index[u] < t.index[x]
               PROVE  x \in Reach(E, u)
    BY DEF Descended
  <2>1. u # c
    BY <1>1, <1>3, <1>4
  <2>2. u \in Open(s)
    BY <1>3, <2>1
  <2>3. CASE x = c
    BY <2>2, <2>3
  <2>4. CASE x \in On(s)
    BY <1>1, <1>4, <2>2, <2>4 DEF TarjanInv, Descended
  <2> QED
    BY <1>3, <2>3, <2>4
<1>12. Held(t)
  <2> SUFFICES ASSUME NEW x \in On(s) \ Open(s)
               PROVE  t.low[x] < t.index[x] /\ \E u \in Open(t) : t.index[u] < t.index[x]
    BY <1>3 DEF Held
  <2>1. s.low[x] < s.index[x]
    BY DEF TarjanInv, Held
  <2>2. PICK u \in Open(s) : s.index[u] < s.index[x]
    BY DEF TarjanInv, Held
  <2>3. t.index[u] = s.index[u] /\ t.index[x] = s.index[x] /\ t.low[x] = s.low[x] /\ u \in Open(t)
    BY <1>1, <1>3, <1>4
  <2> QED
    BY <2>1, <2>2, <2>3
<1> QED
  BY <1>5, <1>6, <1>7, <1>8, <1>9, <1>10, <1>11, <1>12 DEF TarjanInv

--------------------------------------------------------------------------------
(* A node that is done.                                                     *)

\* The nodes from v up the stack.
Above(s, v) == {x \in On(s) : s.index[v] <= s.index[x]}

AfterLeave(s, v, E, t) ==
    /\ t \in States
    /\ t.visited = s.visited /\ t.index = s.index /\ t.todo = s.todo
    /\ Open(t) = {x \in Open(s) : s.index[x] < s.index[v]}
    /\ \A x \in Bead : /\ t.low[x] <= s.low[x]
                       /\ t.low[x] = s.low[x] \/ (x \in Open(t) /\ t.low[x] = s.low[v])
    /\ \A x \in Open(t) : (\A u \in Open(t) : s.index[u] <= s.index[x]) => t.low[x] <= s.low[v]
    /\ IF s.low[v] = s.index[v]
       THEN /\ On(t) = {x \in On(s) : s.index[x] < s.index[v]}
            /\ t.members = s.members \cup (IF Cyclic(Above(s, v), v, E) THEN Above(s, v) ELSE {})
       ELSE On(t) = On(s) /\ t.members = s.members
    /\ Falls(t.stack, s.index) /\ Falls(t.work, s.index)
    /\ Len(s.work) \in Nat /\ Len(t.work) = Len(s.work) - 1

\* The parent hears of the low link of its child.
Heard(low, index, v, below, new) ==
    /\ new \in [Bead -> Nat]
    /\ \A x \in Bead : /\ new[x] <= low[x]
                       /\ new[x] = low[x] \/ (x \in Range(below) /\ new[x] = low[v])
    /\ \A x \in Range(below) :
          (\A u \in Range(below) : index[u] <= index[x]) => new[x] <= low[v]

LEMMA Lowered ==
    ASSUME NEW low \in [Bead -> Nat], NEW index \in [Bead -> Nat], NEW v \in Bead,
           NEW below \in Seq(Bead), Falls(below, index)
    PROVE  Heard(low, index, v, below, Hears(low, below, v))
<1> SUFFICES ASSUME NEW new, new = Hears(low, below, v)
             PROVE  Heard(low, index, v, below, new)
  OBVIOUS
<1>1. CASE below = <<>>
  <2>1. Range(below) = {}
    BY <1>1, RangeIs
  <2> QED
    BY <1>1, <2>1 DEF Heard, Hears
<1>2. CASE below # <<>>
  <2> DEFINE p == Head(below)
  <2>1. p \in Range(below) /\ \A x \in Range(below) : x = p \/ index[x] < index[p]
    BY <1>2, PopHolds
  <2>2. Range(below) \subseteq Bead
    BY RangeIs
  <2> HIDE DEF p
  <2>3. new = [low EXCEPT ![p] = Smaller(low[p], low[v])]
    BY <1>2 DEF Hears, p
  <2>4. low[p] \in Nat /\ low[v] \in Nat
    BY <2>1, <2>2
  <2>5. /\ new[p] \in Nat /\ new[p] <= low[p] /\ new[p] <= low[v]
        /\ new[p] = low[p] \/ new[p] = low[v]
    BY <2>1, <2>2, <2>3, <2>4, SmallerHolds
  <2>6. \A x \in Bead : x # p => new[x] = low[x] /\ low[x] <= low[x]
    BY <2>3
  <2>7. new \in [Bead -> Nat]
    BY <2>3, <2>4, SmallerHolds
  <2>8. ASSUME NEW x \in Range(below), \A u \in Range(below) : index[u] <= index[x]
        PROVE  x = p
    <3>1. index[p] <= index[x] /\ index[p] \in Nat /\ index[x] \in Nat
      BY <2>1, <2>2, <2>8
    <3> QED
      BY <2>1, <3>1
  <2> QED
    BY <2>1, <2>5, <2>6, <2>7, <2>8 DEF Heard
<1> QED
  BY <1>1, <1>2

LEMMA LeavesIs ==
    ASSUME NEW E, NEW N, NEW s, Numbered(s, N), s.work # <<>>,
           NEW t, t = Leaves(s, E)
    PROVE  AfterLeave(s, Head(s.work), E, t)
<1> DEFINE v == Head(s.work)
           below == Tail(s.work)
           end == Leaving(s, v)
           comp == Range(SubSeq(s.stack, 1, end))
           low == Hears(s.low, below, v)
           stack == SubSeq(s.stack, end + 1, Len(s.stack))
           members == IF Cyclic(comp, v, E) THEN s.members \cup comp ELSE s.members
<1>1. s \in States /\ Typed(s) /\ OnTop(s, v)
  BY StateTypes, TopHolds DEF Numbered
<1>2. /\ v \in Open(s) /\ v \in On(s) /\ v \in Bead /\ On(s) \subseteq Bead
      /\ s.stack \in Seq(Bead) /\ Falls(s.stack, s.index) /\ s.index \in [Bead -> Nat]
      /\ s.low \in [Bead -> Nat] /\ s.members \subseteq Bead
      /\ below \in Seq(Bead) /\ Falls(below, s.index)
  BY <1>1 DEF Typed, OnTop, Numbered
<1>3. t = [s EXCEPT !.work = below, !.low = low, !.stack = stack, !.members = members]
  BY DEF Leaves
<1> HIDE DEF below, v
<1>4. Heard(s.low, s.index, v, below, low)
  BY <1>2, Lowered
<1> HIDE DEF low
<1>5. CASE s.low[v] = s.index[v]
  <2>1. end \in 1..Len(s.stack) /\ s.stack[end] = v
    <3> DEFINE I == {i \in 1..Len(s.stack) : s.stack[i] = v}
    <3>1. I \subseteq Nat /\ I # {}
      <4> PICK q : q = s.stack
        OBVIOUS
      <4>1. q \in Seq(Bead) /\ v \in Range(q)
        BY <1>2 DEF On
      <4>2. \E i \in 1..Len(q) : q[i] = v
        BY <4>1, RangeIs
      <4> QED
        BY <4>2
    <3>2. end = Least(I)
      BY <1>5, <3>1 DEF Leaving, SelectInSeq, Min, Least
    <3>3. Least(I) \in I
      <4> HIDE DEF I
      <4> QED
        BY <3>1, LeastHolds
    <3> QED
      BY <3>2, <3>3
  <2> HIDE DEF end
  <2> PICK q : q = s.stack
    OBVIOUS
  <2> PICK index : index = s.index
    OBVIOUS
  <2> PICK e : e = end
    OBVIOUS
  <2>2. q \in Seq(Bead) /\ Falls(q, index) /\ index \in [Bead -> Nat] /\ e \in 1..Len(q) /\ q[e] = v
    BY <1>2, <2>1
  <2>3. /\ Range(SubSeq(q, 1, e)) = {x \in Range(q) : index[q[e]] <= index[x]}
        /\ Under(SubSeq(q, e + 1, Len(q)), q, q[e], index)
        /\ SubSeq(q, e + 1, Len(q)) \in Seq(Bead)
    BY <2>2, CutHolds
  <2>4. comp = Above(s, v)
    BY <2>2, <2>3 DEF Above, On
  <2>5. /\ stack \in Seq(Bead) /\ Falls(stack, s.index)
        /\ Range(stack) = {x \in On(s) : s.index[x] < s.index[v]}
    BY <2>2, <2>3 DEF Under, On
  <2>6. members \subseteq Bead
    BY <1>2, <2>4 DEF Above
  <2>7. members = s.members \cup (IF Cyclic(Above(s, v), v, E) THEN Above(s, v) ELSE {})
    BY <2>4
  <2> HIDE DEF stack, members
  <2>8. /\ t \in States
        /\ t.visited = s.visited /\ t.index = s.index /\ t.todo = s.todo
        /\ t.work = below /\ t.low = low /\ t.stack = stack /\ t.members = members
    BY <1>1, <1>2, <1>3, <1>4, <2>5, <2>6 DEF States, Heard, Typed
  <2>9. Open(t) = Range(below) /\ On(t) = Range(stack)
    BY <2>8 DEF Open, On
  <2> QED
    BY <1>1, <1>4, <1>5, <2>5, <2>7, <2>8, <2>9 DEF AfterLeave, OnTop, Heard, below, v
<1>6. CASE s.low[v] # s.index[v]
  <2>1. end = 0
    BY <1>6 DEF Leaving
  <2>2. SubSeq(s.stack, 1, 0) = <<>>
    BY SubSeqEmpty
  <2> HIDE DEF end
  <2>3. comp = {}
    BY <2>1, <2>2 DEF Range
  <2>4. members = s.members
    <3>1. Cardinality({}) = 0 /\ ~(0 > 1) /\ {} # {v}
      BY FS_EmptySet
    <3> HIDE DEF comp
    <3> QED
      BY <2>3, <3>1 DEF Cyclic
  <2>5. stack = s.stack
    BY <1>2, <2>1, SubSeqFull
  <2> HIDE DEF stack, members
  <2>8. /\ t \in States
        /\ t.visited = s.visited /\ t.index = s.index /\ t.todo = s.todo
        /\ t.work = below /\ t.low = low /\ t.stack = s.stack /\ t.members = s.members
    BY <1>1, <1>2, <1>3, <1>4, <2>4, <2>5 DEF States, Heard, Typed
  <2>9. Open(t) = Range(below) /\ On(t) = On(s)
    BY <2>8 DEF Open, On
  <2> QED
    BY <1>1, <1>2, <1>4, <1>6, <2>8, <2>9 DEF AfterLeave, OnTop, Heard, below, v
<1> QED
  BY <1>5, <1>6

\* The low link of the top is the lowest from there up the stack.
LEMMA TopGathers ==
    ASSUME NEW E, NEW N, NEW s, TarjanInv(s, E, N), NEW v, OnTop(s, v)
    PROVE  /\ v \in Bead /\ v \in On(s) /\ v \in Above(s, v) /\ s.index[v] \in Nat /\ s.low[v] \in Nat
           /\ Above(s, v) \subseteq On(s) /\ On(s) \subseteq Bead
           /\ \A x \in Above(s, v) : /\ s.low[v] <= s.low[x] /\ x \in Bead
                                     /\ x # v => x \notin Open(s) /\ s.index[v] < s.index[x]
<1>1. /\ v \in Open(s) /\ v \in On(s) /\ On(s) \subseteq Bead /\ Open(s) \subseteq On(s)
      /\ On(s) \subseteq s.visited
      /\ \A x \in Bead : s.index[x] \in Nat /\ s.low[x] \in Nat
      /\ \A x \in Open(s) : x = v \/ s.index[x] < s.index[v]
  BY StateTypes DEF TarjanInv, Numbered, Typed, OnTop
<1>2. ASSUME NEW x \in Above(s, v)
      PROVE  s.low[v] <= s.low[x] /\ (x # v => x \notin Open(s) /\ s.index[v] < s.index[x])
  <2>1. x \in On(s) /\ s.index[v] <= s.index[x]
    BY DEF Above
  <2>2. \A w \in Open(s) : s.index[w] <= s.index[v]
    BY <1>1
  <2>3. s.low[v] <= s.low[x]
    BY <1>1, <2>1, <2>2 DEF TarjanInv, LowGathered
  <2>4. x # v => s.index[x] # s.index[v]
    BY <1>1, <2>1 DEF TarjanInv, Numbered
  <2>5. x # v => x \notin Open(s) /\ s.index[v] < s.index[x]
    BY <1>1, <2>1, <2>4
  <2> QED
    BY <2>3, <2>5
<1> QED
  BY <1>1, <1>2 DEF Above

\* What is from a root up the stack leads to the root: else take the first that does
\* not; its low link is the number of one before it, which is not below the root.
LEMMA LeadsToRoot ==
    ASSUME NEW E, NEW N, NEW s, TarjanInv(s, E, N), NEW v, OnTop(s, v),
           s.low[v] = s.index[v], NEW x \in Above(s, v)
    PROVE  x = v \/ v \in Reach(E, x)
<1> DEFINE Bad == {y \in Above(s, v) : y # v /\ v \notin Reach(E, y)}
           I == {s.index[y] : y \in Bad}
<1> SUFFICES ASSUME Bad # {} PROVE FALSE
  OBVIOUS
<1>1. /\ \A y \in Above(s, v) : y \in On(s) /\ y \in Bead /\ s.low[v] <= s.low[y]
      /\ \A y \in Above(s, v) : y # v => y \notin Open(s) /\ s.index[v] < s.index[y]
      /\ \A y \in Bead : s.index[y] \in Nat /\ s.low[y] \in Nat
      /\ On(s) \subseteq Bead
  BY TopGathers, StateTypes DEF TarjanInv, Numbered, Typed
<1>2. I \subseteq Nat /\ I # {}
  BY <1>1
<1>3. PICK y \in Bad : \A z \in Bad : s.index[y] <= s.index[z]
  <2>1. Least(I) \in I /\ \A i \in I : Least(I) <= i
    <3> HIDE DEF I
    <3> QED
      BY <1>2, LeastHolds
  <2> QED
    BY <2>1
<1>4. s.low[y] < s.index[y] /\ y \in On(s) /\ y \in Bead
  BY <1>1 DEF TarjanInv, Held
<1>5. PICK z \in On(s) : s.low[y] = s.index[z] /\ (z = y \/ z \in Reach(E, y))
  BY <1>4 DEF TarjanInv, LowReached
<1>6. z \in Bead /\ s.index[z] < s.index[y] /\ z \in Reach(E, y)
  BY <1>1, <1>4, <1>5
<1>7. z \in Above(s, v)
  BY <1>1, <1>5 DEF Above
<1>8. ~(s.index[y] <= s.index[z])
  BY <1>1, <1>4, <1>6
<1>9. z \notin Bad
  BY <1>3, <1>8
<1>10. z = v \/ v \in Reach(E, z)
  BY <1>7, <1>9
<1> QED
  BY <1>6, <1>10, ReachOn

\* A root takes with it what lies on a cycle, and nothing that does not.
LEMMA RootTakes ==
    ASSUME NEW E, NEW N, NEW s, TarjanInv(s, E, N), NEW v, OnTop(s, v),
           s.low[v] = s.index[v], s.todo[v] = {}
    PROVE  /\ \A x \in Above(s, v), c \in Bead : <<x, c>> \in E => c \in Done(s) \cup Above(s, v)
           /\ \A x \in Above(s, v) : x \in Reach(E, x) <=> Cyclic(Above(s, v), v, E)
<1> DEFINE A == Above(s, v)
<1>1. /\ v \in Bead /\ v \in On(s) /\ v \in A /\ A \subseteq On(s) /\ On(s) \subseteq Bead
      /\ On(s) \subseteq s.visited /\ s.visited \subseteq Bead
      /\ \A x \in A : s.low[v] <= s.low[x] /\ (x # v => x \notin Open(s) /\ s.index[v] < s.index[x])
      /\ \A y \in Bead : s.index[y] \in Nat /\ s.low[y] \in Nat
      /\ v \in Open(s)
  BY TopGathers, StateTypes DEF TarjanInv, Numbered, Typed, OnTop
<1>2. ASSUME NEW x \in A, NEW c \in Bead, <<x, c>> \in E
      PROVE  c \in Done(s) \cup A
  <2>1. s.todo[x] = {}
    BY <1>1 DEF TarjanInv, Looked
  <2>2. c \in s.visited
    BY <1>1, <1>2, <2>1 DEF TarjanInv, Looked
  <2>3. CASE c \in On(s)
    <3>1. s.low[x] <= s.index[c]
      BY <1>1, <1>2, <2>1, <2>3 DEF TarjanInv, LowSeen
    <3>2. s.index[v] <= s.index[c]
      <4>1. s.low[v] <= s.low[x] /\ s.low[x] \in Nat /\ s.index[c] \in Nat /\ s.index[v] \in Nat
        BY <1>1
      <4> QED
        BY <3>1, <4>1
    <3> QED
      BY <2>3, <3>2 DEF Above
  <2> QED
    BY <2>2, <2>3 DEF Done
<1>3. \A x \in A : x # v => v \in Reach(E, x) /\ x \in Reach(E, v)
  <2> SUFFICES ASSUME NEW x \in A, x # v PROVE v \in Reach(E, x) /\ x \in Reach(E, v)
    OBVIOUS
  <2>1. v \in Reach(E, x)
    BY LeadsToRoot
  <2>2. x \in Reach(E, v)
    BY <1>1 DEF TarjanInv, Descended
  <2> QED
    BY <2>1, <2>2
<1>4. IsFiniteSet(A)
  <2>1. A \in SUBSET Bead /\ IsFiniteSet(Bead)
    BY <1>1, LanesAssumption
  <2> HIDE DEF A
  <2> QED
    BY <2>1, FS_Subset
<1> HIDE DEF A
<1>5. CASE A = {v}
  <2>1. Cardinality(A) = 1 /\ ~(Cardinality(A) > 1)
    BY <1>5, FS_Singleton
  <2>2. <<v, v>> \in E => v \in Reach(E, v)
    BY <1>1, ReachSteps
  <2>3. ASSUME <<v, v>> \notin E PROVE v \notin Reach(E, v)
    <3>1. \A c \in Bead : <<v, c>> \in E => c \in Done(s)
      BY <1>2, <1>5, <2>3
    <3>2. \A c \in Bead, y \in {v} \cup Done(s) : <<y, c>> \in E => c \in Done(s)
      BY <3>1 DEF TarjanInv, DoneStays
    <3>3. Reach(E, v) \subseteq Done(s)
      BY <3>2, ReachWithin, Zenon
    <3> QED
      BY <1>1, <3>3 DEF Done
  <2> QED
    BY <1>2, <1>5, <2>1, <2>2, <2>3 DEF Cyclic, A
<1>6. CASE A # {v}
  <2>1. PICK y \in A : y # v
    BY <1>1, <1>6
  <2>2. Cardinality(A) > 1
    <3>1. {v} \in SUBSET A /\ Cardinality({v}) = 1
      BY <1>1, FS_Singleton
    <3>2. 1 <= Cardinality(A) /\ Cardinality(A) # 1
      BY <1>4, <1>6, <3>1, FS_Subset
    <3> QED
      BY <1>4, <3>2, FS_CardinalityType
  <2>3. v \in Reach(E, v)
    BY <1>3, <2>1, ReachOn
  <2>4. \A x \in A : x \in Reach(E, x)
    BY <1>3, <2>3, ReachOn
  <2> QED
    BY <1>2, <2>2, <2>4 DEF Cyclic, A
<1> QED
  BY <1>5, <1>6

\* What a node that is done leaves behind.
LEMMA LeavesKeeps ==
    ASSUME NEW E, NEW N, NEW s, TarjanInv(s, E, N), s.work # <<>>,
           NEW v, v = Head(s.work), s.todo[v] = {}, NEW t, t = Leaves(s, E)
    PROVE  TarjanInv(t, E, N)
<1>1. Numbered(s, N) /\ OnTop(s, v) /\ AfterLeave(s, v, E, t)
  BY TopHolds, LeavesIs DEF TarjanInv
<1>2. /\ s \in States /\ v \in Open(s) /\ v \in On(s) /\ v \in s.visited /\ v \in Bead
      /\ On(s) \subseteq Bead /\ Open(s) \subseteq On(s) /\ On(s) \subseteq s.visited
      /\ s.visited \subseteq Bead
      /\ \A x \in Bead : s.index[x] \in Nat /\ s.low[x] \in Nat
      /\ \A x \in Open(s) : x = v \/ s.index[x] < s.index[v]
  BY <1>1, StateTypes DEF Numbered, Typed, OnTop
<1>3. /\ t \in States
      /\ t.visited = s.visited /\ t.index = s.index /\ t.todo = s.todo
      /\ Open(t) = {x \in Open(s) : s.index[x] < s.index[v]}
      /\ \A x \in Bead : /\ t.low[x] <= s.low[x]
                         /\ t.low[x] = s.low[x] \/ (x \in Open(t) /\ t.low[x] = s.low[v])
      /\ \A x \in Open(t) :
            (\A u \in Open(t) : s.index[u] <= s.index[x]) => t.low[x] <= s.low[v]
      /\ Falls(t.stack, s.index) /\ Falls(t.work, s.index)
  BY <1>1 DEF AfterLeave
<1>4. /\ s.low[v] = s.index[v] => On(t) = {x \in On(s) : s.index[x] < s.index[v]}
      /\ s.low[v] # s.index[v] => On(t) = On(s)
      /\ On(t) \subseteq On(s) /\ Open(t) \subseteq On(t) /\ Open(t) \subseteq Open(s)
      /\ \A x \in On(s) : s.index[x] < s.index[v] => x \in On(t)
      /\ \A x \in Open(s) : x = v \/ x \in Open(t)
  <2>1. /\ s.low[v] = s.index[v] => On(t) = {x \in On(s) : s.index[x] < s.index[v]}
        /\ s.low[v] # s.index[v] => On(t) = On(s)
    BY <1>1 DEF AfterLeave
  <2> QED
    BY <1>2, <1>3, <2>1
<1>5. \A x \in Bead : t.low[x] \in Nat
  BY <1>3, StateTypes DEF Typed
<1>6. Numbered(t, N)
  BY <1>1, <1>3, <1>4 DEF Numbered
<1>7. Looked(t, E)
  BY <1>3, <1>4 DEF TarjanInv, Looked
<1>8. LowReached(t, E)
  <2> SUFFICES ASSUME NEW x \in On(t)
               PROVE  /\ t.low[x] <= s.index[x]
                      /\ \E y \in On(t) : t.low[x] = s.index[y] /\ (y = x \/ y \in Reach(E, x))
    BY <1>3 DEF LowReached
  <2>1. s.low[x] <= s.index[x] /\ x \in Bead /\ x \in On(s)
    BY <1>2, <1>4 DEF TarjanInv, LowReached
  <2>2. t.low[x] <= s.index[x]
    BY <1>2, <1>3, <1>5, <2>1
  <2>3. CASE t.low[x] = s.low[x]
    <3>1. PICK y \in On(s) : s.low[x] = s.index[y] /\ (y = x \/ y \in Reach(E, x))
      BY <2>1 DEF TarjanInv, LowReached
    <3>2. y \in On(t)
      <4>1. CASE s.low[v] = s.index[v]
        <5>1. s.index[x] < s.index[v]
          BY <1>4, <4>1
        <5>2. s.index[y] < s.index[v]
          BY <1>2, <2>1, <3>1, <5>1
        <5> QED
          BY <1>4, <5>2
      <4> QED
        BY <1>4, <4>1
    <3> QED
      BY <2>2, <2>3, <3>1, <3>2
  <2>4. CASE x \in Open(t) /\ t.low[x] = s.low[v]
    <3>1. s.index[x] < s.index[v] /\ x \in Open(s)
      BY <1>3, <2>4
    <3>2. v \in Reach(E, x)
      BY <1>2, <3>1 DEF TarjanInv, Descended
    <3>3. PICK y \in On(s) : s.low[v] = s.index[y] /\ (y = v \/ y \in Reach(E, v))
      BY <1>2 DEF TarjanInv, LowReached
    <3>4. y \in Reach(E, x)
      BY <3>2, <3>3, ReachOn
    <3>5. s.low[v] # s.index[v]
      BY <1>2, <2>1, <2>2, <2>4, <3>1
    <3> QED
      BY <1>4, <2>2, <2>4, <3>3, <3>4, <3>5
  <2> QED
    BY <1>3, <2>1, <2>3, <2>4
<1>9. LowSeen(t, E)
  <2> SUFFICES ASSUME NEW x \in On(t), NEW c \in On(t), <<x, c>> \in E, c \notin s.todo[x]
               PROVE  t.low[x] <= s.index[c]
    BY <1>3 DEF LowSeen
  <2>1. s.low[x] <= s.index[c]
    BY <1>4 DEF TarjanInv, LowSeen
  <2>2. t.low[x] <= s.low[x] /\ t.low[x] \in Nat /\ s.low[x] \in Nat /\ s.index[c] \in Nat
    BY <1>2, <1>3, <1>4, <1>5
  <2> QED
    BY <2>1, <2>2
<1>10. LowGathered(t)
  <2> SUFFICES ASSUME NEW u \in Open(t), NEW x \in On(t), s.index[u] <= s.index[x],
                      \A w \in Open(t) : s.index[w] <= s.index[u] \/ s.index[x] < s.index[w]
               PROVE  t.low[u] <= t.low[x]
    BY <1>3 DEF LowGathered
  <2>1. /\ u \in Bead /\ x \in Bead /\ u \in Open(s) /\ x \in On(s)
        /\ s.index[u] \in Nat /\ s.index[x] \in Nat /\ s.index[v] \in Nat
        /\ s.low[u] \in Nat /\ s.low[x] \in Nat /\ t.low[u] \in Nat /\ t.low[x] \in Nat
        /\ t.low[u] <= s.low[u] /\ s.index[u] < s.index[v] /\ s.low[v] \in Nat
    BY <1>2, <1>3, <1>4, <1>5
  <2>2. CASE x \in Open(t)
    <3>1. s.index[x] = s.index[u]
      BY <2>1, <2>2
    <3>2. x = u
      BY <1>1, <1>2, <2>1, <3>1 DEF Numbered
    <3> QED
      BY <2>1, <3>2
  <2>3. CASE t.low[x] = s.low[x] /\ s.index[x] < s.index[v]
    <3>1. \A w \in Open(s) : s.index[w] <= s.index[u] \/ s.index[x] < s.index[w]
      BY <1>4, <2>3
    <3>2. s.low[u] <= s.low[x]
      BY <2>1, <3>1 DEF TarjanInv, LowGathered
    <3> QED
      BY <2>1, <2>3, <3>2
  <2>4. CASE t.low[x] = s.low[x] /\ s.index[v] <= s.index[x]
    <3>1. \A w \in Open(t) : s.index[w] <= s.index[u]
      <4> SUFFICES ASSUME NEW w \in Open(t) PROVE s.index[w] <= s.index[u]
        OBVIOUS
      <4>1. s.index[w] < s.index[v] /\ s.index[w] \in Nat
        BY <1>2, <1>3, <1>4
      <4>2. ~(s.index[x] < s.index[w])
        BY <2>1, <2>4, <4>1
      <4> QED
        BY <4>2
    <3>2. t.low[u] <= s.low[v]
      BY <1>3, <3>1
    <3>3. x \in Above(s, v)
      BY <2>1, <2>4 DEF Above
    <3>4. s.low[v] <= s.low[x]
      BY <1>1, <3>3, TopGathers
    <3> QED
      BY <2>1, <2>4, <3>2, <3>4
  <2>5. s.index[x] < s.index[v] \/ s.index[v] <= s.index[x]
    BY <2>1
  <2> QED
    BY <1>3, <2>1, <2>2, <2>3, <2>4, <2>5
<1>11. Descended(t, E)
  BY <1>3, <1>4 DEF TarjanInv, Descended
<1>12. Held(t)
  <2> SUFFICES ASSUME NEW x \in On(t), x \notin Open(t)
               PROVE  t.low[x] < s.index[x] /\ \E u \in Open(t) : s.index[u] < s.index[x]
    BY <1>3 DEF Held
  <2>1. /\ x \in On(s) /\ x \in Bead /\ t.low[x] = s.low[x]
        /\ s.index[x] \in Nat /\ s.low[x] \in Nat /\ s.index[v] \in Nat /\ s.low[v] \in Nat
    BY <1>2, <1>3, <1>4
  <2>2. ASSUME s.low[v] # s.index[v]
        PROVE  s.low[v] < s.index[v] /\ \E u \in Open(t) : s.index[u] < s.index[v]
    <3>1. s.low[v] <= s.index[v]
      BY <1>2 DEF TarjanInv, LowReached
    <3>2. s.low[v] < s.index[v]
      BY <2>1, <2>2, <3>1
    <3>3. PICK y \in On(s) : s.low[v] = s.index[y]
      BY <1>2 DEF TarjanInv, LowReached
    <3>4. s.index[y] < s.index[v]
      BY <3>2, <3>3
    <3>5. CASE y \in Open(s)
      BY <1>3, <3>2, <3>4, <3>5
    <3>6. CASE y \notin Open(s)
      <4>1. PICK u \in Open(s) : s.index[u] < s.index[y]
        BY <3>6 DEF TarjanInv, Held
      <4>2. s.index[u] < s.index[v]
        BY <1>2, <3>4, <4>1
      <4> QED
        BY <1>3, <3>2, <4>2
    <3> QED
      BY <3>5, <3>6
  <2>3. CASE x = v
    <3>1. s.low[v] # s.index[v]
      BY <1>4, <2>1, <2>3
    <3> QED
      BY <2>1, <2>2, <2>3, <3>1
  <2>4. CASE x # v
    <3>1. x \notin Open(s)
      BY <1>4, <2>4
    <3>2. s.low[x] < s.index[x]
      BY <2>1, <3>1 DEF TarjanInv, Held
    <3>3. PICK u \in Open(s) : s.index[u] < s.index[x]
      BY <2>1, <3>1 DEF TarjanInv, Held
    <3>4. CASE u \in Open(t)
      BY <2>1, <3>2, <3>3, <3>4
    <3>5. CASE u = v
      <4>1. s.low[v] # s.index[v]
        <5>1. s.low[v] = s.index[v] => s.index[x] < s.index[v]
          BY <1>4
        <5> QED
          BY <2>1, <3>3, <3>5, <5>1
      <4>2. PICK w \in Open(t) : s.index[w] < s.index[v]
        BY <2>2, <4>1
      <4>3. s.index[w] < s.index[x]
        BY <1>2, <1>4, <2>1, <3>3, <3>5, <4>2
      <4> QED
        BY <2>1, <3>2, <4>3
    <3> QED
      BY <1>4, <3>4, <3>5
  <2> QED
    BY <2>3, <2>4
<1>13. DoneStays(t, E) /\ Found(t, E)
  <2>1. CASE s.low[v] # s.index[v]
    <3>1. Done(t) = Done(s) /\ t.members = s.members
      BY <1>1, <1>3, <1>4, <2>1 DEF AfterLeave, Done
    <3> QED
      BY <3>1 DEF TarjanInv, DoneStays, Found
  <2>2. CASE s.low[v] = s.index[v]
    <3>1. t.members = s.members \cup (IF Cyclic(Above(s, v), v, E) THEN Above(s, v) ELSE {})
      BY <1>1, <2>2 DEF AfterLeave
    <3>2. Done(t) = Done(s) \cup Above(s, v)
      BY <1>2, <1>3, <1>4, <2>2 DEF Done, Above
    <3>3. \A x \in Above(s, v), c \in Bead : <<x, c>> \in E => c \in Done(s) \cup Above(s, v)
      BY <1>1, <2>2, RootTakes
    <3>4. \A x \in Above(s, v) : x \in Reach(E, x) <=> Cyclic(Above(s, v), v, E)
      BY <1>1, <2>2, RootTakes
    <3>5. DoneStays(t, E)
      BY <3>2, <3>3 DEF TarjanInv, DoneStays
    <3>6. Found(t, E)
      BY <3>1, <3>2, <3>4 DEF TarjanInv, Found
    <3> QED
      BY <3>5, <3>6
  <2> QED
    BY <2>1, <2>2
<1> QED
  BY <1>6, <1>7, <1>8, <1>9, <1>10, <1>11, <1>12, <1>13 DEF TarjanInv

--------------------------------------------------------------------------------
(* A turn, and how many are left.                                           *)

Over(s, roots) == s.work = <<>> /\ Range(roots) \subseteq s.visited

\* The edges not looked along yet.
Pending(s, E) == {e \in E : e[1] \notin s.visited \/ e[2] \in s.todo[e[1]]}
Left(s, E) ==
    2 * (Cardinality(Bead) - Cardinality(s.visited)) + Len(s.work) + Cardinality(Pending(s, E))

LEMMA LeftIs ==
    ASSUME NEW E, IsFiniteSet(E), NEW s \in States
    PROVE  /\ Cardinality(Bead) \in Nat /\ Cardinality(s.visited) \in Nat
           /\ Cardinality(s.visited) <= Cardinality(Bead)
           /\ Len(s.work) \in Nat /\ IsFiniteSet(Pending(s, E))
           /\ Cardinality(Pending(s, E)) \in Nat
           /\ Cardinality(Pending(s, E)) <= Cardinality(E)
           /\ Left(s, E) \in Nat
<1>1. s.visited \in SUBSET Bead /\ s.work \in Seq(Bead) /\ IsFiniteSet(Bead)
  BY LanesAssumption DEF States
<1>2. /\ Cardinality(Bead) \in Nat /\ Cardinality(s.visited) \in Nat
      /\ Cardinality(s.visited) <= Cardinality(Bead)
  BY <1>1, FS_Subset, FS_CardinalityType
<1>3. Len(s.work) \in Nat
  <2> PICK q : q = s.work
    OBVIOUS
  <2>1. q \in Seq(Bead)
    BY <1>1
  <2> QED
    BY <2>1
<1>4. Pending(s, E) \in SUBSET E
  BY DEF Pending
<1>5. /\ IsFiniteSet(Pending(s, E)) /\ Cardinality(Pending(s, E)) \in Nat
      /\ Cardinality(Pending(s, E)) <= Cardinality(E)
  BY <1>4, FS_Subset, FS_CardinalityType
<1> QED
  BY <1>2, <1>3, <1>5 DEF Left

\* Fewer edges left, or as many, where the ones left were left before.
LEMMA PendingFalls ==
    ASSUME NEW E, IsFiniteSet(E), NEW s \in States, NEW t,
           Pending(t, E) \subseteq Pending(s, E)
    PROVE  /\ Cardinality(Pending(t, E)) \in Nat
           /\ Cardinality(Pending(t, E)) <= Cardinality(Pending(s, E))
           /\ Pending(t, E) # Pending(s, E) =>
                Cardinality(Pending(t, E)) < Cardinality(Pending(s, E))
<1>1. IsFiniteSet(Pending(s, E)) /\ Cardinality(Pending(s, E)) \in Nat
  BY LeftIs
<1>2. Pending(t, E) \in SUBSET Pending(s, E)
  OBVIOUS
<1>3. /\ IsFiniteSet(Pending(t, E)) /\ Cardinality(Pending(t, E)) <= Cardinality(Pending(s, E))
      /\ Cardinality(Pending(t, E)) = Cardinality(Pending(s, E)) => Pending(t, E) = Pending(s, E)
  BY <1>1, <1>2, FS_Subset
<1>4. Cardinality(Pending(t, E)) \in Nat
  BY <1>3, FS_CardinalityType
<1> QED
  BY <1>1, <1>3, <1>4

\* Entering takes a node from those not visited and puts it on the work; looking
\* takes an edge away; leaving takes a node off the work.
LEMMA EnterFalls ==
    ASSUME NEW E, IsFiniteSet(E), E \subseteq Bead \X Bead, NEW s \in States, NEW todo,
           \A x \in Bead : todo[x] \subseteq s.todo[x],
           NEW c \in Bead \ s.visited, NEW t, AfterEnter(s, todo, c, E, t)
    PROVE  Left(t, E) < Left(s, E)
<1>1. /\ t \in States
      /\ t.visited = s.visited \cup {c} /\ Cardinality(t.visited) = Cardinality(s.visited) + 1
      /\ \A x \in Bead \ {c} : t.todo[x] = todo[x]
      /\ Len(t.work) = Len(s.work) + 1
  BY DEF AfterEnter
<1>2. ASSUME NEW e \in Pending(t, E) PROVE e \in Pending(s, E)
  <2>1. e \in E /\ e[1] \in Bead /\ (e[1] \notin t.visited \/ e[2] \in t.todo[e[1]])
    BY DEF Pending
  <2>2. e[1] \notin s.visited \/ e[2] \in s.todo[e[1]]
    BY <1>1, <2>1
  <2> QED
    BY <2>1, <2>2 DEF Pending
<1>3. Cardinality(Pending(t, E)) <= Cardinality(Pending(s, E))
  BY <1>2, PendingFalls
<1>4. /\ Cardinality(Bead) \in Nat /\ Cardinality(s.visited) \in Nat
      /\ Cardinality(s.visited) <= Cardinality(Bead)
      /\ Len(s.work) \in Nat /\ Cardinality(Pending(s, E)) \in Nat
  BY LeftIs
<1>5. Cardinality(Pending(t, E)) \in Nat
  BY <1>1, LeftIs
<1> QED
  BY <1>1, <1>3, <1>4, <1>5 DEF Left

LEMMA LookFalls ==
    ASSUME NEW E, IsFiniteSet(E), E \subseteq Bead \X Bead, NEW s \in States,
           NEW v \in Bead, NEW c \in s.todo[v], <<v, c>> \in E, v \in s.visited,
           NEW t, AfterLook(s, v, c, t)
    PROVE  Left(t, E) < Left(s, E)
<1>1. /\ t \in States /\ t.visited = s.visited /\ t.work = s.work
      /\ \A x \in Bead \ {v} : t.todo[x] = s.todo[x]
      /\ t.todo[v] = s.todo[v] \ {c}
  BY DEF AfterLook
<1>2. ASSUME NEW e \in Pending(t, E) PROVE e \in Pending(s, E)
  <2>1. e \in E /\ e[1] \in Bead /\ (e[1] \notin t.visited \/ e[2] \in t.todo[e[1]])
    BY DEF Pending
  <2>2. e[1] \notin s.visited \/ e[2] \in s.todo[e[1]]
    BY <1>1, <2>1
  <2> QED
    BY <2>1, <2>2 DEF Pending
<1>3. <<v, c>> \in Pending(s, E) /\ <<v, c>> \notin Pending(t, E)
  BY <1>1 DEF Pending
<1>4. Cardinality(Pending(t, E)) < Cardinality(Pending(s, E))
  BY <1>2, <1>3, PendingFalls
<1>5. /\ Cardinality(Bead) \in Nat /\ Cardinality(s.visited) \in Nat
      /\ Len(s.work) \in Nat /\ Cardinality(Pending(s, E)) \in Nat
      /\ Cardinality(Pending(t, E)) \in Nat
  BY <1>1, LeftIs
<1> QED
  BY <1>1, <1>4, <1>5 DEF Left

LEMMA LeaveFalls ==
    ASSUME NEW E, IsFiniteSet(E), NEW s \in States, NEW v, NEW t, AfterLeave(s, v, E, t)
    PROVE  Left(t, E) < Left(s, E)
<1>1. /\ t \in States /\ t.visited = s.visited /\ t.todo = s.todo
      /\ Len(s.work) \in Nat /\ Len(t.work) = Len(s.work) - 1
  BY DEF AfterLeave
<1>2. Pending(t, E) = Pending(s, E)
  BY <1>1 DEF Pending
<1>3. /\ Cardinality(Bead) \in Nat /\ Cardinality(s.visited) \in Nat
      /\ Cardinality(Pending(s, E)) \in Nat
  BY LeftIs
<1> QED
  BY <1>1, <1>2, <1>3 DEF Left

\* What a turn comes to.
TurnKinds(s, roots, E, t) ==
    \/ /\ s.work = <<>>
       /\ \E c \in Range(roots) \ s.visited : t = Enters([s EXCEPT !.todo = s.todo], c, E)
    \/ s.work # <<>> /\ s.todo[Head(s.work)] = {} /\ t = Leaves(s, E)
    \/ /\ s.work # <<>>
       /\ \E c \in s.todo[Head(s.work)] :
            \/ c \in s.visited /\ t = LooksAt(s, Head(s.work), c)
            \/ /\ c \notin s.visited
               /\ t = Enters([s EXCEPT !.todo = [s.todo EXCEPT ![Head(s.work)] = s.todo[Head(s.work)] \ {c}]], c, E)

LEMMA TurnIs ==
    ASSUME NEW E, NEW N, NEW s, Numbered(s, N), NEW roots \in Seq(Bead), ~Over(s, roots),
           NEW t, t = Turn(s, roots, E)
    PROVE  TurnKinds(s, roots, E, t)
<1>1. s \in States /\ Typed(s) /\ s.todo \in [Bead -> SUBSET Bead]
  BY StateTypes DEF Numbered, Typed
<1>2. CASE s.work = <<>>
  <2> DEFINE I == {i \in 1..Len(roots) : roots[i] \notin s.visited}
  <2>1. I \subseteq Nat /\ I # {}
    BY <1>2, RangeIs DEF Over
  <2>2. SelectInSeq(roots, LAMBDA r : r \notin s.visited) = Least(I)
    BY <2>1 DEF SelectInSeq, Min, Least
  <2>3. Least(I) \in I
    <3> HIDE DEF I
    <3> QED
      BY <2>1, LeastHolds
  <2>4. Least(I) \in 1..Len(roots) /\ roots[Least(I)] \notin s.visited
    BY <2>3
  <2>5. roots[Least(I)] \in Range(roots) \ s.visited
    BY <2>4, RangeIs
  <2>6. t = Enters(s, roots[Least(I)], E)
    BY <1>2, <2>2 DEF Turn
  <2>7. [s EXCEPT !.todo = s.todo] = s
    BY <1>1 DEF States
  <2> HIDE DEF I
  <2> QED
    BY <1>2, <2>5, <2>6, <2>7 DEF TurnKinds
<1>3. CASE s.work # <<>>
  <2> DEFINE v == Head(s.work)
             c == Least(s.todo[v])
  <2>1. v \in Bead
    BY <1>1, <1>3, TopHolds DEF OnTop, Typed
  <2>2. s.todo[v] \subseteq Nat
    BY <1>1, <2>1, LanesAssumption DEF Typed
  <2>3. CASE s.todo[v] = {}
    BY <1>3, <2>3 DEF TurnKinds, Turn
  <2>4. CASE s.todo[v] # {}
    <3> PICK todo : todo = s.todo[v]
      OBVIOUS
    <3>1. Least(todo) \in todo
      BY <2>2, <2>4, LeastHolds
    <3>2. c \in s.todo[v]
      BY <3>1
    <3>3. CASE c \in s.visited
      <4>1. t = LooksAt(s, v, c)
        BY <1>3, <2>4, <3>3 DEF Turn
      <4> QED
        BY <1>3, <3>2, <3>3, <4>1 DEF TurnKinds
    <3>4. CASE c \notin s.visited
      <4>1. t = Enters([s EXCEPT !.todo = [s.todo EXCEPT ![v] = s.todo[v] \ {c}]], c, E)
        BY <1>3, <2>4, <3>4 DEF Turn
      <4> HIDE DEF c
      <4> QED
        BY <1>3, <3>2, <3>4, <4>1 DEF TurnKinds
    <3> QED
      BY <3>3, <3>4
  <2> QED
    BY <2>3, <2>4
<1> QED
  BY <1>2, <1>3

\* Every turn keeps the invariant, and there is one less left.
LEMMA TurnKeeps ==
    ASSUME NEW N, N \subseteq Bead, NEW E, E \subseteq N \X N, IsFiniteSet(E),
           NEW s, TarjanInv(s, E, N), NEW roots \in Seq(Bead), Range(roots) = N,
           ~Over(s, roots), NEW t, t = Turn(s, roots, E)
    PROVE  TarjanInv(t, E, N) /\ Left(t, E) < Left(s, E)
<1>1. Numbered(s, N) /\ s \in States /\ Typed(s)
  BY StateTypes DEF TarjanInv, Numbered
<1>2. TurnKinds(s, roots, E, t)
  BY <1>1, TurnIs
<1>3. E \subseteq Bead \X Bead /\ s.todo \in [Bead -> SUBSET Bead]
  BY <1>1 DEF Typed
<1>4. CASE s.work = <<>> /\ \E c \in Range(roots) \ s.visited :
                                t = Enters([s EXCEPT !.todo = s.todo], c, E)
  <2>1. PICK c \in N : c \notin s.visited /\ t = Enters([s EXCEPT !.todo = s.todo], c, E)
    BY <1>4
  <2>2. Open(s) = {}
    <3> PICK q : q = s.work
      OBVIOUS
    <3>1. q \in Seq(Bead) /\ q = <<>>
      BY <1>1, <1>4 DEF Typed
    <3> QED
      BY <3>1, RangeIs DEF Open
  <2> PICK todo : todo = s.todo
    OBVIOUS
  <2>3. /\ todo \in [Bead -> SUBSET Bead] /\ t = Enters([s EXCEPT !.todo = todo], c, E)
        /\ \A x \in Bead : todo[x] \subseteq s.todo[x] /\ s.todo[x] \subseteq todo[x] \cup {c}
        /\ \A u \in Open(s) : c \in Reach(E, u)
    BY <1>3, <2>1, <2>2
  <2>4. TarjanInv(t, E, N)
    BY <2>1, <2>3, EntersKeeps
  <2>5. AfterEnter(s, todo, c, E, t)
    BY <1>1, <2>1, <2>3, EntersIs
  <2> QED
    BY <1>1, <1>3, <2>1, <2>3, <2>4, <2>5, EnterFalls
<1> PICK v : v = Head(s.work)
  OBVIOUS
<1>5. ASSUME s.work # <<>>
      PROVE  /\ v \in Open(s) /\ v \in s.visited /\ v \in Bead
             /\ \A x \in Open(s) : x = v \/ s.index[x] < s.index[v]
             /\ v \in On(s)
  <2>1. OnTop(s, v)
    BY <1>1, <1>5, TopHolds
  <2> QED
    BY <1>1, <2>1 DEF OnTop, Typed, Numbered
<1>6. CASE s.work # <<>> /\ s.todo[v] = {} /\ t = Leaves(s, E)
  <2>1. TarjanInv(t, E, N)
    BY <1>6, LeavesKeeps
  <2>2. AfterLeave(s, v, E, t)
    BY <1>1, <1>6, LeavesIs
  <2> QED
    BY <1>1, <2>1, <2>2, LeaveFalls
<1>7. ASSUME s.work # <<>>, NEW c \in s.todo[v], c \in s.visited, t = LooksAt(s, v, c)
      PROVE  TarjanInv(t, E, N) /\ Left(t, E) < Left(s, E)
  <2>1. TarjanInv(t, E, N)
    BY <1>7, LooksAtKeeps
  <2>2. c \in Bead /\ <<v, c>> \in E
    BY <1>1, <1>5, <1>7 DEF TarjanInv, Looked, Typed
  <2>3. AfterLook(s, v, c, t)
    BY <1>1, <1>5, <1>7, <2>2, LooksAtIs
  <2> QED
    BY <1>1, <1>3, <1>5, <1>7, <2>1, <2>2, <2>3, LookFalls
<1>8. ASSUME s.work # <<>>, NEW c \in s.todo[v], c \notin s.visited,
             t = Enters([s EXCEPT !.todo = [s.todo EXCEPT ![v] = s.todo[v] \ {c}]], c, E)
      PROVE  TarjanInv(t, E, N) /\ Left(t, E) < Left(s, E)
  <2>1. <<v, c>> \in E /\ c \in N /\ c \in Bead
    BY <1>1, <1>5, <1>8 DEF TarjanInv, Looked, Typed
  <2>2. ASSUME NEW u \in Open(s) PROVE c \in Reach(E, u)
    <3>1. CASE u = v
      BY <2>1, <3>1, ReachSteps
    <3>2. CASE u # v
      <4>1. v \in Reach(E, u)
        BY <1>5, <1>8, <3>2 DEF TarjanInv, Descended
      <4> QED
        BY <2>1, <4>1, ReachSteps
    <3> QED
      BY <3>1, <3>2
  <2> DEFINE left == [s.todo EXCEPT ![v] = s.todo[v] \ {c}]
  <2>3. /\ left \in [Bead -> SUBSET Bead]
        /\ \A x \in Bead : left[x] \subseteq s.todo[x] /\ s.todo[x] \subseteq left[x] \cup {c}
    BY <1>3, <1>5, <1>8
  <2>4. t = Enters([s EXCEPT !.todo = left], c, E)
    BY <1>8
  <2> HIDE DEF left
  <2>5. TarjanInv(t, E, N)
    BY <1>8, <2>1, <2>2, <2>3, <2>4, EntersKeeps
  <2>6. AfterEnter(s, left, c, E, t)
    BY <1>1, <1>8, <2>1, <2>3, <2>4, EntersIs
  <2> QED
    BY <1>1, <1>3, <1>8, <2>1, <2>3, <2>5, <2>6, EnterFalls
<1> QED
  BY <1>2, <1>4, <1>6, <1>7, <1>8 DEF TurnKinds

--------------------------------------------------------------------------------
(* The run, from the start to the end.                                      *)

Begin ==
    [visited |-> {}, index |-> [b \in Bead |-> 0], low |-> [b \in Bead |-> 0],
     todo |-> [b \in Bead |-> {}], stack |-> <<>>, work |-> <<>>, members |-> {}]

LEMMA BeginHolds ==
    ASSUME NEW E, NEW N
    PROVE  TarjanInv(Begin, E, N)
<1> PICK s : s = Begin
  OBVIOUS
<1>1. /\ s \in States /\ s.visited = {} /\ s.members = {} /\ s.stack = <<>> /\ s.work = <<>>
  <2> PICK q : q = <<>>
    OBVIOUS
  <2>1. q \in Seq(Bead)
    OBVIOUS
  <2> DEFINE zero == [b \in Bead |-> 0]
             none == [b \in Bead |-> {}]
  <2>2. zero \in [Bead -> Nat] /\ none \in [Bead -> SUBSET Bead] /\ {} \in SUBSET Bead
    OBVIOUS
  <2>3. s = [visited |-> {}, index |-> zero, low |-> zero, todo |-> none,
             stack |-> q, work |-> q, members |-> {}]
    BY DEF Begin
  <2> HIDE DEF zero, none
  <2> QED
    BY <2>1, <2>2, <2>3 DEF States
<1>2. On(s) = {} /\ Open(s) = {}
  <2> PICK q : q = s.stack
    OBVIOUS
  <2>1. q \in Seq(Bead) /\ q = <<>> /\ s.work = q
    BY <1>1
  <2> QED
    BY <2>1, RangeIs DEF On, Open
<1>3. Falls(s.stack, s.index) /\ Falls(s.work, s.index)
  BY <1>1 DEF Falls
<1>4. Done(s) = {}
  BY <1>1 DEF Done
<1>5. TarjanInv(s, E, N)
  BY <1>1, <1>2, <1>3, <1>4
     DEF TarjanInv, Numbered, Looked, DoneStays, LowReached, LowSeen, LowGathered, Descended,
         Held, Found
<1> QED
  BY <1>5

TurnOn(s, roots, E) == IF Over(s, roots) THEN s ELSE Turn(s, roots, E)
Solves(f, roots, E, n) ==
    f = [k \in 0..n |-> IF k = 0 THEN Begin ELSE TurnOn(f[k - 1], roots, E)]

\* The recursion has a solution, for any number of turns.
LEMMA RunExists ==
    ASSUME NEW roots, NEW E, NEW n \in Nat
    PROVE  \E f : Solves(f, roots, E, n)
<1> DEFINE T == {m \in Nat : \E f : Solves(f, roots, E, m)}
<1>1. 0 \in T
  <2> DEFINE f == [k \in 0..0 |-> Begin]
  <2>1. f = [k \in 0..0 |-> IF k = 0 THEN Begin ELSE TurnOn(f[k - 1], roots, E)]
    OBVIOUS
  <2> QED
    BY <2>1 DEF Solves
<1>2. ASSUME NEW m \in Nat, m \in T PROVE m + 1 \in T
  <2>1. PICK f : Solves(f, roots, E, m)
    BY <1>2
  <2> DEFINE g == [k \in 0..(m + 1) |-> IF k = m + 1 THEN TurnOn(f[m], roots, E) ELSE f[k]]
  <2>2. ASSUME NEW k \in 0..(m + 1)
        PROVE  g[k] = IF k = 0 THEN Begin ELSE TurnOn(g[k - 1], roots, E)
    <3>1. CASE k = 0
      BY <2>1, <3>1 DEF Solves
    <3>2. CASE k = m + 1
      <4>1. k # 0 /\ k - 1 = m /\ m \in 0..(m + 1) /\ m # m + 1
        BY <3>2
      <4> QED
        BY <3>2, <4>1
    <3>3. CASE k \in 1..m
      <4>1. k # 0 /\ k \in 0..m /\ k # m + 1 /\ k - 1 # m + 1 /\ k - 1 \in 0..(m + 1)
        BY <3>3
      <4>2. f[k] = TurnOn(f[k - 1], roots, E)
        BY <2>1, <4>1 DEF Solves
      <4> QED
        BY <4>1, <4>2
    <3> QED
      BY <3>1, <3>2, <3>3
  <2> HIDE DEF g
  <2>3. g = [k \in 0..(m + 1) |-> g[k]]
    BY DEF g
  <2>4. Solves(g, roots, E, m + 1)
    BY <2>2, <2>3 DEF Solves
  <2> QED
    BY <2>4
<1>3. Nat \subseteq T
  <2> HIDE DEF T
  <2> QED
    BY <1>1, <1>2, NatInSet
<1> QED
  BY <1>3

\* After k turns the run is over, or k fewer are left than at the start.
LEMMA RunHolds ==
    ASSUME NEW N, N \subseteq Bead, NEW E, E \subseteq N \X N, IsFiniteSet(E),
           NEW roots \in Seq(Bead), Range(roots) = N,
           NEW n \in Nat, NEW f, Solves(f, roots, E, n), NEW k \in 0..n
    PROVE  /\ TarjanInv(f[k], E, N)
           /\ Over(f[k], roots) \/ Left(f[k], E) + k <= Left(Begin, E)
<1> DEFINE Goes(m) == m \in 0..n =>
              /\ TarjanInv(f[m], E, N)
              /\ Over(f[m], roots) \/ Left(f[m], E) + m <= Left(Begin, E)
           T == {m \in Nat : Goes(m)}
<1>0. \A s : TarjanInv(s, E, N) => s \in States /\ Left(s, E) \in Nat
  BY LeftIs DEF TarjanInv, Numbered
<1>1. 0 \in T
  <2>1. f[0] = Begin
    BY DEF Solves
  <2>2. TarjanInv(Begin, E, N)
    BY BeginHolds
  <2> QED
    BY <1>0, <2>1, <2>2
<1>2. ASSUME NEW m \in Nat, m \in T PROVE m + 1 \in T
  <2> SUFFICES ASSUME m + 1 \in 0..n PROVE Goes(m + 1)
    OBVIOUS
  <2>1. m \in 0..n
    OBVIOUS
  <2>2. f[m + 1] = TurnOn(f[m], roots, E)
    <3>1. m + 1 # 0 /\ (m + 1) - 1 = m
      OBVIOUS
    <3> QED
      BY <3>1 DEF Solves
  <2> PICK s : s = f[m]
    OBVIOUS
  <2> PICK t : t = f[m + 1]
    OBVIOUS
  <2>3. TarjanInv(s, E, N) /\ (Over(s, roots) \/ Left(s, E) + m <= Left(Begin, E))
    BY <1>2, <2>1
  <2>4. t = TurnOn(s, roots, E)
    BY <2>2
  <2>5. CASE Over(s, roots)
    BY <2>3, <2>4, <2>5 DEF TurnOn
  <2>6. CASE ~Over(s, roots)
    <3>1. TarjanInv(t, E, N) /\ Left(t, E) < Left(s, E)
      BY <2>3, <2>4, <2>6, TurnKeeps DEF TurnOn
    <3>2. Left(t, E) \in Nat /\ Left(s, E) \in Nat /\ Left(Begin, E) \in Nat
      BY <1>0, <2>3, <3>1, BeginHolds
    <3>3. Left(t, E) + (m + 1) <= Left(Begin, E)
      BY <2>3, <2>6, <3>1, <3>2
    <3> QED
      BY <3>1, <3>3
  <2> QED
    BY <2>5, <2>6
<1>3. Nat \subseteq T
  <2> HIDE DEF T
  <2> QED
    BY <1>1, <1>2, NatInSet
<1>4. k \in Nat
  OBVIOUS
<1> QED
  BY <1>3, <1>4

\* The turns the run is given are enough.
LEMMA TurnsEnough ==
    ASSUME NEW E, E \subseteq Bead \X Bead
    PROVE  /\ IsFiniteSet(E) /\ Cardinality(Bead) \in Nat
           /\ Left(Begin, E) < 3 * Cardinality(Bead) * Cardinality(Bead) + 1
<1> DEFINE n == Cardinality(Bead)
<1>1. n \in Nat /\ IsFiniteSet(Bead)
  BY LanesAssumption, FS_CardinalityType
<1>2. IsFiniteSet(Bead \X Bead) /\ Cardinality(Bead \X Bead) = n * n
  BY <1>1, FS_Product
<1>3. E \in SUBSET (Bead \X Bead)
  OBVIOUS
<1>4. IsFiniteSet(E) /\ Cardinality(E) \in Nat /\ Cardinality(E) <= n * n
  BY <1>2, <1>3, FS_Subset, FS_CardinalityType
<1>5. Begin \in States /\ Begin.visited = {} /\ Begin.work = <<>>
  BY DEF Begin, States
<1>6. /\ Cardinality(Pending(Begin, E)) \in Nat
      /\ Cardinality(Pending(Begin, E)) <= Cardinality(E)
  BY <1>4, <1>5, LeftIs
<1>7. Left(Begin, E) = 2 * n + Cardinality(Pending(Begin, E))
  <2>1. Cardinality(Begin.visited) = 0
    BY <1>5, FS_EmptySet
  <2>2. Len(Begin.work) = 0
    BY <1>5
  <2> HIDE DEF n
  <2>3. Left(Begin, E) = 2 * (n - 0) + 0 + Cardinality(Pending(Begin, E))
    BY <2>1, <2>2 DEF Left, n
  <2> QED
    BY <1>1, <1>6, <2>3
<1> HIDE DEF n
<1>8. n <= n * n /\ n * n \in Nat
  <2>1. n = 0 \/ n >= 1
    BY <1>1
  <2> QED
    BY <1>1, <2>1
<1>9. 2 * n + n * n < 3 * n * n + 1
  <2> PICK q : q = n * n
    OBVIOUS
  <2>1. 3 * n * n = 3 * q
    BY <1>1
  <2> QED
    BY <1>1, <1>8, <2>1
<1>10. Left(Begin, E) < 3 * n * n + 1
  <2> PICK q : q = n * n
    OBVIOUS
  <2>1. 3 * n * n = 3 * q
    BY <1>1
  <2> QED
    BY <1>1, <1>4, <1>6, <1>7, <1>8, <2>1
<1> QED
  BY <1>1, <1>4, <1>10 DEF n

\* When the run is over, its members are the nodes on a cycle.
LEMMA OverHolds ==
    ASSUME NEW E, NEW N, NEW roots, Range(roots) = N, NEW s, TarjanInv(s, E, N), Over(s, roots)
    PROVE  s.members = {b \in N : b \in Reach(E, b)}
<1>1. Numbered(s, N) /\ Typed(s)
  BY StateTypes DEF TarjanInv, Numbered
<1>2. Open(s) = {}
  <2> PICK q : q = s.work
    OBVIOUS
  <2>1. q \in Seq(Bead) /\ q = <<>>
    BY <1>1 DEF Typed, Over
  <2> QED
    BY <2>1, RangeIs DEF Open
<1>3. On(s) = {}
  BY <1>2 DEF TarjanInv, Held
<1>4. s.visited = N
  BY <1>1 DEF Numbered, Over
<1>5. Done(s) = N
  BY <1>3, <1>4 DEF Done
<1> QED
  BY <1>5 DEF TarjanInv, Found

\* What the algorithm returns.
LEMMA CycleMemberIdsIs ==
    ASSUME NEW N, N \subseteq Bead, NEW E, E \subseteq N \X N,
           NEW roots \in Seq(Bead), Range(roots) = N
    PROVE  CycleMemberIds(E, roots) = {b \in N : b \in Reach(E, b)}
<1> DEFINE n == 3 * Cardinality(Bead) * Cardinality(Bead) + 1
           F == CHOOSE f : Solves(f, roots, E, n)
<1>1. IsFiniteSet(E) /\ Cardinality(Bead) \in Nat /\ Left(Begin, E) < n
  BY TurnsEnough
<1>2. n \in Nat
  <2> PICK q : q = Cardinality(Bead)
    OBVIOUS
  <2>1. q \in Nat
    BY <1>1
  <2>2. 3 * q * q + 1 \in Nat
    BY <2>1
  <2> QED
    BY <2>2
<1>3. CycleMemberIds(E, roots) = F[n].members
  BY DEF CycleMemberIds, Solves, TurnOn, Over, Begin
<1> HIDE DEF n
<1>4. Solves(F, roots, E, n)
  BY <1>2, RunExists
<1> HIDE DEF F
<1>5. n \in 0..n
  BY <1>2
<1>6. TarjanInv(F[n], E, N) /\ (Over(F[n], roots) \/ Left(F[n], E) + n <= Left(Begin, E))
  BY <1>1, <1>2, <1>4, <1>5, RunHolds
<1> PICK s : s = F[n]
  OBVIOUS
<1>7. Left(s, E) \in Nat /\ Left(Begin, E) \in Nat
  BY <1>1, <1>6, LeftIs, BeginHolds DEF TarjanInv, Numbered
<1>8. Over(s, roots)
  BY <1>1, <1>2, <1>6, <1>7
<1>9. s.members = {b \in N : b \in Reach(E, b)}
  BY <1>6, <1>8, OverHolds
<1> QED
  BY <1>3, <1>9

\* The listing of a finite set holds all of it.
LEMMA ListingHolds ==
    ASSUME NEW N \in SUBSET Bead, NEW roots \in SetToSeqs(N)
    PROVE  roots \in Seq(Bead) /\ Range(roots) = N
<1>1. /\ roots \in [1..Cardinality(N) -> N]
      /\ \A i, j \in 1..Cardinality(N) : roots[i] = roots[j] => i = j
  BY DEF SetToSeqs, IsInjective
<1>2. IsFiniteSet(N) /\ Cardinality(N) \in Nat
  BY LanesAssumption, FS_Subset, FS_CardinalityType
<1>3. IsFiniteSet(1..Cardinality(N)) /\ Cardinality(1..Cardinality(N)) = Cardinality(N)
  BY <1>2, FS_Interval
<1>4. roots \in Injection(1..Cardinality(N), N)
  BY <1>1 DEF Injection, IsInjective
<1>5. roots \in Surjection(1..Cardinality(N), N)
  BY <1>2, <1>3, <1>4, FS_Injection
<1>6. roots \in Seq(N) /\ Len(roots) = Cardinality(N)
  BY <1>1, <1>2
<1>7. roots \in Seq(Bead)
  BY <1>6
<1>8. Range(roots) = N
  <2>1. \A x \in N : \E i \in 1..Len(roots) : roots[i] = x
    BY <1>5, <1>6 DEF Surjection
  <2>2. Range(roots) \subseteq N /\ \A i \in 1..Len(roots) : roots[i] \in Range(roots)
    BY <1>6, RangeIs
  <2> QED
    BY <2>1, <2>2
<1> QED
  BY <1>7, <1>8

\* The cycle members are the nodes that lead back to themselves, whatever order
\* they are visited in (cycle_member_ids of hygiene.py).
THEOREM CyclesExactHolds == Spec => []CyclesExact
<1>1. CyclesExact
  <2> SUFFICES ASSUME NEW roots \in SetToSeqs(Active), NEW E, E = BlockingSucc
               PROVE  CycleMemberIds(E, roots) = {b \in Active : b \in Reach(E, b)}
    BY DEF CyclesExact
  <2> SUFFICES ASSUME NEW N, N = Active
               PROVE  CycleMemberIds(E, roots) = {b \in N : b \in Reach(E, b)}
    OBVIOUS
  <2>1. N \in SUBSET Bead /\ roots \in SetToSeqs(N) /\ E \subseteq N \X N
    BY DEF Active, BlockingSucc
  <2>2. roots \in Seq(Bead) /\ Range(roots) = N
    BY <2>1, ListingHolds
  <2> QED
    BY <2>1, <2>2, CycleMemberIdsIs
<1> QED
  BY <1>1, PTL
================================================================================
