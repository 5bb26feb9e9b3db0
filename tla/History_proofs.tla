----------------------------- MODULE History_proofs -----------------------------
(***************************************************************************)
(* Theorems about History and HistoryPage.                                  *)
(*                                                                          *)
(* ChoiceStands is not inductive: ChoiceInv adds what the requests in       *)
(* flight carry, that the stored size is the chosen one, and that a custom  *)
(* window has the default range.  Nor is WalkMissesNothing: WalkInv adds     *)
(* where the beads stand that were not seen yet.                             *)
(***************************************************************************)
EXTENDS HistoryPage, FiniteSetTheorems, WellFoundedInduction, TLAPS

--------------------------------------------------------------------------------
(* The fetch.                                                               *)

\* Cutting a bound to whole seconds never raises it.
LEMMA CutDown ==
    ASSUME NEW x \in Int, NEW s \in Nat \ {0}
    PROVE  (x \div s) * s \in Int /\ (x \div s) * s <= x
  OBVIOUS

LEMMA LowType ==
    ASSUME NEW w \in Window, NEW at \in Int
    PROVE  Low(w, at) \in Int \cup {None}
<1>1. /\ w.range \in Preset /\ w.from \in Nat \cup {None} /\ w.to \in Nat \cup {None}
      /\ Length[w.range] \in Nat \cup {None} /\ Day \in Nat
  BY HistoryAssumption DEF Window, MaybeDate
<1>2. FromDay(w) \in Nat \cup {None}
  BY <1>1 DEF FromDay
<1>3. Cutoff(w.range, at) \in Int \cup {None}
  BY <1>1 DEF Cutoff
<1>4. FromDay(w) # None => FromDay(w) * Day \in Int
  BY <1>1, <1>2
<1> QED
  BY <1>2, <1>3, <1>4 DEF Low

\* A bead of the window is fetched: its stamp is no earlier than the bound, and
\* so no earlier than the bound cut to whole seconds.
LEMMA FetchKeeps ==
    ASSUME NEW beads, NEW b \in beads, b.closedAt \in Nat,
           NEW low \in Int \cup {None}, low # None => low <= b.closedAt
    PROVE  b \in Fetched(beads, low)
<1>1. CASE low = None
  BY <1>1 DEF Fetched
<1>2. CASE low \in Int
  <2>1. (low \div Second) * Second \in Int /\ (low \div Second) * Second <= low
    BY <1>2, CutDown, HistoryAssumption
  <2>2. low # None /\ b.closedAt # None
    BY <1>2, HistoryAssumption
  <2>3. b.closedAt >= (low \div Second) * Second
    BY <1>2, <2>1, <2>2
  <2> QED
    BY <2>2, <2>3 DEF Fetched
<1> QED
  BY <1>1, <1>2

\* The lower bound pushed down to bd never costs a bead of the window
\* (store.py:213-239, bd.py:389-392, history.py:155-180): for every table, every
\* window and every clock.
LEMMA NoneMisfetched == Misfetched = {}
<1> SUFFICES ASSUME NEW c \in Case
             PROVE  EnoughIsFetched(c)
  BY DEF Misfetched
<1> DEFINE low == Low(c.window, c.now)
<1> DEFINE high == High(c.window)
<1>1. /\ c.beads \in SUBSET Beads /\ c.window \in Window /\ c.now \in Nat
  BY HistoryAssumption DEF Case
<1>2. low \in Int \cup {None}
  BY <1>1, LowType
<1> HIDE DEF low
<1>4. ASSUME NEW b \in c.beads, b.closed, Within(b.closedAt, low, high)
      PROVE  b \in Fetched(c.beads, low)
  <2>1. b.closedAt \in Nat
    BY <1>1, <1>4, HistoryAssumption DEF Beads, MaybeStamp, Within
  <2> QED
    BY <1>2, <1>4, <2>1, FetchKeeps DEF Within
<1>5. ASSUME NEW b \in c.beads, InOrder(b), Within(b.createdAt, low, high)
      PROVE  b \in Fetched(c.beads, low)
  <2>1. CASE ~b.closed
    BY <2>1 DEF Fetched
  <2>2. CASE b.closed
    <3>1. b.createdAt \in Nat /\ b.closedAt \in Nat /\ b.createdAt <= b.closedAt
      BY <1>1, <1>5, <2>2, HistoryAssumption DEF Beads, MaybeStamp, Within, InOrder
    <3>2. low # None => low <= b.closedAt
      BY <1>2, <1>5, <3>1 DEF Within
    <3> QED
      BY <1>2, <3>1, <3>2, FetchKeeps
  <2>3. b.closed \in BOOLEAN
    BY <1>1 DEF Beads
  <2> QED
    BY <2>1, <2>2, <2>3
<1>6. Fetched(c.beads, low) \subseteq c.beads
  BY DEF Fetched
<1> QED
  BY <1>4, <1>5, <1>6 DEF EnoughIsFetched, ClosedIn, CreatedIn, low

\* Whatever window is chosen, bd is asked for enough beads.
THEOREM FetchSufficesHolds == PageSpec => []FetchSuffices
<1>1. FetchSuffices
  BY NoneMisfetched DEF FetchSuffices
<1> QED
  BY <1>1, PTL

--------------------------------------------------------------------------------
(* The pages.                                                               *)

LEMMA PageOfRank ==
    ASSUME NEW r \in Nat, NEW s \in Nat \ {0}
    PROVE  \E p \in Nat \ {0} : r \in ((p - 1) * s)..(p * s - 1)
<1>1. r \div s \in Nat /\ (r \div s) * s <= r /\ r < (r \div s) * s + s
  OBVIOUS
<1>2. ((r \div s) + 1) * s = (r \div s) * s + s
  BY <1>1
<1> DEFINE q == r \div s
<1>3. q + 1 \in Nat \ {0} /\ (q + 1) - 1 = q /\ q * s \in Nat /\ (q + 1) * s \in Nat
  BY <1>1
<1> HIDE DEF q
<1>4. r \in ((q + 1) - 1) * s .. ((q + 1) * s - 1)
  BY <1>1, <1>2, <1>3 DEF q
<1> QED
  BY <1>3, <1>4

LEMMA PagesApart ==
    ASSUME NEW p \in Nat \ {0}, NEW q \in Nat \ {0}, NEW s \in Nat \ {0}, p < q
    PROVE  p * s <= (q - 1) * s
  OBVIOUS

\* Every bead of the list is on exactly one page, and a page that says there is
\* no more has every bead on it or before it (history.py:203-218): no bead is
\* lost or shown twice at the edge of a page.
THEOREM OnOnePage ==
    ASSUME NEW ranked, IsFiniteSet(ranked), NEW size \in Nat \ {0}, NEW b \in ranked,
           b.closedAt \in Int, b.id \in Int
    PROVE  \E page \in Nat \ {0} :
              /\ b \in Items(ranked, page, size)
              /\ \A other \in Nat \ {0} :
                    b \in Items(ranked, other, size) => other = page
              /\ \A last \in Nat \ {0} : ~HasMore(ranked, last, size) => page <= last
<1> DEFINE ahead == {c \in ranked : Before(c, b)}
<1> DEFINE r == Rank(b, ranked)
<1>1. IsFiniteSet(ahead) /\ ahead \subseteq ranked
  BY FS_Subset
<1>2. b \notin ahead
  BY DEF Before
<1>3. r \in Nat /\ Cardinality(ranked) \in Nat /\ r < Cardinality(ranked)
  BY <1>1, <1>2, FS_Subset, FS_CardinalityType DEF Rank
<1> HIDE DEF r
<1>4. PICK p \in Nat \ {0} : r \in ((p - 1) * size)..(p * size - 1)
  BY <1>3, PageOfRank
<1>5. b \in Items(ranked, p, size)
  BY <1>4 DEF Items, r
<1>6. ASSUME NEW other \in Nat \ {0}, b \in Items(ranked, other, size)
      PROVE  other = p
  <2>1. r \in ((other - 1) * size)..(other * size - 1)
    BY <1>6 DEF Items, r
  <2>2. /\ other * size \in Int /\ (other - 1) * size \in Int
        /\ p * size \in Int /\ (p - 1) * size \in Int
    OBVIOUS
  <2>3. ~(other < p)
    BY <1>3, <1>4, <2>1, <2>2, PagesApart
  <2>4. ~(p < other)
    BY <1>3, <1>4, <2>1, <2>2, PagesApart
  <2> QED
    BY <2>3, <2>4
<1>7. ASSUME NEW last \in Nat \ {0}, ~HasMore(ranked, last, size)
      PROVE  p <= last
  <2>1. /\ last * size \in Int /\ p * size \in Int /\ (p - 1) * size \in Int
    OBVIOUS
  <2>2. Cardinality(ranked) <= last * size
    BY <1>3, <1>7, <2>1 DEF HasMore
  <2>3. ~(last < p)
    BY <1>3, <1>4, <2>1, <2>2, PagesApart
  <2> QED
    BY <2>3
<1> QED
  BY <1>5, <1>6, <1>7

--------------------------------------------------------------------------------
(* Induction, and what is finite.                                          *)

\* Induction over the natural numbers, for a set.
LEMMA NatInSet ==
    ASSUME NEW T, 0 \in T, \A n \in Nat : n \in T => n + 1 \in T
    PROVE  Nat \subseteq T
<1> DEFINE Out == Nat \ T
<1> SUFFICES ASSUME Out # {} PROVE FALSE
  OBVIOUS
<1>1. PICK x \in Out : \A y \in Out : ~(<<y, x>> \in OpToRel(<, Nat))
  BY NatLessThanWellFounded, WFMin
<1>2. x \in Nat /\ x # 0 /\ x \notin T
  OBVIOUS
<1>3. x - 1 \in Nat /\ x - 1 < x /\ (x - 1) + 1 = x
  BY <1>2
<1>4. x - 1 \in T
  BY <1>1, <1>2, <1>3 DEF OpToRel
<1> QED
  BY <1>2, <1>3, <1>4

\* A finite set of integers has a least and a greatest element.
LEMMA FiniteHasEnds ==
    ASSUME NEW S \in SUBSET Int, IsFiniteSet(S), S # {}
    PROVE  /\ Min(S) \in S /\ \A y \in S : Min(S) <= y
           /\ Max(S) \in S /\ \A y \in S : Max(S) >= y
<1> DEFINE HasEnds(X) == /\ \E x \in X : \A y \in X : x <= y
                         /\ \E x \in X : \A y \in X : x >= y
           T == {n \in Nat : \A X \in SUBSET Int :
                                IsFiniteSet(X) /\ X # {} /\ Cardinality(X) = n => HasEnds(X)}
<1>1. 0 \in T
  BY FS_EmptySet
<1>2. ASSUME NEW n \in Nat, n \in T PROVE n + 1 \in T
  <2> SUFFICES ASSUME NEW X \in SUBSET Int, IsFiniteSet(X), X # {}, Cardinality(X) = n + 1
               PROVE  HasEnds(X)
    BY n + 1 \in Nat
  <2>1. PICK a \in X : TRUE
    OBVIOUS
  <2> DEFINE R == X \ {a}
  <2>2. IsFiniteSet(R) /\ Cardinality(R) = n /\ R \in SUBSET Int /\ X = R \cup {a} /\ a \in Int
    <3>1. IsFiniteSet(R) /\ Cardinality(R) = Cardinality(X) - 1
      BY <2>1, FS_RemoveElement
    <3> QED
      BY <2>1, <3>1
  <2>3. CASE R = {}
    <3>1. X = {a}
      BY <2>2, <2>3
    <3> QED
      BY <3>1, <2>2
  <2>4. CASE R # {}
    <3>1. HasEnds(R)
      BY <1>2, <2>2, <2>4
    <3> HIDE DEF R
    <3>2. PICK x \in R : \A y \in R : x <= y
      BY <3>1
    <3>3. PICK z \in R : \A y \in R : z >= y
      BY <3>1
    <3>4. IF a <= x THEN \A y \in X : a <= y ELSE \A y \in X : x <= y
      BY <2>2, <3>2
    <3>5. IF a >= z THEN \A y \in X : a >= y ELSE \A y \in X : z >= y
      BY <2>2, <3>3
    <3> QED
      BY <2>2, <3>4, <3>5
  <2> QED
    BY <2>3, <2>4
<1>3. Nat \subseteq T
  <2> HIDE DEF T
  <2> QED
    BY <1>1, <1>2, NatInSet
<1>4. Cardinality(S) \in Nat
  BY FS_CardinalityType
<1>5. HasEnds(S)
  BY <1>3, <1>4
<1> QED
  BY <1>5 DEF Min, Max

--------------------------------------------------------------------------------
(* Sums.                                                                    *)

Pick(s) == CHOOSE x \in s : TRUE

\* How MapThenSumSet sums a function: g is the sum of f over each of its subsets.
SumsUp(g, f) ==
    g = [s \in SUBSET DOMAIN f |->
            IF s = {} THEN 0 ELSE f[Pick(s)] + g[s \ {Pick(s)}]]

\* The recursion of a sum has one solution, so that any solution is the sum.
LEMMA TotalIs ==
    ASSUME NEW f, IsFiniteSet(DOMAIN f), NEW g, SumsUp(g, f)
    PROVE  Total(f) = g[DOMAIN f]
<1> DEFINE it == CHOOSE h : SumsUp(h, f)
<1>1. SumsUp(it, f)
  OBVIOUS
<1>2. Total(f) = it[DOMAIN f]
  BY DEF Total, MapThenSumSet, MapThenFoldSet, SumsUp, Pick
<1> DEFINE T == {n \in Nat : \A s \in SUBSET DOMAIN f : Cardinality(s) = n => it[s] = g[s]}
<1>3. 0 \in T
  <2> SUFFICES ASSUME NEW s \in SUBSET DOMAIN f, Cardinality(s) = 0 PROVE it[s] = g[s]
    OBVIOUS
  <2>1. s = {}
    BY FS_Subset, FS_EmptySet
  <2> HIDE DEF it
  <2>2. it[s] = 0 /\ g[s] = 0
    BY <1>1, <2>1 DEF SumsUp
  <2> QED
    BY <2>2
<1>4. ASSUME NEW n \in Nat, n \in T PROVE n + 1 \in T
  <2> SUFFICES ASSUME NEW s \in SUBSET DOMAIN f, Cardinality(s) = n + 1 PROVE it[s] = g[s]
    BY n + 1 \in Nat
  <2>1. IsFiniteSet(s) /\ s # {}
    BY FS_Subset, FS_EmptySet
  <2> DEFINE r == s \ {Pick(s)}
  <2>2. Pick(s) \in s
    BY <2>1 DEF Pick
  <2>3. r \in SUBSET DOMAIN f /\ Cardinality(r) = n
    <3>1. Cardinality(r) = Cardinality(s) - 1
      BY <2>1, <2>2, FS_RemoveElement
    <3> QED
      BY <3>1
  <2>4. it[r] = g[r]
    BY <1>4, <2>3
  <2> HIDE DEF it
  <2>5. it[s] = f[Pick(s)] + it[r] /\ g[s] = f[Pick(s)] + g[r]
    BY <1>1, <2>1 DEF SumsUp
  <2> QED
    BY <2>4, <2>5
<1>5. Nat \subseteq T
  <2> HIDE DEF T
  <2> QED
    BY <1>3, <1>4, NatInSet
<1>6. Cardinality(DOMAIN f) \in Nat
  BY FS_CardinalityType
<1> QED
  BY <1>2, <1>5, <1>6

\* What is counted cell by cell adds up to what is in the cells.
LEMMA TotalCounts ==
    ASSUME NEW f, IsFiniteSet(DOMAIN f), NEW B, IsFiniteSet(B), NEW cell,
           \A d \in DOMAIN f : f[d] = Cardinality({b \in B : cell[b] = d})
    PROVE  Total(f) = Cardinality({b \in B : cell[b] \in DOMAIN f})
<1> DEFINE In(s) == {b \in B : cell[b] \in s}
           g == [s \in SUBSET DOMAIN f |-> Cardinality(In(s))]
<1>1. ASSUME NEW s \in SUBSET DOMAIN f, s # {}
      PROVE  g[s] = f[Pick(s)] + g[s \ {Pick(s)}]
  <2> DEFINE p == Pick(s)
             r == s \ {p}
             C == {b \in B : cell[b] = p}
  <2>1. p \in s
    BY <1>1 DEF Pick
  <2> HIDE DEF p
  <2>2. In(s) = In(r) \cup C /\ In(r) \cap C = {}
    BY <2>1
  <2>3. IsFiniteSet(In(r)) /\ IsFiniteSet(C)
    BY FS_Subset
  <2>4. /\ Cardinality(In(r)) \in Nat /\ Cardinality(C) \in Nat
        /\ Cardinality(In(r) \cap C) = 0
    BY <2>2, <2>3, FS_CardinalityType, FS_EmptySet
  <2>5. Cardinality(In(s)) = Cardinality(In(r)) + Cardinality(C)
    <3> HIDE DEF In, C, r
    <3>1. Cardinality(In(r) \cup C) = Cardinality(In(r)) + Cardinality(C) - Cardinality(In(r) \cap C)
      BY <2>3, FS_Union
    <3> QED
      BY <2>2, <2>4, <3>1
  <2>6. f[p] = Cardinality(C)
    BY <2>1
  <2>7. g[s] = Cardinality(In(s)) /\ g[r] = Cardinality(In(r))
    OBVIOUS
  <2> HIDE DEF In, C, g, r
  <2>8. g[s] = f[p] + g[r]
    BY <2>4, <2>5, <2>6, <2>7
  <2> QED
    BY <2>8 DEF p, r
<1>2. g[{}] = 0
  <2>1. In({}) = {}
    OBVIOUS
  <2> QED
    BY <2>1, FS_EmptySet
<1>3. SumsUp(g, f)
  <2>1. ASSUME NEW s \in SUBSET DOMAIN f
        PROVE  g[s] = IF s = {} THEN 0 ELSE f[Pick(s)] + g[s \ {Pick(s)}]
    BY <1>1, <1>2
  <2>2. g = [s \in SUBSET DOMAIN f |-> g[s]]
    OBVIOUS
  <2> HIDE DEF g
  <2> QED
    BY <2>1, <2>2 DEF SumsUp
<1>4. Total(f) = g[DOMAIN f]
  <2> HIDE DEF g
  <2> QED
    BY <1>3, TotalIs
<1> QED
  BY <1>4

\* What never runs backwards from one to the next never does.
LEMMA Monotone ==
    ASSUME NEW n \in Nat, NEW w \in [1..n -> Nat],
           \A k \in 1..(n - 1) : w[k] <= w[k + 1]
    PROVE  \A i, j \in 1..n : i <= j => w[i] <= w[j]
<1> DEFINE T == {d \in Nat : \A i, j \in 1..n : j = i + d => w[i] <= w[j]}
<1>1. 0 \in T
  OBVIOUS
<1>2. ASSUME NEW d \in Nat, d \in T PROVE d + 1 \in T
  <2> SUFFICES ASSUME NEW i \in 1..n, NEW j \in 1..n, j = i + (d + 1) PROVE w[i] <= w[j]
    BY d + 1 \in Nat
  <2>1. j - 1 \in 1..(n - 1) /\ j - 1 \in 1..n /\ j - 1 = i + d /\ (j - 1) + 1 = j
    OBVIOUS
  <2>2. w[i] <= w[j - 1]
    BY <1>2, <2>1
  <2>3. w[j - 1] <= w[j]
    BY <2>1
  <2>4. w[i] \in Nat /\ w[j] \in Nat /\ w[j - 1] \in Nat
    BY <2>1
  <2> QED
    BY <2>2, <2>3, <2>4
<1>3. Nat \subseteq T
  <2> HIDE DEF T
  <2> QED
    BY <1>1, <1>2, NatInSet
<1>4. ASSUME NEW i \in 1..n, NEW j \in 1..n, i <= j PROVE w[i] <= w[j]
  <2>1. j - i \in Nat /\ j = i + (j - i)
    BY <1>4
  <2> QED
    BY <1>3, <2>1
<1> QED
  BY <1>4

\* The steps of a list that never runs backwards add up to the way from its first to
\* its last element.
LEMMA Telescopes ==
    ASSUME NEW n \in Nat \ {0}, NEW w \in [1..n -> Nat],
           \A k \in 1..(n - 1) : w[k] <= w[k + 1]
    PROVE  Total([k \in 1..(n - 1) |-> w[k + 1] - w[k]]) = w[n] - w[1]
<1> DEFINE B == w[1]..(w[n] - 1)
           By(t) == {k \in 1..n : w[k] <= t}
           cell == [t \in B |-> Max(By(t))]
           f == [k \in 1..(n - 1) |-> w[k + 1] - w[k]]
<1>1. \A i, j \in 1..n : i <= j => w[i] <= w[j]
  BY Monotone
<1>2. 1 \in 1..n /\ n \in 1..n /\ w[1] \in Nat /\ w[n] \in Nat /\ w[1] <= w[n]
  BY <1>1
<1>3. ASSUME NEW t \in B
      PROVE  /\ cell[t] \in 1..(n - 1)
             /\ \A d \in 1..(n - 1) : cell[t] = d <=> w[d] <= t /\ t < w[d + 1]
  <2>1. t \in Int /\ w[1] <= t /\ t < w[n]
    BY <1>2
  <2>2. By(t) \in SUBSET Int /\ IsFiniteSet(By(t)) /\ 1 \in By(t)
    <3>1. By(t) \in SUBSET (1..n) /\ 1 \in By(t)
      BY <1>2, <2>1
    <3>2. IsFiniteSet(1..n) /\ 1..n \in SUBSET Int
      BY FS_Interval
    <3> HIDE DEF By
    <3>3. By(t) \in SUBSET Int
      BY <3>1, <3>2
    <3> QED
      BY <3>1, <3>2, <3>3, FS_Subset
  <2> DEFINE m == Max(By(t))
  <2>3. m \in By(t) /\ \A k \in By(t) : m >= k
    <3> HIDE DEF By
    <3> QED
      BY <2>2, FiniteHasEnds
  <2>4. cell[t] = m
    OBVIOUS
  <2> HIDE DEF m, cell
  <2>5. m \in 1..n /\ w[m] <= t
    BY <2>3
  <2>6. m # n
    BY <1>2, <2>1, <2>5
  <2>7. m \in 1..(n - 1)
    BY <2>5, <2>6
  <2>8. t < w[m + 1]
    <3>1. m + 1 \in 1..n /\ w[m + 1] \in Nat
      BY <2>7
    <3>2. m + 1 \notin By(t)
      BY <2>3, <2>7
    <3> QED
      BY <2>1, <3>1, <3>2
  <2>9. ASSUME NEW d \in 1..(n - 1), w[d] <= t, t < w[d + 1] PROVE m = d
    <3>1. d \in 1..n /\ d + 1 \in 1..n /\ d \in By(t) /\ w[d + 1] \in Nat
      BY <2>9
    <3>2. d <= m
      BY <2>3, <3>1
    <3>3. ~(d + 1 <= m)
      <4> SUFFICES ASSUME d + 1 <= m PROVE FALSE
        OBVIOUS
      <4>1. w[d + 1] <= w[m] /\ w[m] \in Nat
        BY <1>1, <2>5, <3>1
      <4> QED
        BY <2>1, <2>5, <2>9, <3>1, <4>1
    <3> QED
      BY <2>7, <3>2, <3>3
  <2> QED
    BY <2>4, <2>5, <2>7, <2>8, <2>9
<1>4. ASSUME NEW d \in 1..(n - 1)
      PROVE  f[d] = Cardinality({t \in B : cell[t] = d})
  <2>1. /\ d \in 1..n /\ d + 1 \in 1..n /\ w[d] \in Nat /\ w[d + 1] \in Nat
        /\ w[1] <= w[d] /\ w[d] <= w[d + 1] /\ w[d + 1] <= w[n]
    <3>1. d \in 1..n /\ d + 1 \in 1..n /\ 1 <= d /\ d <= d + 1 /\ d + 1 <= n
      OBVIOUS
    <3> QED
      BY <1>1, <1>2, <3>1
  <2> DEFINE D == w[d]..(w[d + 1] - 1)
  <2>2. D \subseteq B /\ \A t \in B : t \in D <=> w[d] <= t /\ t < w[d + 1]
    BY <1>2, <2>1
  <2>3. Cardinality(D) = w[d + 1] - w[d]
    <3> DEFINE a == w[d]
               b == w[d + 1] - 1
    <3>1. a \in Int /\ b \in Int /\ a <= b + 1 /\ D = a..b
      BY <2>1
    <3> HIDE DEF a, b, D
    <3>2. Cardinality(D) = b - a + 1
      BY <3>1, FS_Interval
    <3> QED
      BY <2>1, <3>2 DEF a, b
  <2>4. f[d] = w[d + 1] - w[d]
    OBVIOUS
  <2> HIDE DEF f, cell, B, D
  <2>5. {t \in B : cell[t] = d} = D
    BY <1>3, <2>2
  <2> QED
    BY <2>3, <2>4, <2>5
<1>5. DOMAIN f = 1..(n - 1) /\ IsFiniteSet(1..(n - 1)) /\ IsFiniteSet(B)
  <2>1. n - 1 \in Int /\ w[n] - 1 \in Int
    BY <1>2
  <2> QED
    BY <1>2, <2>1, FS_Interval
<1>6. Cardinality(B) = w[n] - w[1]
  <2> DEFINE a == w[1]
             b == w[n] - 1
  <2>1. a \in Int /\ b \in Int /\ a <= b + 1 /\ B = a..b
    BY <1>2
  <2> HIDE DEF a, b, B
  <2>2. Cardinality(B) = b - a + 1
    BY <2>1, FS_Interval
  <2> QED
    BY <1>2, <2>2 DEF a, b
<1> HIDE DEF f, cell, B
<1>7. Total(f) = Cardinality({t \in B : cell[t] \in DOMAIN f})
  <2>1. \A d \in DOMAIN f : f[d] = Cardinality({t \in B : cell[t] = d})
    BY <1>4, <1>5
  <2>2. IsFiniteSet(DOMAIN f) /\ IsFiniteSet(B)
    BY <1>5
  <2> QED
    BY <2>1, <2>2, TotalCounts
<1>8. {t \in B : cell[t] \in DOMAIN f} = B
  BY <1>3, <1>5
<1> QED
  BY <1>6, <1>7, <1>8 DEF f

--------------------------------------------------------------------------------
(* The series.                                                              *)

LEMMA DayOfType == ASSUME NEW t \in Nat PROVE DayOf(t) \in Nat
<1>1. t + Offset \in Nat /\ Day \in Nat /\ Day > 0
  BY HistoryAssumption
<1>2. ASSUME NEW x \in Nat, NEW d \in Nat, d > 0 PROVE x \div d \in Nat
  BY <1>2
<1> QED
  BY <1>1, <1>2 DEF DayOf

LEMMA SpanHolds ==
    ASSUME NEW days \in SUBSET Nat, IsFiniteSet(days)
    PROVE  /\ DaySpan(days) \in SUBSET Nat /\ IsFiniteSet(DaySpan(days))
           /\ days \subseteq DaySpan(days)
           /\ DaySpan(days) # {} =>
                Min(DaySpan(days)) \in days /\ Max(DaySpan(days)) \in days
<1>1. CASE days = {}
  BY <1>1, FS_EmptySet DEF DaySpan
<1>2. CASE days # {}
  <2> DEFINE lo == Min(days)
             hi == Max(days)
             span == lo..hi
  <2>1. lo \in days /\ hi \in days /\ \A y \in days : lo <= y /\ y <= hi
    <3>1. days \in SUBSET Int
      OBVIOUS
    <3> QED
      BY <1>2, <3>1, FiniteHasEnds
  <2>2. DaySpan(days) = span
    BY <1>2 DEF DaySpan
  <2> HIDE DEF lo, hi
  <2>3. lo \in Nat /\ hi \in Nat /\ lo <= hi
    BY <2>1
  <2>4. span \in SUBSET Nat /\ IsFiniteSet(span) /\ lo \in span /\ hi \in span
    BY <2>3, FS_Interval
  <2>5. Min(span) = lo
    <3>1. Min(span) \in span /\ Min(span) <= lo
      BY <2>4, FiniteHasEnds
    <3> QED
      BY <2>3, <3>1
  <2>6. Max(span) = hi
    <3>1. Max(span) \in span /\ Max(span) >= hi
      BY <2>4, FiniteHasEnds
    <3> QED
      BY <2>3, <3>1
  <2>7. days \subseteq span
    BY <2>1, <2>3
  <2> QED
    BY <2>1, <2>2, <2>4, <2>5, <2>6, <2>7
<1> QED
  BY <1>1, <1>2

LEMMA ClosedAddUp ==
    ASSUME NEW B, IsFiniteSet(B), NEW span, IsFiniteSet(span),
           \A b \in B : DayOf(b.closedAt) \in span
    PROVE  Total([d \in span |-> ClosedOn(B, d)]) = Cardinality(B)
<1> DEFINE cell == [b \in B |-> DayOf(b.closedAt)]
           f == [d \in span |-> ClosedOn(B, d)]
<1>1. \A d \in DOMAIN f : f[d] = Cardinality({b \in B : cell[b] = d})
  <2> SUFFICES ASSUME NEW d \in span
               PROVE  ClosedOn(B, d) = Cardinality({b \in B : cell[b] = d})
    OBVIOUS
  <2>1. {b \in B : DayOf(b.closedAt) = d} = {b \in B : cell[b] = d}
    OBVIOUS
  <2> QED
    BY <2>1 DEF ClosedOn
<1>2. DOMAIN f = span /\ {b \in B : cell[b] \in span} = B
  OBVIOUS
<1> HIDE DEF f, cell
<1>3. Total(f) = Cardinality({b \in B : cell[b] \in DOMAIN f})
  BY <1>1, <1>2, TotalCounts
<1> QED
  BY <1>2, <1>3 DEF f

LEMMA CreatedAddUp ==
    ASSUME NEW B, IsFiniteSet(B), NEW span, IsFiniteSet(span),
           \A b \in B : DayOf(b.createdAt) \in span
    PROVE  Total([d \in span |-> CreatedOn(B, d)]) = Cardinality(B)
<1> DEFINE cell == [b \in B |-> DayOf(b.createdAt)]
           f == [d \in span |-> CreatedOn(B, d)]
<1>1. \A d \in DOMAIN f : f[d] = Cardinality({b \in B : cell[b] = d})
  <2> SUFFICES ASSUME NEW d \in span
               PROVE  CreatedOn(B, d) = Cardinality({b \in B : cell[b] = d})
    OBVIOUS
  <2>1. {b \in B : DayOf(b.createdAt) = d} = {b \in B : cell[b] = d}
    OBVIOUS
  <2> QED
    BY <2>1 DEF CreatedOn
<1>2. DOMAIN f = span /\ {b \in B : cell[b] \in span} = B
  OBVIOUS
<1> HIDE DEF f, cell
<1>3. Total(f) = Cardinality({b \in B : cell[b] \in DOMAIN f})
  BY <1>1, <1>2, TotalCounts
<1> QED
  BY <1>2, <1>3 DEF f

LEMMA DaysOfHolds ==
    ASSUME NEW B, IsFiniteSet(B), NEW at, at \in [B -> Nat]
    PROVE  /\ DaysOf({at[b] : b \in B}) \in SUBSET Nat
           /\ IsFiniteSet(DaysOf({at[b] : b \in B}))
           /\ DaysOf({at[b] : b \in B}) = {DayOf(at[b]) : b \in B}
<1> DEFINE D == {DayOf(at[b]) : b \in B}
           day == [b \in B |-> DayOf(at[b])]
<1>1. None \notin Nat
  BY HistoryAssumption
<1>2. DaysOf({at[b] : b \in B}) = D
  <2>1. \A b \in B : at[b] # None
    BY <1>1
  <2> QED
    BY <2>1 DEF DaysOf
<1>3. day \in Surjection(B, D)
  BY DEF Surjection
<1>4. IsFiniteSet(D)
  BY <1>3, FS_Surjection
<1>5. D \in SUBSET Nat
  BY DayOfType
<1> QED
  BY <1>2, <1>4, <1>5

LEMMA ChartHolds == ASSUME NEW c \in Case PROVE ChartAgrees(c)
<1> DEFINE closed == ClosedIn(c.beads, c.window, c.now)
           created == CreatedIn(c.beads, c.window, c.now)
           cdays == ClosedDays(c.beads, c.window, c.now)
           odays == CreatedDays(c.beads, c.window, c.now)
<1>0. None \notin Nat
  BY HistoryAssumption
<1>1. c.beads \in SUBSET Beads /\ IsFiniteSet(c.beads)
  BY HistoryAssumption DEF Case
<1>2. \A b \in c.beads : b.closedAt \in Nat \cup {None} /\ b.createdAt \in Nat \cup {None}
  BY <1>1, HistoryAssumption DEF Beads, MaybeStamp
<1>3. IsFiniteSet(closed) /\ IsFiniteSet(created)
  BY <1>1, FS_Subset DEF ClosedIn, CreatedIn
<1>4. \A b \in closed : b.closedAt \in Nat
  BY <1>2 DEF ClosedIn, Within
<1>5. \A b \in created : b.createdAt \in Nat
  BY <1>2 DEF CreatedIn, Within
<1>6. /\ cdays \in SUBSET Nat /\ IsFiniteSet(cdays)
      /\ cdays = {DayOf(b.closedAt) : b \in closed}
  <2> DEFINE at == [b \in closed |-> b.closedAt]
  <2>1. at \in [closed -> Nat]
    BY <1>4
  <2>2. {at[b] : b \in closed} = {b.closedAt : b \in closed}
    OBVIOUS
  <2>3. {DayOf(at[b]) : b \in closed} = {DayOf(b.closedAt) : b \in closed}
    OBVIOUS
  <2>4. cdays = DaysOf({b.closedAt : b \in closed})
    BY DEF ClosedDays
  <2> HIDE DEF at, closed, cdays
  <2>5. /\ DaysOf({at[b] : b \in closed}) \in SUBSET Nat
        /\ IsFiniteSet(DaysOf({at[b] : b \in closed}))
        /\ DaysOf({at[b] : b \in closed}) = {DayOf(at[b]) : b \in closed}
    BY <1>3, <2>1, DaysOfHolds
  <2> QED
    BY <2>2, <2>3, <2>4, <2>5
<1>7. /\ odays \in SUBSET Nat /\ IsFiniteSet(odays)
      /\ odays = {DayOf(b.createdAt) : b \in created}
  <2> DEFINE at == [b \in created |-> b.createdAt]
  <2>1. at \in [created -> Nat]
    BY <1>5
  <2>2. {at[b] : b \in created} = {b.createdAt : b \in created}
    OBVIOUS
  <2>3. {DayOf(at[b]) : b \in created} = {DayOf(b.createdAt) : b \in created}
    OBVIOUS
  <2>4. odays = DaysOf({b.createdAt : b \in created})
    BY DEF CreatedDays
  <2> HIDE DEF at, created, odays
  <2>5. /\ DaysOf({at[b] : b \in created}) \in SUBSET Nat
        /\ IsFiniteSet(DaysOf({at[b] : b \in created}))
        /\ DaysOf({at[b] : b \in created}) = {DayOf(at[b]) : b \in created}
    BY <1>3, <2>1, DaysOfHolds
  <2> QED
    BY <2>2, <2>3, <2>4, <2>5
<1> DEFINE cspan == DaySpan(cdays)
           ospan == DaySpan(odays)
           span == DaySpan(cdays \cup odays)
           through == [d \in cspan |-> ClosedOn(closed, d)]
           made == [d \in ospan |-> CreatedOn(created, d)]
           both == [d \in span |-> [created |-> CreatedOn(created, d),
                                    closed |-> ClosedOn(closed, d)]]
<1>8. /\ through = Throughput(c.beads, c.window, c.now)
      /\ made = Created(c.beads, c.window, c.now)
      /\ both = Combined(c.beads, c.window, c.now)
  BY DEF Throughput, Created, Combined, CombinedSpan
<1> HIDE DEF closed, created, cdays, odays
<1>9. cdays \cup odays \in SUBSET Nat /\ IsFiniteSet(cdays \cup odays)
  BY <1>6, <1>7, FS_Union
<1>10. /\ IsFiniteSet(cspan) /\ cdays \subseteq cspan
       /\ IsFiniteSet(ospan) /\ odays \subseteq ospan
       /\ IsFiniteSet(span) /\ cdays \cup odays \subseteq span
  BY <1>6, <1>7, <1>9, SpanHolds
<1>11. /\ \A b \in closed : DayOf(b.closedAt) \in cspan /\ DayOf(b.closedAt) \in span
       /\ \A b \in created : DayOf(b.createdAt) \in ospan /\ DayOf(b.createdAt) \in span
  BY <1>6, <1>7, <1>10
<1>12. [d \in DOMAIN both |-> both[d].closed] = [d \in span |-> ClosedOn(closed, d)]
  OBVIOUS
<1>13. [d \in DOMAIN both |-> both[d].created] = [d \in span |-> CreatedOn(created, d)]
  OBVIOUS
<1>14. Total(through) = Cardinality(closed)
  <2> HIDE DEF cspan
  <2> QED
    BY <1>3, <1>10, <1>11, ClosedAddUp
<1>15. Total([d \in DOMAIN both |-> both[d].closed]) = Cardinality(closed)
  <2> HIDE DEF span
  <2>1. Total([d \in span |-> ClosedOn(closed, d)]) = Cardinality(closed)
    BY <1>3, <1>10, <1>11, ClosedAddUp
  <2> QED
    BY <1>12, <2>1
<1>16. Total(made) = Total([d \in DOMAIN both |-> both[d].created])
  <2> HIDE DEF span, ospan
  <2>1. Total([d \in span |-> CreatedOn(created, d)]) = Cardinality(created)
    BY <1>3, <1>10, <1>11, CreatedAddUp
  <2>2. Total([d \in ospan |-> CreatedOn(created, d)]) = Cardinality(created)
    BY <1>3, <1>10, <1>11, CreatedAddUp
  <2> QED
    BY <1>13, <2>1, <2>2
<1>17. DOMAIN through \cup DOMAIN made \subseteq DOMAIN both
  <2> SUFFICES cspan \cup ospan \subseteq span
    OBVIOUS
  <2>1. ASSUME NEW days \in SUBSET Nat, IsFiniteSet(days), NEW more \in SUBSET Nat,
               IsFiniteSet(more), days \subseteq more
        PROVE  DaySpan(days) \subseteq DaySpan(more)
    <3>1. CASE days = {}
      BY <3>1 DEF DaySpan
    <3>2. CASE days # {}
      <4>1. /\ Min(days) \in days /\ Max(days) \in days
            /\ \A y \in more : Min(more) <= y /\ Max(more) >= y
            /\ Min(more) \in more /\ Max(more) \in more
        <5>1. days \in SUBSET Int /\ more \in SUBSET Int
          OBVIOUS
        <5>2. more # {}
          BY <2>1, <3>2
        <5> QED
          BY <5>1, <5>2, <2>1, <3>2, FiniteHasEnds
      <4>2. /\ Min(days) \in Nat /\ Max(days) \in Nat /\ Min(more) \in Nat /\ Max(more) \in Nat
            /\ Min(more) <= Min(days) /\ Max(days) <= Max(more)
        BY <2>1, <4>1
      <4>3. Min(days)..Max(days) \subseteq Min(more)..Max(more)
        BY <4>2
      <4> QED
        BY <2>1, <3>2, <4>3 DEF DaySpan
    <3> QED
      BY <3>1, <3>2
  <2> QED
    BY <1>6, <1>7, <1>9, <2>1
<1>18. ASSUME NEW d \in cdays \cup odays
       PROVE  ClosedOn(closed, d) + CreatedOn(created, d) > 0
  <2> DEFINE C == {b \in closed : DayOf(b.closedAt) = d}
             O == {b \in created : DayOf(b.createdAt) = d}
  <2>1. IsFiniteSet(C) /\ IsFiniteSet(O)
    BY <1>3, FS_Subset
  <2>2. C # {} \/ O # {}
    BY <1>6, <1>7
  <2> HIDE DEF C, O
  <2>3. Cardinality(C) \in Nat /\ Cardinality(O) \in Nat /\ (Cardinality(C) # 0 \/ Cardinality(O) # 0)
    BY <2>1, <2>2, FS_CardinalityType, FS_EmptySet
  <2>4. Cardinality(C) + Cardinality(O) > 0
    BY <2>3
  <2> QED
    BY <2>4 DEF C, O, ClosedOn, CreatedOn
<1>19. ASSUME NEW d \in cdays \cup odays
       PROVE  both[d].created + both[d].closed > 0
  <2>1. d \in span
    BY <1>10
  <2>2. both[d].created = CreatedOn(created, d) /\ both[d].closed = ClosedOn(closed, d)
    BY <2>1
  <2>3. ClosedOn(closed, d) \in Nat /\ CreatedOn(created, d) \in Nat
    BY <1>3, FS_Subset, FS_CardinalityType DEF ClosedOn, CreatedOn
  <2> HIDE DEF both
  <2> QED
    BY <1>18, <2>2, <2>3
<1>20. DOMAIN both # {} =>
         \A d \in {Min(DOMAIN both), Max(DOMAIN both)} : both[d].created + both[d].closed > 0
  <2>1. DOMAIN both = span
    OBVIOUS
  <2>2. span # {} => Min(span) \in cdays \cup odays /\ Max(span) \in cdays \cup odays
    BY <1>9, SpanHolds
  <2> HIDE DEF both, span
  <2> QED
    BY <1>19, <2>1, <2>2
<1> HIDE DEF through, made, both
<1> QED
  BY <1>8, <1>14, <1>15, <1>16, <1>17, <1>20 DEF ChartAgrees, closed

\* No chart ever disagrees with the figures beside it.
THEOREM SeriesAddUpHolds == PageSpec => []SeriesAddUp
<1>1. Disagreeing = {}
  BY ChartHolds DEF Disagreeing
<1>2. SeriesAddUp
  BY <1>1 DEF SeriesAddUp
<1> QED
  BY <1>2, PTL

--------------------------------------------------------------------------------
(* The percentiles.                                                         *)

LEMMA MinOfTwo ==
    ASSUME NEW a \in Int, NEW b \in Int
    PROVE  Min({a, b}) \in {a, b} /\ Min({a, b}) <= a /\ Min({a, b}) <= b
<1>1. \E x \in {a, b} : \A y \in {a, b} : x <= y
  <2>1. CASE a <= b
    BY <2>1
  <2>2. CASE b <= a
    BY <2>2
  <2> QED
    BY <2>1, <2>2
<1>2. Min({a, b}) \in {a, b} /\ \A y \in {a, b} : Min({a, b}) <= y
  BY <1>1 DEF Min
<1> QED
  BY <1>2

\* A step of at most a hundred hundredths from one value toward a later one
\* stays between them.
LEMMA Between ==
    ASSUME NEW a \in Nat, NEW b \in Nat, a <= b, NEW f \in 0..99
    PROVE  100 * a <= 100 * a + (b - a) * f /\ 100 * a + (b - a) * f <= 100 * b
<1>1. /\ (b - a) * f \in Int /\ 0 <= (b - a) * f
      /\ (b - a) * f <= (b - a) * 100
  OBVIOUS
<1> QED
  BY <1>1

Sorted(s) == \A i, j \in 1..Len(s) : i <= j => s[i] <= s[j]

\* The two elements a percentile lies between: the one at its rank, cut to a whole
\* one, and the next, if there is one.
LEMMA PercentilePlace ==
    ASSUME NEW s \in Seq(Nat), s # <<>>, Sorted(s), NEW pct \in 0..100
    PROVE  \E low, high \in 1..Len(s), f \in 0..99 :
              /\ pct * (Len(s) - 1) = 100 * (low - 1) + f
              /\ high = IF low = Len(s) THEN low ELSE low + 1
              /\ low = Len(s) => f = 0
              /\ s[low] \in Nat /\ s[high] \in Nat /\ s[low] <= s[high]
              /\ Percentile(s, pct) = 100 * s[low] + (s[high] - s[low]) * f
              /\ Percentile(s, pct) \in Nat
              /\ 100 * s[low] <= Percentile(s, pct)
              /\ Percentile(s, pct) <= 100 * s[high]
<1> DEFINE n == Len(s)
           rank == pct * (n - 1)
           low == rank \div 100
           high == Min({low + 1, n - 1})
           f == rank % 100
<1>1. n \in Nat \ {0}
  OBVIOUS
<1>2. rank \in Nat /\ rank <= 100 * (n - 1)
  BY <1>1
<1> HIDE DEF rank
<1>3. low \in Nat /\ low <= n - 1 /\ f \in 0..99 /\ rank = 100 * low + f
  BY <1>1, <1>2
<1> HIDE DEF low, f
<1> HIDE DEF n
<1>4. low = n - 1 => f = 0
  BY <1>1, <1>2, <1>3
<1>5. high = IF low = n - 1 THEN n - 1 ELSE low + 1
  <2>1. low + 1 \in Int /\ n - 1 \in Int
    BY <1>1, <1>3
  <2>2. high \in {low + 1, n - 1} /\ high <= low + 1 /\ high <= n - 1
    BY <2>1, MinOfTwo
  <2> HIDE DEF high
  <2> QED
    BY <1>1, <1>3, <1>4, <2>2
<1> HIDE DEF high
<1> DEFINE a == s[low + 1]
           b == s[high + 1]
<1>6. low + 1 \in 1..n /\ high + 1 \in 1..n /\ low + 1 <= high + 1
  BY <1>1, <1>3, <1>5
<1>7. a \in Nat /\ b \in Nat /\ a <= b
  <2>1. \A i \in 1..n : s[i] \in Nat
    BY DEF n
  <2> QED
    BY <1>6, <2>1 DEF n, Sorted
<1>8. Percentile(s, pct) = 100 * a + (b - a) * f
  BY DEF Percentile, rank, low, high, f, n
<1>9. 100 * a <= Percentile(s, pct) /\ Percentile(s, pct) <= 100 * b
  <2> HIDE DEF a, b
  <2> QED
    BY <1>3, <1>7, <1>8, Between
<1>10. Percentile(s, pct) \in Nat
  <2> HIDE DEF a, b
  <2>1. (b - a) * f \in Nat
    BY <1>3, <1>7
  <2> QED
    BY <1>7, <1>8, <2>1
<1>11. pct * (n - 1) = 100 * ((low + 1) - 1) + f
  BY <1>3 DEF rank
<1>12. high + 1 = IF low + 1 = n THEN low + 1 ELSE (low + 1) + 1
  BY <1>1, <1>3, <1>5
<1>13. low + 1 = n => f = 0
  BY <1>1, <1>3, <1>4
<1> QED
  BY <1>3, <1>6, <1>7, <1>8, <1>9, <1>10, <1>11, <1>12, <1>13 DEF n

\* A percentile never leaves the list it is taken from, at zero, one and the last
\* element too (history.py:384-399).
LEMMA PercentileInList ==
    ASSUME NEW sorted \in Seq(Nat), sorted # <<>>, NEW pct \in 0..100, Sorted(sorted)
    PROVE  /\ 100 * sorted[1] <= Percentile(sorted, pct)
           /\ Percentile(sorted, pct) <= 100 * sorted[Len(sorted)]
<1> DEFINE n == Len(sorted)
<1>1. PICK low \in 1..n, high \in 1..n :
        /\ sorted[low] \in Nat /\ sorted[high] \in Nat
        /\ Percentile(sorted, pct) \in Nat
        /\ 100 * sorted[low] <= Percentile(sorted, pct)
        /\ Percentile(sorted, pct) <= 100 * sorted[high]
  BY PercentilePlace
<1>2. n \in Nat /\ 1 \in 1..n /\ n \in 1..n /\ 1 <= low /\ high <= n
  OBVIOUS
<1>3. sorted[1] \in Nat /\ sorted[n] \in Nat
  BY <1>2
<1>4. sorted[1] <= sorted[low] /\ sorted[high] <= sorted[n]
  BY <1>2 DEF Sorted
<1> DEFINE a == sorted[1]
           b == sorted[low]
           c == sorted[high]
           d == sorted[n]
           p == Percentile(sorted, pct)
<1>5. /\ a \in Nat /\ b \in Nat /\ c \in Nat /\ d \in Nat /\ p \in Nat
      /\ a <= b /\ 100 * b <= p /\ p <= 100 * c /\ c <= d
  BY <1>1, <1>3, <1>4
<1>6. 100 * a <= p /\ p <= 100 * d
  <2> HIDE DEF a, b, c, d, p
  <2> QED
    BY <1>5
<1> QED
  BY <1>6

LEMMA PercentileMonotone ==
    ASSUME NEW s \in Seq(Nat), s # <<>>, Sorted(s)
    PROVE  Percentile(s, 50) <= Percentile(s, 90)
<1> DEFINE n == Len(s)
           p5 == Percentile(s, 50)
           p9 == Percentile(s, 90)
<1>1. n \in Nat /\ n >= 1
  OBVIOUS
<1>2. PICK l5 \in 1..n, h5 \in 1..n, f5 \in 0..99 :
        /\ 50 * (n - 1) = 100 * (l5 - 1) + f5
        /\ h5 = IF l5 = n THEN l5 ELSE l5 + 1
        /\ s[l5] \in Nat /\ s[h5] \in Nat /\ s[l5] <= s[h5]
        /\ p5 = 100 * s[l5] + (s[h5] - s[l5]) * f5
        /\ p5 \in Nat /\ p5 <= 100 * s[h5]
  <2>1. 50 \in 0..100
    OBVIOUS
  <2> QED
    BY <2>1, PercentilePlace
<1>3. PICK l9 \in 1..n, h9 \in 1..n, f9 \in 0..99 :
        /\ 90 * (n - 1) = 100 * (l9 - 1) + f9
        /\ h9 = IF l9 = n THEN l9 ELSE l9 + 1
        /\ s[l9] \in Nat /\ s[h9] \in Nat /\ s[l9] <= s[h9]
        /\ p9 = 100 * s[l9] + (s[h9] - s[l9]) * f9
        /\ p9 \in Nat /\ 100 * s[l9] <= p9
  <2>1. 90 \in 0..100
    OBVIOUS
  <2> QED
    BY <2>1, PercentilePlace
<1> HIDE DEF p5, p9
<1>4. l5 <= l9 /\ (l5 = l9 => f5 <= f9)
  <2>1. 50 * (n - 1) = 100 * (l5 - 1) + f5 /\ 90 * (n - 1) = 100 * (l9 - 1) + f9
    BY <1>2, <1>3
  <2>2. n \in Nat /\ n >= 1 /\ l5 \in Nat /\ l9 \in Nat /\ f5 \in 0..99 /\ f9 \in 0..99
    OBVIOUS
  <2> HIDE DEF n
  <2> QED
    BY <2>1, <2>2
<1>5. CASE l5 = l9
  <2> DEFINE a == s[l9]
             b == s[h9]
  <2>1. h5 = h9
    BY <1>2, <1>3, <1>5
  <2>2. p5 = 100 * a + (b - a) * f5 /\ p9 = 100 * a + (b - a) * f9
    BY <1>2, <1>3, <1>5, <2>1
  <2>3. a \in Nat /\ b \in Nat /\ a <= b /\ f5 \in Nat /\ f9 \in Nat /\ f5 <= f9
    <3>1. a \in Nat /\ b \in Nat /\ a <= b
      BY <1>3
    <3>2. f5 \in Nat /\ f9 \in Nat
      OBVIOUS
    <3> QED
      BY <1>4, <1>5, <3>1, <3>2
  <2> HIDE DEF a, b
  <2>4. ASSUME NEW d \in Nat PROVE d * f5 \in Nat /\ d * f9 \in Nat /\ d * f5 <= d * f9
    <3>1. d * (f9 - f5) >= 0 /\ d * (f9 - f5) = d * f9 - d * f5
      BY <2>3
    <3> QED
      BY <2>3, <3>1
  <2> DEFINE d == b - a
  <2>5. d \in Nat
    BY <2>3
  <2>6. p5 = 100 * a + d * f5 /\ p9 = 100 * a + d * f9
    BY <2>2
  <2> HIDE DEF d
  <2> DEFINE e5 == d * f5
             e9 == d * f9
  <2>7. e5 \in Nat /\ e9 \in Nat /\ e5 <= e9
    BY <2>4, <2>5
  <2>8. p5 = 100 * a + e5 /\ p9 = 100 * a + e9
    BY <2>6
  <2> HIDE DEF e5, e9
  <2>9. p5 <= p9
    BY <2>3, <2>7, <2>8
  <2> QED
    BY <2>9 DEF p5, p9
<1>6. CASE l5 # l9
  <2>1. h5 <= l9
    <3> HIDE DEF n
    <3> QED
      BY <1>1, <1>2, <1>3, <1>4, <1>6
  <2>2. s[h5] <= s[l9]
    BY <2>1 DEF Sorted
  <2> DEFINE a == s[h5]
             b == s[l9]
  <2>3. /\ a \in Nat /\ b \in Nat /\ a <= b
        /\ p5 \in Nat /\ p9 \in Nat /\ p5 <= 100 * a /\ 100 * b <= p9
    BY <1>2, <1>3, <2>2
  <2> HIDE DEF a, b
  <2>4. p5 <= p9
    BY <2>3
  <2> QED
    BY <2>4 DEF p5, p9
<1> QED
  BY <1>5, <1>6

LEMMA CountAtLeast ==
    ASSUME NEW n \in Nat, NEW S \in SUBSET (1..n), NEW i \in 1..(n + 1), NEW j \in 0..n,
           i..j \subseteq S
    PROVE  Cardinality(S) \in Nat /\ Cardinality(S) >= j - i + 1
<1>1. IsFiniteSet(S)
  <2>1. IsFiniteSet(1..n)
    BY FS_Interval
  <2> QED
    BY <2>1, FS_Subset
<1>2. Cardinality(i..j) <= Cardinality(S) /\ Cardinality(S) \in Nat
  BY <1>1, FS_Subset, FS_CardinalityType
<1>3. Cardinality(i..j) = IF i > j THEN 0 ELSE j - i + 1
  BY FS_Interval
<1> QED
  BY <1>2, <1>3

\* As many elements as the rank says are at most the percentile, and as many as are
\* left at least.
LEMMA PercentileCounts ==
    ASSUME NEW s \in Seq(Nat), s # <<>>, Sorted(s), NEW pct \in 0..100
    PROVE  LET n == Len(s)
               below == Cardinality({i \in 1..n : 100 * s[i] <= Percentile(s, pct)})
               above == Cardinality({i \in 1..n : 100 * s[i] >= Percentile(s, pct)})
           IN  /\ below \in Nat /\ above \in Nat
               /\ 100 * below > pct * (n - 1)
               /\ 100 * (n - above) < pct * (n - 1) + 100
<1> DEFINE n == Len(s)
           p == Percentile(s, pct)
           rank == pct * (n - 1)
           B == {i \in 1..n : 100 * s[i] <= p}
           A == {i \in 1..n : 100 * s[i] >= p}
<1>1. n \in Nat /\ n >= 1 /\ \A i \in 1..n : s[i] \in Nat
  OBVIOUS
<1>2. PICK low \in 1..n, high \in 1..n, f \in 0..99 :
        /\ rank = 100 * (low - 1) + f
        /\ high = IF low = n THEN low ELSE low + 1
        /\ low = n => f = 0
        /\ s[low] \in Nat /\ s[high] \in Nat
        /\ p = 100 * s[low] + (s[high] - s[low]) * f
        /\ p \in Nat
        /\ 100 * s[low] <= p
        /\ p <= 100 * s[high]
  BY PercentilePlace
<1> HIDE DEF p, rank
<1>3. 1..low \subseteq B
  <2> SUFFICES ASSUME NEW i \in 1..low PROVE i \in 1..n /\ 100 * s[i] <= p
    OBVIOUS
  <2>1. i \in 1..n /\ s[i] <= s[low] /\ s[i] \in Nat
    BY <1>1 DEF Sorted
  <2> QED
    BY <1>2, <2>1
<1> DEFINE first == IF f = 0 THEN low ELSE high
<1>4. /\ first \in 1..n /\ s[first] \in Nat /\ p <= 100 * s[first]
      /\ first = IF f = 0 THEN low ELSE low + 1
  <2>1. f = 0 => p = 100 * s[low]
    BY <1>2
  <2> QED
    BY <1>2, <2>1
<1> HIDE DEF first
<1>5. first..n \subseteq A
  <2> SUFFICES ASSUME NEW i \in first..n PROVE i \in 1..n /\ 100 * s[i] >= p
    OBVIOUS
  <2>1. i \in 1..n /\ s[first] <= s[i] /\ s[i] \in Nat
    BY <1>1, <1>4 DEF Sorted
  <2> QED
    BY <1>2, <1>4, <2>1
<1>6. Cardinality(B) \in Nat /\ Cardinality(B) >= low
  <2>1. B \in SUBSET (1..n) /\ 1 \in 1..(n + 1) /\ low \in 0..n
    BY <1>1
  <2> HIDE DEF B, n
  <2>2. Cardinality(B) \in Nat /\ Cardinality(B) >= low - 1 + 1
    BY <1>1, <1>3, <2>1, CountAtLeast
  <2> QED
    BY <2>2
<1>7. Cardinality(A) \in Nat /\ Cardinality(A) >= n - first + 1
  <2>1. A \in SUBSET (1..n) /\ first \in 1..(n + 1) /\ n \in 0..n
    BY <1>1, <1>4
  <2> HIDE DEF A, n
  <2> QED
    BY <1>1, <1>5, <2>1, CountAtLeast
<1> DEFINE below == Cardinality(B)
           above == Cardinality(A)
<1>8. n \in Nat /\ low \in Nat /\ first \in Nat /\ f \in 0..99
  BY <1>1, <1>4
<1> HIDE DEF A, B, n, below, above
<1>9. 100 * below > rank
  BY <1>2, <1>6, <1>8 DEF below
<1>10. 100 * (n - above) < rank + 100
  <2>1. n - above <= first - 1 /\ above \in Nat
    BY <1>7, <1>8 DEF above
  <2>2. rank = 100 * (low - 1) + f /\ first = IF f = 0 THEN low ELSE low + 1
    BY <1>2, <1>4
  <2>3. 100 * (first - 1) < rank + 100
    BY <1>8, <2>2
  <2>4. rank \in Int
    BY <1>8, <2>2
  <2> QED
    BY <1>8, <2>1, <2>3, <2>4
<1> QED
  BY <1>6, <1>7, <1>9, <1>10 DEF A, B, n, p, rank, below, above

LEMMA SplitsHolds ==
    ASSUME NEW s \in Seq(Nat), s # <<>>, Sorted(s)
    PROVE  Splits(s)
<1> DEFINE n == Len(s)
           Below(pct) == Cardinality({i \in 1..n : 100 * s[i] <= Percentile(s, pct)})
           Above(pct) == Cardinality({i \in 1..n : 100 * s[i] >= Percentile(s, pct)})
<1>1. n \in Nat /\ n >= 1
  OBVIOUS
<1>2. ASSUME NEW pct \in 0..100
      PROVE  /\ Below(pct) \in Nat /\ Above(pct) \in Nat
             /\ 100 * Below(pct) > pct * (n - 1)
             /\ 100 * (n - Above(pct)) < pct * (n - 1) + 100
  BY PercentileCounts
<1>3. 50 \in 0..100 /\ 90 \in 0..100
  OBVIOUS
<1>4. 100 * s[1] <= Percentile(s, 50) /\ Percentile(s, 90) <= 100 * s[n]
  BY <1>3, PercentileInList
<1>5. Percentile(s, 50) <= Percentile(s, 90)
  BY PercentileMonotone
<1> DEFINE b5 == Below(50)
           a5 == Above(50)
           b9 == Below(90)
           a9 == Above(90)
<1>6. b5 \in Nat /\ a5 \in Nat /\ 100 * b5 > 50 * (n - 1) /\ 100 * (n - a5) < 50 * (n - 1) + 100
  BY <1>2, <1>3
<1>7. b9 \in Nat /\ a9 \in Nat /\ 100 * b9 > 90 * (n - 1) /\ 100 * (n - a9) < 90 * (n - 1) + 100
  BY <1>2, <1>3
<1>8. 2 * b5 >= n /\ 2 * a5 >= n /\ 10 * b9 >= 9 * n - 9 /\ 10 * a9 >= n
  <2> HIDE DEF b5, a5, b9, a9, n
  <2> QED
    BY <1>1, <1>6, <1>7
<1> QED
  BY <1>4, <1>5, <1>8 DEF Splits

\* Durations() is a sorted list: the i-th shortest exists, and is no longer than the
\* j-th for i <= j.
LEMMA DurationsSorted ==
    ASSUME NEW spans, IsFiniteSet(spans),
           \A s \in spans : s.from \in Nat \cup {None} /\ s.to \in Nat
    PROVE  Durations(spans) \in Seq(Nat) /\ Sorted(Durations(spans))
<1> DEFINE timed == {s \in spans : s.from # None /\ s.to >= s.from}
           Took(s) == s.to - s.from
           n == Cardinality(timed)
           T == {Took(s) : s \in timed}
           Under(t) == {s \in timed : Took(s) < t}
           UpTo(t) == {s \in timed : Took(s) <= t}
           Ith(t, i) == Cardinality(Under(t)) < i /\ i <= Cardinality(UpTo(t))
           took == [i \in 1..n |-> CHOOSE t \in T : Ith(t, i)]
<1>1. took = Durations(spans)
  BY DEF Durations
<1>2. IsFiniteSet(timed) /\ n \in Nat
  BY FS_Subset, FS_CardinalityType
<1>3. T \in SUBSET Nat /\ \A s \in timed : Took(s) \in Nat
  OBVIOUS
<1>4. IsFiniteSet(T)
  <2> DEFINE f == [s \in timed |-> Took(s)]
  <2>1. f \in Surjection(timed, T)
    BY DEF Surjection
  <2> HIDE DEF f, timed, T
  <2> QED
    BY <1>2, <2>1, FS_Surjection
<1>5. \A t : /\ IsFiniteSet(Under(t)) /\ Cardinality(Under(t)) \in Nat
             /\ IsFiniteSet(UpTo(t)) /\ Cardinality(UpTo(t)) \in Nat
  <2> SUFFICES ASSUME NEW t
               PROVE  /\ IsFiniteSet(Under(t)) /\ Cardinality(Under(t)) \in Nat
                      /\ IsFiniteSet(UpTo(t)) /\ Cardinality(UpTo(t)) \in Nat
    OBVIOUS
  <2>1. Under(t) \in SUBSET timed /\ UpTo(t) \in SUBSET timed
    OBVIOUS
  <2> HIDE DEF timed, Under, UpTo
  <2> QED
    BY <1>2, <2>1, FS_Subset, FS_CardinalityType
<1>6. ASSUME NEW i \in 1..n PROVE \E t \in T : Ith(t, i)
  <2> DEFINE G == {t \in T : i <= Cardinality(UpTo(t))}
  <2>1. T # {}
    <3>1. timed # {}
      BY <1>2, FS_EmptySet
    <3> QED
      BY <3>1
  <2>2. G # {}
    <3>1. Max(T) \in T /\ \A y \in T : Max(T) >= y
      <4>1. T \in SUBSET Int
        BY <1>3
      <4> HIDE DEF T
      <4> QED
        BY <1>4, <2>1, <4>1, FiniteHasEnds
    <3> DEFINE m == Max(T)
    <3> HIDE DEF m
    <3>2. m \in T /\ \A y \in T : m >= y
      BY <3>1 DEF m
    <3>3. UpTo(m) = timed
      BY <1>3, <3>2
    <3>4. i <= Cardinality(UpTo(m))
      BY <3>3
    <3> QED
      BY <3>2, <3>4
  <2> DEFINE m == Min(G)
  <2>3. m \in G /\ \A y \in G : m <= y
    <3>1. G \in SUBSET T
      OBVIOUS
    <3>2. G \in SUBSET Int
      BY <1>3
    <3> HIDE DEF G, T
    <3>3. IsFiniteSet(G)
      BY <1>4, <3>1, FS_Subset
    <3> QED
      BY <2>2, <3>2, <3>3, FiniteHasEnds
  <2> HIDE DEF m
  <2>4. m \in T /\ m \in Nat /\ i <= Cardinality(UpTo(m))
    BY <1>3, <2>3
  <2> DEFINE L == {t \in T : t < m}
  <2>5. CASE L = {}
    <3>1. Under(m) = {}
      BY <1>3, <2>5
    <3>2. Cardinality(Under(m)) = 0
      BY <3>1, FS_EmptySet
    <3>3. Ith(m, i)
      BY <2>4, <3>2
    <3> HIDE DEF Ith, T
    <3> QED
      BY <2>4, <3>3
  <2>6. CASE L # {}
    <3> DEFINE y == Max(L)
    <3>1. y \in L /\ \A z \in L : y >= z
      <4>1. L \in SUBSET Int /\ IsFiniteSet(L)
        BY <1>3, <1>4, FS_Subset
      <4> HIDE DEF L
      <4> QED
        BY <2>6, <4>1, FiniteHasEnds
    <3> HIDE DEF y
    <3>2. y \in T /\ y \in Nat /\ y < m
      BY <1>3, <3>1
    <3>3. ~(i <= Cardinality(UpTo(y)))
      <4>1. y \notin G
        BY <2>3, <2>4, <3>2
      <4> QED
        BY <3>2, <4>1
    <3>4. Under(m) = UpTo(y)
      <4>1. ASSUME NEW s \in timed PROVE Took(s) < m <=> Took(s) <= y
        <5>1. Took(s) \in T /\ Took(s) \in Nat
          BY <1>3
        <5>2. Took(s) < m => Took(s) <= y
          BY <3>1, <3>2, <5>1
        <5> HIDE DEF Took
        <5>3. Took(s) <= y => Took(s) < m
          BY <2>4, <3>2, <5>1
        <5> QED
          BY <5>2, <5>3
      <4> QED
        BY <4>1
    <3>5. Cardinality(Under(m)) < i
      <4>1. Cardinality(UpTo(y)) \in Nat
        BY <1>5
      <4> HIDE DEF Under, UpTo
      <4> QED
        BY <3>3, <3>4, <4>1
    <3>6. Ith(m, i)
      BY <2>4, <3>5
    <3> HIDE DEF Ith, T
    <3> QED
      BY <2>4, <3>6
  <2> QED
    BY <2>5, <2>6
<1>7. ASSUME NEW i \in 1..n PROVE took[i] \in T /\ Ith(took[i], i) /\ took[i] \in Nat
  <2>1. took[i] = CHOOSE t \in T : Ith(t, i)
    OBVIOUS
  <2> HIDE DEF took, Ith
  <2>2. took[i] \in T /\ Ith(took[i], i)
    BY <1>6, <2>1
  <2> QED
    BY <1>3, <2>2
<1>8. DOMAIN took = 1..n /\ took = [i \in 1..n |-> took[i]]
  <2> HIDE DEF Ith, T, n
  <2> QED
    OBVIOUS
<1> HIDE DEF took
<1>9. took \in Seq(Nat) /\ Len(took) = n
  <2>1. took \in [1..n -> Nat]
    BY <1>7, <1>8
  <2> HIDE DEF n
  <2> QED
    BY <1>2, <2>1
<1>10. ASSUME NEW i \in 1..n, NEW j \in 1..n, i <= j PROVE took[i] <= took[j]
  <2>0. took[i] \in Nat /\ took[j] \in Nat
    <3> HIDE DEF Ith, T
    <3> QED
      BY <1>7
  <2> SUFFICES ASSUME took[j] < took[i] PROVE FALSE
    BY <2>0
  <2>1. UpTo(took[j]) \subseteq Under(took[i])
    <3> SUFFICES ASSUME NEW s \in timed, Took(s) <= took[j] PROVE Took(s) < took[i]
      OBVIOUS
    <3>1. Took(s) \in Nat /\ took[j] \in Nat /\ took[i] \in Nat
      BY <1>3, <1>7
    <3> HIDE DEF Took
    <3> QED
      BY <3>1
  <2>2. Cardinality(UpTo(took[j])) <= Cardinality(Under(took[i]))
    <3> HIDE DEF UpTo, Under
    <3> QED
      BY <1>5, <2>1, FS_Subset
  <2>3. j <= Cardinality(UpTo(took[j])) /\ Cardinality(Under(took[i])) < i
    BY <1>7
  <2>4. Cardinality(UpTo(took[j])) \in Nat /\ Cardinality(Under(took[i])) \in Nat
    BY <1>5
  <2> HIDE DEF UpTo, Under, n
  <2> QED
    BY <1>2, <1>10, <2>2, <2>3, <2>4
<1> HIDE DEF n, timed, T
<1>11. Sorted(took)
  BY <1>9, <1>10 DEF Sorted
<1> QED
  BY <1>1, <1>9, <1>11

LEMMA StatsHold == ASSUME NEW c \in Case PROVE StatsSplit(c)
<1> DEFINE closed == ClosedIn(c.beads, c.window, c.now)
<1>1. c.beads \in SUBSET Beads /\ IsFiniteSet(c.beads)
  BY HistoryAssumption DEF Case
<1>2. ASSUME NEW b \in closed
      PROVE  /\ b.closedAt \in Nat /\ b.createdAt \in Nat \cup {None}
             /\ b.startedAt \in Nat \cup {None}
  BY <1>1, HistoryAssumption DEF ClosedIn, Within, Beads, MaybeStamp
<1>3. IsFiniteSet(closed)
  BY <1>1, FS_Subset DEF ClosedIn
<1> HIDE DEF closed
<1>4. Leads(closed) \in Seq(Nat) /\ Sorted(Leads(closed))
  <2> DEFINE spans == {Span(b, b.createdAt) : b \in closed}
             f == [b \in closed |-> Span(b, b.createdAt)]
  <2>1. \A s \in spans : s.from \in Nat \cup {None} /\ s.to \in Nat
    BY <1>2 DEF Span
  <2>2. f \in Surjection(closed, spans)
    BY DEF Surjection
  <2> HIDE DEF f, spans
  <2>3. IsFiniteSet(spans)
    BY <1>3, <2>2, FS_Surjection
  <2> QED
    BY <2>1, <2>3, DurationsSorted DEF Leads, spans
<1>5. Cycles(closed) \in Seq(Nat) /\ Sorted(Cycles(closed))
  <2> DEFINE spans == {Span(b, b.startedAt) : b \in closed}
             f == [b \in closed |-> Span(b, b.startedAt)]
  <2>1. \A s \in spans : s.from \in Nat \cup {None} /\ s.to \in Nat
    BY <1>2 DEF Span
  <2>2. f \in Surjection(closed, spans)
    BY DEF Surjection
  <2> HIDE DEF f, spans
  <2>3. IsFiniteSet(spans)
    BY <1>3, <2>2, FS_Surjection
  <2> QED
    BY <2>1, <2>3, DurationsSorted DEF Cycles, spans
<1> QED
  BY <1>4, <1>5, SplitsHolds DEF StatsSplit, closed

\* The median and the p90 of the lead and cycle times split them as they should.
THEOREM PercentilesSplitHolds == PageSpec => []PercentilesSplit
<1>1. Unsplit = {}
  BY StatsHold DEF Unsplit
<1>2. PercentilesSplit
  BY <1>1 DEF PercentilesSplit
<1> QED
  BY <1>2, PTL

--------------------------------------------------------------------------------
(* The status timeline.                                                     *)

Entry == [status: Status, when: MaybeStamp]

LEMMA ChangesType ==
    ASSUME NEW log \in Seq(Entry)
    PROVE  /\ Changes(log) \in SUBSET (1..Len(log)) /\ Changes(log) \in SUBSET Nat
           /\ IsFiniteSet(Changes(log)) /\ Cardinality(Changes(log)) \in Nat
<1>1. Changes(log) \in SUBSET (1..Len(log)) /\ Len(log) \in Nat
  BY DEF Changes
<1>2. IsFiniteSet(1..Len(log))
  BY <1>1, FS_Interval
<1>3. IsFiniteSet(Changes(log))
  BY <1>1, <1>2, FS_Subset
<1> QED
  BY <1>1, <1>3, FS_CardinalityType

\* The changes are numbered from 1 in their order.
LEMMA UntilCounts ==
    ASSUME NEW log \in Seq(Entry)
    PROVE  /\ \A i \in Changes(log) : Cardinality(Until(log, i)) \in 1..Cardinality(Changes(log))
           /\ \A i, j \in Changes(log) :
                 i < j <=> Cardinality(Until(log, i)) < Cardinality(Until(log, j))
           /\ \A k \in 1..Cardinality(Changes(log)) :
                 \E i \in Changes(log) : Cardinality(Until(log, i)) = k
<1> DEFINE C == Changes(log)
           n == Cardinality(C)
           U(i) == Until(log, i)
           r == [i \in C |-> Cardinality(U(i))]
<1>1. C \in SUBSET Nat /\ IsFiniteSet(C) /\ n \in Nat
  BY ChangesType
<1>2. ASSUME NEW i \in C
      PROVE  /\ U(i) \in SUBSET C /\ IsFiniteSet(U(i)) /\ i \in U(i)
             /\ Cardinality(U(i)) \in 1..n
  <2>1. U(i) \in SUBSET C /\ i \in U(i)
    BY <1>1 DEF Until
  <2> HIDE DEF C, U
  <2>2. IsFiniteSet(U(i)) /\ Cardinality(U(i)) <= n /\ Cardinality(U(i)) \in Nat
    BY <1>1, <2>1, FS_Subset, FS_CardinalityType
  <2>3. Cardinality(U(i)) # 0
    BY <2>1, <2>2, FS_EmptySet
  <2> HIDE DEF n
  <2> QED
    BY <1>1, <2>1, <2>2, <2>3
<1>3. ASSUME NEW i \in C, NEW j \in C, i < j
      PROVE  Cardinality(U(i)) < Cardinality(U(j))
  <2>1. U(i) \in SUBSET U(j) /\ j \notin U(i) /\ j \in U(j)
    BY <1>1, <1>3 DEF Until
  <2>2. Cardinality(U(i)) <= Cardinality(U(j)) /\ Cardinality(U(i)) # Cardinality(U(j))
    <3> HIDE DEF U
    <3> QED
      BY <1>2, <2>1, FS_Subset
  <2>3. Cardinality(U(i)) \in Nat /\ Cardinality(U(j)) \in Nat
    BY <1>2
  <2> HIDE DEF U
  <2> QED
    BY <2>2, <2>3
<1>4. ASSUME NEW i \in C, NEW j \in C
      PROVE  i < j <=> Cardinality(U(i)) < Cardinality(U(j))
  <2>1. i \in Nat /\ j \in Nat /\ Cardinality(U(i)) \in Nat /\ Cardinality(U(j)) \in Nat
    BY <1>1, <1>2
  <2>2. i < j => Cardinality(U(i)) < Cardinality(U(j))
    BY <1>3
  <2>3. j < i => Cardinality(U(j)) < Cardinality(U(i))
    BY <1>3
  <2> HIDE DEF U
  <2> QED
    BY <2>1, <2>2, <2>3
<1>5. r \in Injection(C, 1..n)
  <2>1. r \in [C -> 1..n]
    BY <1>2
  <2>2. ASSUME NEW i \in C, NEW j \in C, r[i] = r[j] PROVE i = j
    <3>1. i \in Nat /\ j \in Nat /\ Cardinality(U(i)) \in Nat /\ Cardinality(U(i)) = Cardinality(U(j))
      BY <1>1, <1>2, <2>2
    <3> HIDE DEF U
    <3> QED
      BY <1>4, <3>1
  <2> HIDE DEF r
  <2> QED
    BY <2>1, <2>2 DEF Injection, IsInjective
<1>6. r \in Surjection(C, 1..n)
  <2>1. IsFiniteSet(1..n) /\ Cardinality(1..n) = n
    BY <1>1, FS_Interval
  <2> HIDE DEF r
  <2> QED
    BY <1>5, <2>1, FS_Injection
<1>7. ASSUME NEW k \in 1..n PROVE \E i \in C : Cardinality(U(i)) = k
  <2>1. PICK i \in C : r[i] = k
    <3> HIDE DEF r
    <3> QED
      BY <1>6 DEF Surjection
  <2> QED
    BY <2>1
<1> QED
  BY <1>2, <1>4, <1>7

\* Where the k-th change is.
At(log, k) == CHOOSE i \in Changes(log) : Cardinality(Until(log, i)) = k

LEMMA AtHolds ==
    ASSUME NEW log \in Seq(Entry)
    PROVE  LET n == Cardinality(Changes(log))
           IN  /\ \A k \in 1..n : /\ At(log, k) \in Changes(log)
                                  /\ Cardinality(Until(log, At(log, k))) = k
               /\ \A i \in Changes(log) : At(log, Cardinality(Until(log, i))) = i
               /\ Stops(log) = [k \in 1..n |-> log[At(log, k)]]
<1> DEFINE n == Cardinality(Changes(log))
<1>1. ASSUME NEW k \in 1..n
      PROVE  At(log, k) \in Changes(log) /\ Cardinality(Until(log, At(log, k))) = k
  BY UntilCounts DEF At
<1>2. ASSUME NEW i \in Changes(log) PROVE At(log, Cardinality(Until(log, i))) = i
  <2> DEFINE k == Cardinality(Until(log, i))
             j == At(log, k)
  <2>1. k \in 1..n
    BY UntilCounts
  <2>2. j \in Changes(log) /\ Cardinality(Until(log, j)) = k
    BY <1>1, <2>1
  <2> HIDE DEF j
  <2>3. ~(i < j) /\ ~(j < i)
    <3>1. k \in Nat /\ ~(k < k)
      BY <2>1
    <3> QED
      BY <2>2, <3>1, UntilCounts
  <2>4. i \in Nat /\ j \in Nat
    BY <2>2, ChangesType
  <2>5. i = j
    BY <2>3, <2>4
  <2> QED
    BY <2>5 DEF j
<1>3. Stops(log) = [k \in 1..n |-> log[At(log, k)]]
  BY DEF Stops, At
<1> QED
  BY <1>1, <1>2, <1>3

\* The last change by a commit that has a status tells that status.
LEMMA LastChangeTells ==
    ASSUME NEW log \in Seq(Entry), NEW i \in 1..Len(log), log[i].status # "none"
    PROVE  /\ Until(log, i) # {} /\ Max(Until(log, i)) \in Until(log, i)
           /\ \A j \in Until(log, i) : Max(Until(log, i)) >= j
           /\ log[Max(Until(log, i))].status = log[i].status
<1> DEFINE C == Changes(log)
           U(x) == Until(log, x)
           Told(x) == /\ U(x) # {}
                      /\ Max(U(x)) \in U(x) /\ \A j \in U(x) : Max(U(x)) >= j
                      /\ log[Max(U(x))].status = log[x].status
           T == {m \in Nat : \A x \in 1..Len(log) : x <= m /\ log[x].status # "none" => Told(x)}
<1>0. Len(log) \in Nat /\ DOMAIN log = 1..Len(log)
  OBVIOUS
<1>1. C \in SUBSET Nat /\ IsFiniteSet(C)
  BY ChangesType
<1>2. ASSUME NEW x, U(x) # {}
      PROVE  Max(U(x)) \in U(x) /\ \A j \in U(x) : Max(U(x)) >= j
  <2>1. U(x) \in SUBSET C
    BY DEF Until
  <2> HIDE DEF U, C
  <2>2. IsFiniteSet(U(x))
    BY <1>1, <2>1, FS_Subset
  <2>3. U(x) \in SUBSET Int
    <3>1. \A j \in U(x) : j \in Nat
      BY <1>1, <2>1
    <3> QED
      BY <3>1
  <2> QED
    BY <1>2, <2>2, <2>3, FiniteHasEnds
<1>3. 0 \in T
  <2>1. \A x \in 1..Len(log) : ~(x <= 0)
    BY <1>0
  <2> HIDE DEF Told
  <2> QED
    BY <2>1
<1>4. ASSUME NEW m \in Nat, m \in T PROVE m + 1 \in T
  <2> SUFFICES ASSUME NEW x \in 1..Len(log), x <= m + 1, log[x].status # "none" PROVE Told(x)
    <3> HIDE DEF Told
    <3> QED
      BY <1>4
  <2> DEFINE seen == {j \in 1..x - 1 : log[j].status # "none"}
  <2>0. x \in Nat
    BY <1>0
  <2>1. CASE x \in C
    <3>1. x \in U(x) /\ \A j \in U(x) : x >= j
      BY <1>1, <2>1 DEF Until
    <3>2. Max(U(x)) \in U(x) /\ Max(U(x)) >= x
      BY <1>2, <3>1
    <3>3. Max(U(x)) \in Nat
      BY <1>1, <3>2 DEF Until
    <3>4. Max(U(x)) = x
      BY <2>0, <3>1, <3>2, <3>3
    <3> QED
      BY <3>1, <3>4
  <2>2. CASE x \notin C
    <3>1. seen # {} /\ log[Max(seen)].status = log[x].status
      BY <1>0, <2>2 DEF Changes
    <3> DEFINE s == Max(seen)
    <3>2. s \in seen /\ \A j \in seen : s >= j
      <4>1. seen \in SUBSET (1..x - 1) /\ 1..x - 1 \in SUBSET Int
        BY <2>0
      <4>2. IsFiniteSet(1..x - 1)
        BY <2>0, FS_Interval
      <4> HIDE DEF seen
      <4>3. seen \in SUBSET Int
        BY <4>1
      <4>4. IsFiniteSet(seen)
        BY <4>1, <4>2, FS_Subset
      <4> QED
        BY <3>1, <4>3, <4>4, FiniteHasEnds
    <3> HIDE DEF s
    <3>3. s \in 1..Len(log) /\ s < x /\ s <= m /\ log[s].status # "none" /\ s \in Nat
      BY <1>0, <2>0, <3>2
    <3>4. Told(s)
      <4> HIDE DEF Told
      <4> QED
        BY <1>4, <3>3
    <3>5. U(x) = U(s)
      <4>1. ASSUME NEW j \in C PROVE j <= x <=> j <= s
        <5>1. j \in Nat /\ j \in 1..Len(log) /\ log[j].status # "none"
          BY <1>1 DEF Changes
        <5>2. j # x
          BY <2>2
        <5>3. j < x => j <= s
          <6>1. j < x => j \in seen
            BY <2>0, <5>1
          <6> QED
            BY <3>2, <3>3, <5>1, <6>1
        <5> QED
          BY <2>0, <3>3, <5>1, <5>2, <5>3
      <4> QED
        BY <4>1 DEF Until
    <3>6. log[s].status = log[x].status
      BY <3>1 DEF s
    <3> HIDE DEF U
    <3> QED
      BY <3>4, <3>5, <3>6
  <2> QED
    BY <2>1, <2>2
<1>5. Nat \subseteq T
  <2> HIDE DEF T
  <2> QED
    BY <1>3, <1>4, NatInSet
<1>6. i \in Nat /\ i <= i
  BY <1>0
<1>7. Told(i)
  <2> HIDE DEF Told
  <2> QED
    BY <1>5, <1>6
<1> QED
  BY <1>7

\* The k-th stop tells the status of the k-th change, and none of the changes after
\* it comes before the next stop.
LEMMA StopsHold ==
    ASSUME NEW log \in Seq(Entry)
    PROVE  LET stops == Stops(log)
           IN  /\ stops \in Seq(Entry) /\ Len(stops) = Cardinality(Changes(log))
               /\ \A i \in DOMAIN log : log[i].status # "none" =>
                    stops[Cardinality(Until(log, i))].status = log[i].status
               /\ \A k \in 1..Len(stops) - 1 : stops[k].status # stops[k + 1].status
<1> DEFINE C == Changes(log)
           n == Cardinality(C)
           stops == Stops(log)
<1>0. Len(log) \in Nat /\ DOMAIN log = 1..Len(log)
  OBVIOUS
<1>1. C \in SUBSET (1..Len(log)) /\ C \in SUBSET Nat /\ n \in Nat
  BY ChangesType
<1>2. stops = [k \in 1..n |-> log[At(log, k)]]
  BY AtHolds
<1>3. ASSUME NEW k \in 1..n PROVE At(log, k) \in C /\ Cardinality(Until(log, At(log, k))) = k
  BY AtHolds
<1> HIDE DEF n, C, stops
<1>4. stops \in Seq(Entry) /\ Len(stops) = n
  <2>1. ASSUME NEW k \in 1..n PROVE log[At(log, k)] \in Entry
    <3>1. At(log, k) \in 1..Len(log)
      BY <1>1, <1>3
    <3> QED
      BY <3>1
  <2>2. stops \in [1..n -> Entry]
    BY <1>2, <2>1
  <2> QED
    BY <1>1, <2>2
<1>5. ASSUME NEW i \in DOMAIN log, log[i].status # "none"
      PROVE  stops[Cardinality(Until(log, i))].status = log[i].status
  <2> DEFINE m == Max(Until(log, i))
             k == Cardinality(Until(log, m))
  <2>1. m \in Until(log, i) /\ (\A j \in Until(log, i) : m >= j) /\ log[m].status = log[i].status
    BY <1>0, <1>5, LastChangeTells
  <2> HIDE DEF m
  <2>2. m \in C /\ m \in Nat /\ i \in Nat /\ m <= i
    BY <1>0, <1>1, <2>1 DEF Until, C
  <2>3. Until(log, i) = Until(log, m)
    <3>1. ASSUME NEW j \in C PROVE j <= i <=> j <= m
      <4>1. j \in Nat
        BY <1>1
      <4>2. j <= i => j <= m
        BY <2>1, <2>2, <4>1 DEF Until, C
      <4> QED
        BY <2>2, <4>1, <4>2
    <3> QED
      BY <3>1 DEF Until, C
  <2>4. k \in 1..n /\ At(log, k) = m
    BY <2>2, UntilCounts, AtHolds DEF C, n
  <2>5. stops[k] = log[m]
    BY <1>2, <2>4
  <2> QED
    BY <2>1, <2>3, <2>5
<1>6. ASSUME NEW k \in 1..n - 1 PROVE stops[k].status # stops[k + 1].status
  <2> DEFINE a == At(log, k)
             b == At(log, k + 1)
             seen == {j \in 1..b - 1 : log[j].status # "none"}
             s == Max(seen)
  <2>0. k \in 1..n /\ k + 1 \in 1..n /\ k \in Nat
    BY <1>1
  <2>1. /\ a \in C /\ Cardinality(Until(log, a)) = k
        /\ b \in C /\ Cardinality(Until(log, b)) = k + 1
    BY <1>3, <2>0
  <2>2. stops[k] = log[a] /\ stops[k + 1] = log[b]
    BY <1>2, <2>0
  <2> HIDE DEF a, b
  <2>3. a \in Nat /\ b \in Nat /\ a \in 1..Len(log) /\ b \in 1..Len(log)
    BY <1>1, <2>1
  <2>4. a < b
    <3>1. k < k + 1
      BY <2>0
    <3> QED
      BY <2>1, <3>1, UntilCounts DEF C
  <2>5. log[a].status # "none" /\ log[b].status # "none"
    BY <2>1 DEF C, Changes
  <2>6. a \in seen
    BY <1>0, <2>3, <2>4, <2>5
  <2>7. s \in seen /\ \A j \in seen : s >= j
    <3>1. seen \in SUBSET (1..b - 1) /\ 1..b - 1 \in SUBSET Int
      BY <2>3
    <3>2. IsFiniteSet(1..b - 1)
      BY <2>3, FS_Interval
    <3> HIDE DEF seen
    <3>3. seen \in SUBSET Int /\ seen # {}
      BY <2>6, <3>1
    <3>4. IsFiniteSet(seen)
      BY <3>1, <3>2, FS_Subset
    <3> QED
      BY <3>3, <3>4, FiniteHasEnds
  <2>8. log[s].status # log[b].status
    BY <2>1, <2>6 DEF C, Changes
  <2> HIDE DEF s
  <2>9. s \in 1..Len(log) /\ s \in Nat /\ s < b /\ a <= s /\ log[s].status # "none"
    BY <1>0, <2>3, <2>6, <2>7
  <2> DEFINE m == Max(Until(log, s))
  <2>10. m \in Until(log, s) /\ (\A j \in Until(log, s) : m >= j) /\ log[m].status = log[s].status
    BY <2>9, LastChangeTells
  <2> HIDE DEF m
  <2>11. m \in C /\ m \in Nat /\ m <= s /\ a <= m
    <3>1. m \in C /\ m <= s /\ a \in Until(log, s)
      BY <2>1, <2>9, <2>10 DEF Until, C
    <3> QED
      BY <1>1, <2>10, <3>1
  <2>12. m = a
    <3> SUFFICES ASSUME a < m PROVE FALSE
      BY <2>3, <2>11
    <3> DEFINE c == Cardinality(Until(log, m))
    <3>1. m < b
      BY <2>3, <2>9, <2>11
    <3>2. c \in 1..n
      BY <2>11, UntilCounts DEF C, n
    <3>3. k < c /\ c < k + 1
      BY <2>1, <2>11, <3>1, UntilCounts DEF C
    <3> HIDE DEF c
    <3> QED
      BY <1>1, <2>0, <3>2, <3>3
  <2> QED
    BY <2>2, <2>8, <2>10, <2>12
<1>7. 1..Len(stops) - 1 = 1..n - 1
  BY <1>4
<1> QED
  BY <1>4, <1>5, <1>6, <1>7 DEF stops, n, C

LEMMA TimelineHolds == ASSUME NEW log \in Log PROVE ReadsBack(log)
<1> DEFINE stops == Stops(log)
           n == Len(stops)
<1>0. None \notin Nat /\ log \in Seq(Entry)
  <2>1. None \notin Nat
    BY HistoryAssumption
  <2>2. log \in Seq(Entry)
    BY Zenon, HistoryAssumption DEF Entry
  <2> QED
    BY <2>1, <2>2
<1>1. stops \in Seq(Entry)
  BY <1>0, StopsHold
<1>2. n \in Nat /\ DOMAIN stops = 1..n
  BY <1>1
<1>3. ASSUME NEW k \in 1..n PROVE stops[k].when \in Nat \cup {None}
  <2>1. stops[k] \in Entry
    BY <1>1
  <2> QED
    BY <2>1, HistoryAssumption DEF Entry, MaybeStamp
<1> HIDE DEF stops, n
<1>4. ASSUME stops # <<>>,
             \A k \in DOMAIN stops : stops[k].when # None,
             \A k \in 1..n - 1 : stops[k].when <= stops[k + 1].when
      PROVE  Total([k \in 1..n - 1 |-> Dwell(stops, k)]) = stops[n].when - stops[1].when
  <2> DEFINE w == [k \in 1..n |-> stops[k].when]
  <2>1. n \in Nat \ {0}
    BY <1>1, <1>2, <1>4 DEF n
  <2>2. w \in [1..n -> Nat]
    BY <1>2, <1>3, <1>4
  <2>3. ASSUME NEW k \in 1..n - 1
        PROVE  /\ k \in 1..n /\ k + 1 \in 1..n /\ k # n
               /\ w[k] = stops[k].when /\ w[k + 1] = stops[k + 1].when
               /\ w[k] \in Nat /\ w[k + 1] \in Nat /\ w[k] <= w[k + 1]
    <3>1. k \in 1..n /\ k + 1 \in 1..n /\ k # n
      BY <2>1
    <3>2. w[k] = stops[k].when /\ w[k + 1] = stops[k + 1].when
      BY <3>1
    <3> HIDE DEF w
    <3>3. w[k] \in Nat /\ w[k + 1] \in Nat
      BY <2>2, <3>1
    <3> QED
      BY <1>4, <3>1, <3>2, <3>3
  <2>4. w[1] = stops[1].when /\ w[n] = stops[n].when
    BY <2>1
  <2> HIDE DEF w
  <2>5. ASSUME NEW k \in 1..n - 1 PROVE Dwell(stops, k) = w[k + 1] - w[k]
    <3> DEFINE start == stops[k].when
               end == stops[k + 1].when
    <3>1. start = w[k] /\ end = w[k + 1] /\ start # None /\ end # None /\ ~(end < start)
      BY <1>0, <2>3
    <3>2. Dwell(stops, k) = end - start
      <4> HIDE DEF start, end
      <4>1. k # Len(stops)
        BY <2>3 DEF n
      <4> QED
        BY <3>1, <4>1 DEF Dwell, start, end
    <3> QED
      BY <3>1, <3>2
  <2>6. [k \in 1..n - 1 |-> Dwell(stops, k)] = [k \in 1..n - 1 |-> w[k + 1] - w[k]]
    BY <2>5
  <2>7. Total([k \in 1..n - 1 |-> w[k + 1] - w[k]]) = w[n] - w[1]
    BY <2>1, <2>2, <2>3, Telescopes
  <2> QED
    BY <2>4, <2>6, <2>7
<1> QED
  BY <1>0, <1>4, StopsHold DEF ReadsBack, stops, n

\* Every history of a bead is read back as it was.
THEOREM TimelineReadsBackHolds == PageSpec => []TimelineReadsBack
<1>1. Misread = {}
  BY TimelineHolds DEF Misread
<1>2. TimelineReadsBack
  BY <1>1 DEF TimelineReadsBack
<1> QED
  BY <1>2, PTL

--------------------------------------------------------------------------------
(* The page: types.                                                         *)

USE HistoryAssumption, HistoryPageAssumption

Bounds == [changes: 0..MaxChanges, clicks: 0..MaxClicks, reloads: 0..MaxReloads]

LEMMA OneMore ==
    ASSUME bounds \in Bounds
    PROVE  /\ bounds.changes < MaxChanges => [bounds EXCEPT !.changes = @ + 1] \in Bounds
           /\ bounds.clicks < MaxClicks => [bounds EXCEPT !.clicks = @ + 1] \in Bounds
           /\ bounds.reloads < MaxReloads => [bounds EXCEPT !.reloads = @ + 1] \in Bounds
<1>1. MaxChanges \in Nat /\ MaxClicks \in Nat /\ MaxReloads \in Nat
  OBVIOUS
<1> QED
  BY <1>1 DEF Bounds

LEMMA PlainType == Plain \in Window /\ ~Custom(Plain)
  BY DEF Plain, Window, MaybeDate, Custom

LEMMA SizeOrType ==
    ASSUME NEW s \in Size \cup {None}
    PROVE  SizeOr(s) \in Size \cup {None}
  BY DEF SizeOr

LEMMA ClampType ==
    ASSUME NEW s
    PROVE  ClampSize(s) \in Size
  BY DEF ClampSize

LEMMA InitType == PageInit => PageTypeOK
<1> SUFFICES ASSUME PageInit PROVE PageTypeOK
  OBVIOUS
<1>1. clock \in 0..MaxNow /\ closedAt \in ClosedAt /\ listed \in ClosedAt
  BY DEF PageInit
<1>2. stored \in Size \cup {None} /\ shown \in Shown
  BY PlainType DEF PageInit, Shown
<1>3. typed \in [from: MaybeDate, to: MaybeDate]
  BY PlainType DEF PageInit, Typed, Window
<1>4. flight \subseteq Request
  BY PlainType, <1>2, SizeOrType DEF PageInit, Request
<1>5. bounds \in [changes: 0..MaxChanges, clicks: 0..MaxClicks, reloads: 0..MaxReloads]
  BY DEF PageInit
<1>6. chosen \in Named
  BY PlainType, <1>2 DEF PageInit, Named
<1>7. raced \in BOOLEAN /\ walk \in [seen: SUBSET Bead, stayed: SUBSET Bead, whole: BOOLEAN]
  BY DEF PageInit
<1> QED
  BY <1>1, <1>2, <1>3, <1>4, <1>5, <1>6, <1>7 DEF PageTypeOK

LEMMA ChoosesType ==
    ASSUME PageTypeOK, NEW w \in Window, NEW s \in Size, Chooses(w, s),
           stored' \in Size \cup {None}
    PROVE  PageTypeOK'
<1>1. bounds' \in [changes: 0..MaxChanges, clicks: 0..MaxClicks, reloads: 0..MaxReloads]
  BY OneMore DEF PageTypeOK, Chooses, Clicks, Bounds
<1>2. flight' \subseteq Request
  <2>1. [window |-> w, page |-> 1, size |-> s, by |-> "choice"] \in Request
    BY DEF Request
  <2>2. ASSUME NEW r \in flight
        PROVE  (IF r.by = "choice" THEN [r EXCEPT !.by = "turn"] ELSE r) \in Request
    BY DEF PageTypeOK, Request
  <2> QED
    BY <2>1, <2>2 DEF Chooses
<1>3. chosen' \in Named
  BY DEF PageTypeOK, Named, Chooses
<1>4. raced' \in BOOLEAN
  BY DEF Chooses
<1> QED
  BY <1>1, <1>2, <1>3, <1>4 DEF PageTypeOK, Chooses, world

LEMMA TurnsType ==
    ASSUME PageTypeOK, NEW page \in Nat \ {0}, NEW s \in Size \cup {None}, Turns(page, s)
    PROVE  PageTypeOK'
<1>1. bounds' \in [changes: 0..MaxChanges, clicks: 0..MaxClicks, reloads: 0..MaxReloads]
  BY OneMore DEF PageTypeOK, Turns, Clicks, Bounds
<1>2. flight' \subseteq Request
  BY DEF PageTypeOK, Turns, Sends, Request, Shown
<1> QED
  BY <1>1, <1>2 DEF PageTypeOK, Turns, world, pageHistory

LEMMA ActiveWindowType ==
    ASSUME PageTypeOK
    PROVE  ActiveWindow \in Window
  BY PlainType DEF PageTypeOK, ActiveWindow, Shown, Window

LEMMA AnswerType ==
    ASSUME PageTypeOK, NEW r \in flight
    PROVE  Answer(r) \in Shown
<1> DEFINE window == ClosedIn(Fetched(ListedBeads, Low(r.window, clock)), r.window, clock)
<1>1. r.window \in Window /\ r.page \in Nat
  BY DEF PageTypeOK, Request
<1>2. \A b \in window : b.id \in Bead
  BY DEF ClosedIn, Fetched, ListedBeads
<1> HIDE DEF window
<1>3. {b.id : b \in Items(window, r.page, ClampSize(r.size))} \in SUBSET Bead
  BY <1>2 DEF Items
<1>4. HasMore(window, r.page, ClampSize(r.size)) \in BOOLEAN
  BY DEF HasMore
<1> QED
  BY <1>1, <1>3, <1>4, ClampType DEF Answer, Shown, window

LEMMA ArrivesType ==
    ASSUME PageTypeOK, NEW r \in flight, Arrives(r)
    PROVE  PageTypeOK'
<1>1. shown' \in Shown
  BY AnswerType DEF Arrives
<1>2. typed' \in [from: MaybeDate, to: MaybeDate]
  BY DEF Arrives, PageTypeOK, Request, Typed, Window
<1>3. InWindow(r.window) \in SUBSET Bead
  BY DEF InWindow
<1>4. walk' \in [seen: SUBSET Bead, stayed: SUBSET Bead, whole: BOOLEAN]
  <2>1. walk' = Walked(shown', InWindow(r.window))
    BY DEF Arrives
  <2>2. shown'.items \in SUBSET Bead
    BY <1>1 DEF Shown
  <2>3. walk \in [seen: SUBSET Bead, stayed: SUBSET Bead, whole: BOOLEAN]
    BY DEF PageTypeOK
  <2> QED
    BY <1>3, <2>1, <2>2, <2>3 DEF Walked
<1>5. raced' \in BOOLEAN
  BY DEF Arrives, PageTypeOK
<1> QED
  BY <1>1, <1>2, <1>4, <1>5 DEF Arrives, PageTypeOK, world

\* The steps of the world: the browser is left alone.
LEMMA WorldType ==
    ASSUME PageTypeOK,
           Ticks \/ (\E b \in Bead : Closes(b) \/ Reopens(b)) \/ Loads
    PROVE  PageTypeOK' /\ UNCHANGED <<browser, chosen, raced>>
<1>1. CASE Ticks
  BY <1>1 DEF Ticks, PageTypeOK, browser, pageHistory
<1>2. ASSUME NEW b \in Bead, NEW t \in 0..MaxNow \cup {None}, Stamps(b, t)
      PROVE  PageTypeOK' /\ UNCHANGED <<browser, chosen, raced>>
  <2>1. closedAt' \in ClosedAt
    BY <1>2 DEF Stamps, PageTypeOK, ClosedAt
  <2>2. bounds' \in [changes: 0..MaxChanges, clicks: 0..MaxClicks, reloads: 0..MaxReloads]
    BY <1>2, OneMore DEF Stamps, PageTypeOK, Bounds
  <2> QED
    BY <1>2, <2>1, <2>2 DEF Stamps, PageTypeOK, browser, pageHistory
<1>3. CASE \E b \in Bead : Closes(b) \/ Reopens(b)
  BY <1>2, <1>3 DEF Closes, Reopens, PageTypeOK
<1>4. CASE Loads
  <2>1. walk' \in [seen: SUBSET Bead, stayed: SUBSET Bead, whole: BOOLEAN]
    BY <1>4 DEF Loads, PageTypeOK
  <2> QED
    BY <1>4, <2>1 DEF Loads, PageTypeOK, browser
<1> QED
  BY <1>1, <1>3, <1>4

LEMMA UserType ==
    ASSUME PageTypeOK, User
    PROVE  PageTypeOK'
<1>1. /\ shown.window \in Window /\ shown.size \in Size /\ shown.page \in Nat
      /\ typed.from \in MaybeDate /\ typed.to \in MaybeDate
      /\ stored \in Size \cup {None}
  BY DEF PageTypeOK, Shown
<1>2. ASSUME NEW p \in Preset, ChoosesRange(p)
      PROVE  PageTypeOK'
  <2>1. [Plain EXCEPT !.range = p] \in Window
    BY PlainType DEF Window
  <2> QED
    BY <1>1, <1>2, <2>1, ChoosesType DEF ChoosesRange
<1>3. ASSUME NEW dates \in [from: MaybeDate, to: MaybeDate], Types(dates)
      PROVE  PageTypeOK'
  <2>1. bounds' \in [changes: 0..MaxChanges, clicks: 0..MaxClicks, reloads: 0..MaxReloads]
    BY <1>3, OneMore DEF Types, Clicks, PageTypeOK, Bounds
  <2> QED
    BY <1>3, <2>1 DEF Types, PageTypeOK, world, pageHistory
<1>4. CASE Applies
  <2>1. [range |-> Default, from |-> typed.from, to |-> typed.to] \in Window
    BY <1>1 DEF Window
  <2> QED
    BY <1>1, <1>4, <2>1, ChoosesType DEF Applies
<1>5. CASE Clears
  <2>1. [Plain EXCEPT !.range = shown.window.range] \in Window
    BY <1>1, PlainType DEF Window
  <2> QED
    BY <1>1, <1>5, <2>1, ChoosesType DEF Clears
<1>6. ASSUME NEW s \in Size, Sizes(s)
      PROVE  PageTypeOK'
  BY <1>1, <1>6, ChoosesType DEF Sizes
<1>7. CASE Older
  <2>1. shown.page + 1 \in Nat \ {0} /\ shown.size \in Size \cup {None}
    BY <1>1
  <2>2. Turns(shown.page + 1, shown.size)
    BY <1>7 DEF Older
  <2> DEFINE page == shown.page + 1
  <2>3. page \in Nat \ {0} /\ Turns(page, shown.size)
    BY <2>1, <2>2
  <2> HIDE DEF page
  <2> QED
    BY <2>1, <2>3, TurnsType
<1>8. CASE Newer
  <2>0. shown.page > 1
    BY <1>8 DEF Newer
  <2>1. shown.page - 1 \in Nat \ {0} /\ shown.size \in Size \cup {None}
    BY <1>1, <2>0
  <2>2. Turns(shown.page - 1, shown.size)
    BY <1>8 DEF Newer
  <2> DEFINE page == shown.page - 1
  <2>3. page \in Nat \ {0} /\ Turns(page, shown.size)
    BY <2>1, <2>2
  <2> HIDE DEF page
  <2> QED
    BY <2>1, <2>3, TurnsType
<1>9. CASE BackToFirst
  <2>1. SizeOr(stored) \in Size \cup {None}
    BY <1>1, SizeOrType
  <2>2. 1 \in Nat \ {0} /\ Turns(1, SizeOr(stored))
    BY <1>9 DEF BackToFirst
  <2> QED
    BY <2>1, <2>2, TurnsType
<1> QED
  BY <1>2, <1>3, <1>4, <1>5, <1>6, <1>7, <1>8, <1>9 DEF User

LEMMA ReloadsType ==
    ASSUME PageTypeOK, Reloads
    PROVE  PageTypeOK'
<1>1. bounds' \in [changes: 0..MaxChanges, clicks: 0..MaxClicks, reloads: 0..MaxReloads]
  BY OneMore DEF PageTypeOK, Reloads, Bounds
<1>2. flight' \subseteq Request
  <2>1. SizeOr(stored) \in Size \cup {None}
    BY SizeOrType DEF PageTypeOK
  <2> QED
    BY <2>1, ActiveWindowType DEF PageTypeOK, Reloads, Sends, Request
<1>3. raced' \in BOOLEAN
  BY DEF PageTypeOK, Reloads
<1> QED
  BY <1>1, <1>2, <1>3 DEF PageTypeOK, Reloads, world

LEMMA StepType == PageTypeOK /\ [PageNext]_pageVars => PageTypeOK'
<1> SUFFICES ASSUME PageTypeOK, [PageNext]_pageVars PROVE PageTypeOK'
  OBVIOUS
<1>1. CASE Ticks \/ (\E b \in Bead : Closes(b) \/ Reopens(b)) \/ Loads
  BY <1>1, WorldType
<1>2. CASE User
  BY <1>2, UserType
<1>3. CASE Reloads
  BY <1>3, ReloadsType
<1>4. CASE \E r \in flight : Arrives(r)
  BY <1>4, ArrivesType
<1>5. CASE UNCHANGED pageVars
  BY <1>5 DEF pageVars, world, browser, pageHistory, PageTypeOK
<1> QED
  BY <1>1, <1>2, <1>3, <1>4, <1>5 DEF PageNext

\* The page, its requests and the lists keep their types: in particular no
\* request asks for a page before the first.
THEOREM PageTypeCorrect == PageSpec => []PageTypeOK
  BY InitType, StepType, PTL DEF PageSpec

--------------------------------------------------------------------------------
(* The page: the choice.                                                    *)

StoredSize == IF stored = None THEN DefaultSize ELSE stored

\* A custom window has the default range, as api_history resolves it.
DefaultUnder(w) == Custom(w) => w.range = Default

Chosen(w, s) == w = chosen.window /\ s = chosen.size

WindowsResolved ==
    /\ DefaultUnder(shown.window)
    /\ DefaultUnder(chosen.window)
    /\ \A r \in flight : DefaultUnder(r.window)

BlankAtFirst == shown.page = 0 => shown.items = {} /\ ~shown.more

ChoiceCarried ==
    \A r \in flight : r.by = "choice" =>
        r.window = chosen.window /\ (~raced => r.size = chosen.size)

Settled ==
    ~InFlight("choice") /\ ~raced =>
        /\ shown.page > 0 => Chosen(shown.window, shown.size)
        /\ \A r \in flight : Chosen(r.window, ClampSize(r.size))

ChoiceInv ==
    /\ chosen.size = StoredSize
    /\ WindowsResolved
    /\ BlankAtFirst
    /\ ChoiceCarried
    /\ Settled

LEMMA NoneIsNoSize == None \notin Size
<1>1. ASSUME NEW n \in Size
      PROVE  n \in Int
  <2>1. n \in Nat
    BY HistoryAssumption
  <2> QED
    BY <2>1
<1>2. None \notin Int
  BY HistoryAssumption
<1> QED
  BY <1>1, <1>2, Zenon

LEMMA ClampOfSize ==
    ASSUME NEW s \in Size
    PROVE  ClampSize(s) = s /\ ClampSize(SizeOr(s)) = s
  BY NoneIsNoSize DEF ClampSize, SizeOr

LEMMA ClampOfStored ==
    ASSUME PageTypeOK
    PROVE  ClampSize(SizeOr(stored)) = StoredSize
<1>1. CASE stored = None
  BY <1>1, NoneIsNoSize DEF ClampSize, SizeOr, StoredSize
<1>2. CASE stored \in Size
  BY <1>2, ClampOfSize DEF StoredSize
<1> QED
  BY <1>1, <1>2 DEF PageTypeOK

LEMMA InitChoice == PageInit => ChoiceInv
<1> SUFFICES ASSUME PageInit PROVE ChoiceInv
  OBVIOUS
<1>1. PageTypeOK
  BY InitType
<1>2. chosen.size = StoredSize /\ chosen.window = Plain
  BY DEF PageInit, StoredSize
<1>3. DefaultUnder(Plain)
  BY PlainType DEF DefaultUnder
<1>4. /\ shown.window = Plain /\ shown.page = 0 /\ shown.items = {} /\ shown.more = FALSE
      /\ \A r \in flight : r.window = Plain /\ r.size = SizeOr(stored) /\ r.by = "region"
  BY DEF PageInit
<1>5. Settled
  BY <1>1, <1>2, <1>4, ClampOfStored DEF Settled, Chosen
<1> QED
  BY <1>2, <1>3, <1>4, <1>5 DEF ChoiceInv, WindowsResolved, BlankAtFirst, ChoiceCarried

\* The new choice is the only one, and nobody has to be where it is not yet.
LEMMA ChoosesChoice ==
    ASSUME PageTypeOK, ChoiceInv, NEW w \in Window, NEW s \in Size, Chooses(w, s),
           DefaultUnder(w),
           IF s = shown.size THEN stored' = stored ELSE stored' = s
    PROVE  ChoiceInv'
<1> DEFINE new == [window |-> w, page |-> 1, size |-> s, by |-> "choice"]
<1> DEFINE past(r) == IF r.by = "choice" THEN [r EXCEPT !.by = "turn"] ELSE r
<1>1. /\ flight' = {past(r) : r \in flight} \cup {new}
      /\ chosen' = [window |-> w, size |-> IF s = shown.size THEN chosen.size ELSE s]
      /\ shown' = shown
      /\ raced' = ((\E r \in flight : r.by # "region") \/ s # chosen'.size)
  BY DEF Chooses
<1>2. ASSUME NEW r \in flight
      PROVE  past(r).window = r.window /\ past(r).by # "choice"
  BY <1>2 DEF PageTypeOK, Request
<1> HIDE DEF past
<1>0. new.window = w /\ new.size = s /\ new.by = "choice"
  OBVIOUS
<1> HIDE DEF new
<1>3. chosen'.size = StoredSize'
  BY <1>1, NoneIsNoSize DEF ChoiceInv, StoredSize
<1>4. WindowsResolved'
  BY <1>0, <1>1, <1>2 DEF WindowsResolved, ChoiceInv, DefaultUnder, Custom
<1>5. BlankAtFirst'
  BY <1>1 DEF BlankAtFirst, ChoiceInv
<1>6. ChoiceCarried'
  BY <1>0, <1>1, <1>2 DEF ChoiceCarried
<1>7. InFlight("choice")'
  <2>1. new \in flight'
    BY <1>1
  <2> QED
    BY <1>0, <2>1 DEF InFlight
<1> QED
  BY <1>3, <1>4, <1>5, <1>6, <1>7 DEF ChoiceInv, Settled

\* A request for what is shown, or for the active window, by no choice.
LEMMA SendsChoice ==
    ASSUME PageTypeOK, ChoiceInv, NEW r \in Request, r.by # "choice",
           flight' = flight \cup {r},
           UNCHANGED <<shown, stored, chosen>>,
           raced' \in BOOLEAN, raced => raced',
           DefaultUnder(r.window),
           ~InFlight("choice") /\ ~raced' => Chosen(r.window, ClampSize(r.size))
    PROVE  ChoiceInv'
<1>1. chosen'.size = StoredSize'
  BY DEF ChoiceInv, StoredSize
<1>2. WindowsResolved'
  BY DEF ChoiceInv, WindowsResolved, DefaultUnder, Custom
<1>3. BlankAtFirst'
  BY DEF ChoiceInv, BlankAtFirst
<1>4. ChoiceCarried'
  BY DEF ChoiceInv, ChoiceCarried
<1>5. InFlight("choice")' <=> InFlight("choice")
  BY DEF InFlight
<1>6. Settled'
  BY <1>5 DEF ChoiceInv, Settled, Chosen
<1> QED
  BY <1>1, <1>2, <1>3, <1>4, <1>6 DEF ChoiceInv

LEMMA TurnsChoice ==
    ASSUME PageTypeOK, ChoiceInv, NEW page \in Nat \ {0}, NEW s \in Size \cup {None},
           Turns(page, s), shown.page > 0,
           s = shown.size \/ s = SizeOr(stored)
    PROVE  ChoiceInv'
<1> DEFINE r == [window |-> shown.window, page |-> page, size |-> s, by |-> "turn"]
<1>1. shown.size \in Size /\ shown.window \in Window
  BY DEF PageTypeOK, Shown
<1>2. r \in Request /\ r.by # "choice"
  BY <1>1 DEF Request
<1>3. flight' = flight \cup {r} /\ UNCHANGED <<shown, stored, chosen, raced>>
  BY DEF Turns, Sends, pageHistory
<1>4. DefaultUnder(r.window)
  BY DEF ChoiceInv, WindowsResolved
<1>5. ASSUME ~InFlight("choice"), ~raced
      PROVE  Chosen(r.window, ClampSize(r.size))
  <2>1. Chosen(shown.window, shown.size)
    BY <1>5 DEF ChoiceInv, Settled
  <2>2. ClampSize(s) = shown.size \/ ClampSize(s) = chosen.size
    BY <1>1, ClampOfSize, ClampOfStored DEF ChoiceInv
  <2> QED
    BY <2>1, <2>2 DEF Chosen
<1>6. raced' \in BOOLEAN
  BY <1>3 DEF PageTypeOK
<1> HIDE DEF r
<1> QED
  BY <1>2, <1>3, <1>4, <1>5, <1>6, SendsChoice

LEMMA ReloadsChoice ==
    ASSUME PageTypeOK, ChoiceInv, Reloads
    PROVE  ChoiceInv'
<1> DEFINE r == [window |-> ActiveWindow, page |-> 1, size |-> SizeOr(stored), by |-> "region"]
<1>1. r \in Request /\ r.by # "choice"
  <2>1. SizeOr(stored) \in Size \cup {None}
    BY SizeOrType DEF PageTypeOK
  <2> QED
    BY <2>1, ActiveWindowType DEF Request
<1>2. flight' = flight \cup {r} /\ UNCHANGED <<shown, stored, chosen>>
  BY DEF Reloads, Sends
<1>3. raced' = (raced \/ (Custom(shown.window) /\ typed # Typed(shown.window)))
  BY DEF Reloads
<1>4. DefaultUnder(ActiveWindow)
  BY PlainType DEF ChoiceInv, WindowsResolved, DefaultUnder, ActiveWindow, Custom
<1>5. shown.window \in Window /\ raced \in BOOLEAN
  BY DEF PageTypeOK, Shown
<1>6. ASSUME Custom(shown.window) => typed = Typed(shown.window)
      PROVE  ActiveWindow = shown.window
  <2>1. CASE ~Custom(shown.window)
    BY <2>1 DEF ActiveWindow
  <2>2. CASE Custom(shown.window)
    <3>1. typed.from = shown.window.from /\ typed.to = shown.window.to
      BY <1>6, <2>2 DEF Typed
    <3>2. ActiveWindow = [range |-> Default, from |-> shown.window.from,
                          to |-> shown.window.to]
      BY <2>2, <3>1 DEF ActiveWindow, Custom
    <3>3. shown.window.range = Default
      BY <2>2 DEF ChoiceInv, WindowsResolved, DefaultUnder
    <3> QED
      BY <1>5, <3>2, <3>3 DEF Window
  <2> QED
    BY <2>1, <2>2
<1>7. ASSUME ~InFlight("choice"), ~raced'
      PROVE  Chosen(r.window, ClampSize(r.size))
  <2>1. ~raced /\ ActiveWindow = shown.window
    BY <1>3, <1>6, <1>7
  <2>2. shown.page > 0
    BY DEF Reloads
  <2>3. Chosen(shown.window, shown.size)
    BY <1>7, <2>1, <2>2 DEF ChoiceInv, Settled
  <2> QED
    BY <2>1, <2>3, ClampOfStored DEF ChoiceInv, Chosen
<1>8. raced' \in BOOLEAN /\ (raced => raced')
  BY <1>3, <1>5
<1> HIDE DEF r
<1> QED
  BY <1>1, <1>2, <1>4, <1>7, <1>8, SendsChoice DEF r

LEMMA ArrivesChoice ==
    ASSUME PageTypeOK, ChoiceInv, NEW r \in flight, Arrives(r)
    PROVE  ChoiceInv'
<1>1. /\ flight' = flight \ {r} /\ UNCHANGED <<stored, chosen>>
      /\ shown'.window = r.window /\ shown'.page = r.page
      /\ shown'.size = ClampSize(r.size)
      /\ raced' = (raced \/ (r.by = "choice" /\ flight' # {}))
  BY DEF Arrives, Answer
<1>2. r \in Request /\ raced \in BOOLEAN
  BY DEF PageTypeOK
<1>3. chosen'.size = StoredSize'
  BY <1>1 DEF ChoiceInv, StoredSize
<1>4. WindowsResolved'
  BY <1>1 DEF ChoiceInv, WindowsResolved, DefaultUnder, Custom
<1>5. BlankAtFirst'
  BY <1>1, <1>2 DEF BlankAtFirst, Request
<1>6. ChoiceCarried'
  BY <1>1, <1>2 DEF ChoiceInv, ChoiceCarried
<1>7. ASSUME ~InFlight("choice")', ~raced'
      PROVE  Chosen(r.window, ClampSize(r.size))' /\
             \A s \in flight' : Chosen(s.window, ClampSize(s.size))'
  <2>1. ~raced
    BY <1>1, <1>7
  <2>2. CASE r.by = "choice"
    <3>1. flight' = {}
      BY <1>1, <1>7, <2>2
    <3>2. r.window = chosen.window /\ r.size = chosen.size
      BY <2>1, <2>2 DEF ChoiceInv, ChoiceCarried
    <3>3. chosen.size \in Size
      BY DEF PageTypeOK, Named
    <3> QED
      BY <1>1, <3>1, <3>2, <3>3, ClampOfSize DEF Chosen
  <2>3. CASE r.by # "choice"
    <3>1. ~InFlight("choice")
      BY <1>1, <1>7, <2>3 DEF InFlight
    <3> QED
      BY <1>1, <2>1, <3>1 DEF ChoiceInv, Settled, Chosen
  <2> QED
    BY <2>2, <2>3
<1>8. Settled'
  BY <1>1, <1>7 DEF Settled, Chosen
<1> QED
  BY <1>3, <1>4, <1>5, <1>6, <1>8 DEF ChoiceInv

LEMMA UserChoice ==
    ASSUME PageTypeOK, ChoiceInv, User
    PROVE  ChoiceInv'
<1>1. /\ shown.window \in Window /\ shown.size \in Size /\ shown.page \in Nat
      /\ typed.from \in MaybeDate /\ typed.to \in MaybeDate
      /\ stored \in Size \cup {None}
      /\ shown.page = 0 => shown.items = {} /\ ~shown.more
  BY DEF PageTypeOK, Shown, ChoiceInv, BlankAtFirst
<1>2. ASSUME NEW p \in Preset, ChoosesRange(p)
      PROVE  ChoiceInv'
  <2>1. [Plain EXCEPT !.range = p] \in Window /\ DefaultUnder([Plain EXCEPT !.range = p])
    BY PlainType DEF Window, Plain, DefaultUnder, Custom
  <2> QED
    BY <1>1, <1>2, <2>1, ChoosesChoice DEF ChoosesRange
<1>3. ASSUME NEW dates \in [from: MaybeDate, to: MaybeDate], Types(dates)
      PROVE  ChoiceInv'
  BY <1>3 DEF Types, pageHistory, ChoiceInv, StoredSize, WindowsResolved, BlankAtFirst,
              ChoiceCarried, Settled, InFlight, Chosen
<1>4. CASE Applies
  <2> DEFINE w == [range |-> Default, from |-> typed.from, to |-> typed.to]
  <2>1. w \in Window /\ DefaultUnder(w)
    BY <1>1 DEF Window, DefaultUnder
  <2>2. Chooses(w, shown.size) /\ stored' = stored
    BY <1>4 DEF Applies
  <2> HIDE DEF w
  <2> QED
    BY <1>1, <2>1, <2>2, ChoosesChoice
<1>5. CASE Clears
  <2> DEFINE w == [Plain EXCEPT !.range = shown.window.range]
  <2>1. w \in Window /\ DefaultUnder(w)
    BY <1>1, PlainType DEF Window, Plain, DefaultUnder, Custom
  <2>2. Chooses(w, shown.size) /\ stored' = stored
    BY <1>5 DEF Clears
  <2> HIDE DEF w
  <2> QED
    BY <1>1, <2>1, <2>2, ChoosesChoice
<1>6. ASSUME NEW s \in Size, Sizes(s)
      PROVE  ChoiceInv'
  <2>1. DefaultUnder(shown.window)
    BY DEF ChoiceInv, WindowsResolved
  <2>2. Chooses(shown.window, s) /\ stored' = s /\ s # shown.size
    BY <1>6 DEF Sizes
  <2> QED
    BY <1>1, <2>1, <2>2, ChoosesChoice
<1>7. shown.more \/ shown.items # {} \/ shown.page > 1 => shown.page > 0
  BY <1>1
<1>8. CASE Older
  <2> DEFINE page == shown.page + 1
  <2>1. page \in Nat \ {0} /\ shown.size \in Size \cup {None}
    BY <1>1
  <2>2. Turns(page, shown.size) /\ shown.more
    BY <1>8 DEF Older
  <2> HIDE DEF page
  <2> QED
    BY <1>7, <2>1, <2>2, TurnsChoice
<1>9. CASE Newer
  <2>0. shown.page > 1
    BY <1>9 DEF Newer
  <2> DEFINE page == shown.page - 1
  <2>1. page \in Nat \ {0} /\ shown.size \in Size \cup {None}
    BY <1>1, <2>0
  <2>2. Turns(page, shown.size)
    BY <1>9 DEF Newer
  <2> HIDE DEF page
  <2> QED
    BY <1>7, <2>0, <2>1, <2>2, TurnsChoice
<1>10. CASE BackToFirst
  <2>1. SizeOr(stored) \in Size \cup {None} /\ 1 \in Nat \ {0}
    BY <1>1, SizeOrType
  <2>2. Turns(1, SizeOr(stored)) /\ shown.page > 1
    BY <1>10 DEF BackToFirst
  <2> QED
    BY <1>7, <2>1, <2>2, TurnsChoice
<1> QED
  BY <1>2, <1>3, <1>4, <1>5, <1>6, <1>8, <1>9, <1>10 DEF User

LEMMA StepChoice == PageTypeOK /\ ChoiceInv /\ [PageNext]_pageVars => ChoiceInv'
<1> SUFFICES ASSUME PageTypeOK, ChoiceInv, [PageNext]_pageVars PROVE ChoiceInv'
  OBVIOUS
<1>1. ASSUME UNCHANGED <<browser, chosen, raced>>
      PROVE  ChoiceInv'
  BY <1>1 DEF browser, ChoiceInv, StoredSize, WindowsResolved, BlankAtFirst,
              ChoiceCarried, Settled, InFlight, Chosen
<1>2. CASE Ticks \/ (\E b \in Bead : Closes(b) \/ Reopens(b)) \/ Loads
  BY <1>1, <1>2, WorldType
<1>3. CASE User
  BY <1>3, UserChoice
<1>4. CASE Reloads
  BY <1>4, ReloadsChoice
<1>5. CASE \E r \in flight : Arrives(r)
  BY <1>5, ArrivesChoice
<1>6. CASE UNCHANGED pageVars
  BY <1>1, <1>6 DEF pageVars, pageHistory
<1> QED
  BY <1>2, <1>3, <1>4, <1>5, <1>6 DEF PageNext

\* The window and the size chosen last are those the page shows once it is
\* answered (base.html:62-76, 90-138), for any number of clicks, refreshes and
\* requests in flight.
THEOREM ChoiceStandsHolds == PageSpec => []ChoiceStands
<1>1. ChoiceInv => ChoiceStands
  BY DEF ChoiceInv, Settled, Chosen, ChoiceStands
<1> QED
  BY <1>1, InitType, StepType, InitChoice, StepChoice, PTL DEF PageSpec

--------------------------------------------------------------------------------
(* The page: the walk.                                                      *)
(*                                                                          *)
(* WalkMissesNothing is not inductive: the next answer may be the last page. *)
(* WalkInv adds where a bead stands that was not seen yet: the beads ahead   *)
(* of it fill the pages up to the one that is shown.  They are counted       *)
(* without the lower bound of the window, which moves with the clock and     *)
(* never passes a bead ahead of one inside.                                  *)

Record(b) == [id |-> b, closed |-> TRUE, createdAt |-> None, startedAt |-> None,
              closedAt |-> listed[b]]

Ahead(b, w) ==
    {c \in Bead :
        /\ listed[c] # None
        /\ High(w) # None => listed[c] < High(w)
        /\ listed[c] > listed[b] \/ (listed[c] = listed[b] /\ c < b)}

\* What api_history cuts the page from.
Ranked(w) == ClosedIn(Fetched(ListedBeads, Low(w, clock)), w, clock)

Waiting(b) ==
    /\ listed[b] # None
    /\ Cardinality(Ahead(b, shown.window)) >= shown.page * shown.size

WalkInv ==
    walk.whole /\ shown.page > 0 =>
        /\ \A b \in walk.stayed \ walk.seen : Waiting(b)
        /\ ~shown.more => walk.stayed \subseteq walk.seen

LEMMA HighType ==
    ASSUME NEW w \in Window
    PROVE  High(w) \in Int \cup {None}
<1>1. w.from \in Nat \cup {None} /\ w.to \in Nat \cup {None} /\ Day \in Nat
  BY DEF Window, MaybeDate
<1>2. ToDay(w) \in Nat \cup {None}
  BY <1>1 DEF ToDay
<1>3. ToDay(w) # None => (ToDay(w) + 1) * Day \in Int
  BY <1>1, <1>2
<1> QED
  BY <1>3 DEF High

LEMMA ListedType ==
    ASSUME PageTypeOK, NEW b \in Bead
    PROVE  listed[b] \in Nat \cup {None} /\ b \in Nat
<1>1. listed[b] \in 0..MaxNow \cup {None}
  BY DEF PageTypeOK, ClosedAt
<1>2. 0..MaxNow \subseteq Nat
  OBVIOUS
<1> QED
  BY <1>1, <1>2

LEMMA AheadFinite ==
    ASSUME NEW b, NEW w
    PROVE  IsFiniteSet(Ahead(b, w)) /\ Cardinality(Ahead(b, w)) \in Nat
<1>1. Ahead(b, w) \subseteq Bead
  BY DEF Ahead
<1> QED
  BY <1>1, FS_Subset, FS_CardinalityType

\* The fetch loses none of the window's beads.
LEMMA RankedIsWindow ==
    ASSUME PageTypeOK, NEW w \in Window
    PROVE  Ranked(w) = {Record(b) : b \in InWindow(w)}
<1> DEFINE low == Low(w, clock)
<1> DEFINE high == High(w)
<1>1. low \in Int \cup {None}
  BY LowType DEF PageTypeOK
<1> HIDE DEF low, high
<1>2. ASSUME NEW b \in Bead, listed[b] # None
      PROVE  Record(b) \in Ranked(w) <=> b \in InWindow(w)
  <2>1. /\ Record(b) \in ListedBeads /\ Record(b).closed /\ Record(b).closedAt = listed[b]
        /\ listed[b] \in Nat
    BY <1>2, ListedType DEF Record, ListedBeads
  <2>2. Within(listed[b], low, high) => Record(b) \in Fetched(ListedBeads, low)
    BY <1>1, <2>1, FetchKeeps DEF Within
  <2>3. Record(b) \in Ranked(w) <=> Within(listed[b], low, high)
    BY <2>1, <2>2 DEF Ranked, ClosedIn, Fetched, low, high
  <2> QED
    BY <1>2, <2>3 DEF InWindow, low, high
<1>3. ASSUME NEW x \in Ranked(w)
      PROVE  \E b \in Bead : listed[b] # None /\ x = Record(b)
  BY DEF Ranked, ClosedIn, Fetched, ListedBeads, Record
<1>4. \A b \in InWindow(w) : b \in Bead /\ listed[b] # None
  BY DEF InWindow
<1> QED
  BY <1>2, <1>3, <1>4

\* The rank of a bead on its page counts the beads ahead of it.
LEMMA RankIsAhead ==
    ASSUME PageTypeOK, NEW w \in Window, NEW b \in InWindow(w)
    PROVE  /\ Rank(Record(b), Ranked(w)) = Cardinality(Ahead(b, w))
           /\ Cardinality(Ranked(w)) \in Nat
           /\ Cardinality(Ahead(b, w)) < Cardinality(Ranked(w))
<1> DEFINE low == Low(w, clock)
<1> DEFINE high == High(w)
<1> DEFINE before == {x \in Ranked(w) : Before(x, Record(b))}
<1>1. low \in Int \cup {None} /\ high \in Int \cup {None}
  BY LowType, HighType DEF PageTypeOK
<1>2. b \in Bead /\ listed[b] # None /\ Within(listed[b], low, high) /\ InWindow(w) \subseteq Bead
  BY DEF InWindow
<1>3. ASSUME NEW c \in Bead
      PROVE  c \in Ahead(b, w) <=> c \in InWindow(w) /\ Before(Record(c), Record(b))
  <2>1. listed[b] \in Nat /\ listed[c] \in Nat \cup {None} /\ b \in Nat /\ c \in Nat
    BY <1>2, ListedType
  <2>2. /\ Record(c).closedAt = listed[c] /\ Record(b).closedAt = listed[b]
        /\ Record(c).id = c /\ Record(b).id = b
    BY DEF Record
  <2> HIDE DEF low, high
  <2>3. Before(Record(c), Record(b))
            <=> listed[c] > listed[b] \/ (listed[c] = listed[b] /\ c < b)
    BY <2>2 DEF Before
  <2>4. ASSUME listed[c] # None, listed[c] >= listed[b], high # None => listed[c] < high
        PROVE  Within(listed[c], low, high)
    BY <1>1, <1>2, <2>1, <2>4 DEF Within
  <2>5. Within(listed[c], low, high) => (high # None => listed[c] < high)
    BY DEF Within
  <2>6. c \in InWindow(w) <=> listed[c] # None /\ Within(listed[c], low, high)
    BY DEF InWindow, low, high
  <2>7. c \in Ahead(b, w) <=> /\ listed[c] # None /\ (high # None => listed[c] < high)
                              /\ listed[c] > listed[b] \/ (listed[c] = listed[b] /\ c < b)
    BY DEF Ahead, high
  <2>8. listed[c] # None => listed[c] \in Nat
    BY <2>1
  <2>9. listed[c] # None => ((listed[c] > listed[b] \/ listed[c] = listed[b]) => listed[c] >= listed[b])
    BY <2>1, <2>8
  <2> QED
    BY <2>3, <2>4, <2>5, <2>6, <2>7, <2>9
<1> HIDE DEF low, high
<1>4. before = {Record(c) : c \in Ahead(b, w)}
  <2>1. Ahead(b, w) \subseteq Bead
    BY DEF Ahead
  <2> QED
    BY <1>2, <1>3, <2>1, RankedIsWindow
<1> DEFINE f == [c \in Ahead(b, w) |-> Record(c)]
<1>5. f \in Bijection(Ahead(b, w), before)
  <2>1. \A c, d : Record(c) = Record(d) => c = d
    BY DEF Record
  <2>2. f \in [Ahead(b, w) -> before]
    BY <1>4
  <2>3. f \in Injection(Ahead(b, w), before)
    BY <2>1, <2>2 DEF Injection, IsInjective
  <2>4. f \in Surjection(Ahead(b, w), before)
    BY <1>4, <2>2 DEF Surjection
  <2> QED
    BY <2>3, <2>4 DEF Bijection
<1>6. IsFiniteSet(before) /\ Cardinality(before) = Cardinality(Ahead(b, w))
  BY <1>5, AheadFinite, FS_Bijection DEF ExistsBijection
<1>7. IsFiniteSet(Ranked(w))
  <2>1. IsFiniteSet(InWindow(w))
    BY <1>2, FS_Subset
  <2> DEFINE g == [c \in InWindow(w) |-> Record(c)]
  <2>2. g \in Surjection(InWindow(w), Ranked(w))
    BY RankedIsWindow DEF Surjection
  <2> QED
    BY <2>1, <2>2, FS_Surjection
<1>8. Record(b) \in Ranked(w) /\ Record(b) \notin before /\ before \subseteq Ranked(w)
  <2>1. Record(b).closedAt \in Nat
    BY <1>2, ListedType DEF Record
  <2>2. ~Before(Record(b), Record(b))
    BY <1>2, <2>1, ListedType DEF Before, Record
  <2> QED
    BY <2>2, RankedIsWindow
<1>9. Cardinality(before) < Cardinality(Ranked(w)) /\ Cardinality(Ranked(w)) \in Nat
  BY <1>6, <1>7, <1>8, FS_Subset, FS_CardinalityType
<1> QED
  BY <1>6, <1>9 DEF Rank

LEMMA PageEdges ==
    ASSUME NEW p \in Nat \ {0}, NEW q \in Nat \ {0}, NEW s \in Nat \ {0},
           NEW r \in Nat, r >= p * s, q <= p + 1
    PROVE  r \in ((q - 1) * s)..(q * s - 1) \/ r >= q * s
<1>1. p * s \in Nat /\ q * s \in Nat /\ (q - 1) * s \in Nat
  OBVIOUS
<1>2. CASE q <= p
  <2>1. q * s <= p * s
    BY <1>2
  <2> QED
    BY <1>1, <2>1
<1>3. CASE q = p + 1
  <2>1. (q - 1) * s = p * s
    BY <1>3
  <2> QED
    BY <1>1, <2>1
<1> QED
  BY <1>2, <1>3

\* What the answer to a request holds.
LEMMA AnswerHolds ==
    ASSUME PageTypeOK, NEW r \in flight
    PROVE  LET a == Answer(r) IN
           /\ a.window = r.window /\ a.page = r.page /\ a.size = ClampSize(r.size)
           /\ \A b \in InWindow(r.window) :
                 /\ Cardinality(Ahead(b, r.window))
                        \in ((a.page - 1) * a.size)..(a.page * a.size - 1) => b \in a.items
                 /\ ~a.more => Cardinality(Ahead(b, r.window)) < a.page * a.size
<1> DEFINE w == r.window
<1> DEFINE a == Answer(r)
<1>1. w \in Window /\ r.page \in Nat \ {0} /\ ClampSize(r.size) \in Nat \ {0}
  BY ClampType DEF PageTypeOK, Request
<1>2. /\ a.window = w /\ a.page = r.page /\ a.size = ClampSize(r.size)
      /\ a.items = {b.id : b \in Items(Ranked(w), a.page, a.size)}
      /\ a.more = HasMore(Ranked(w), a.page, a.size)
  BY DEF Answer, Ranked
<1>3. ASSUME NEW b \in InWindow(w),
             Cardinality(Ahead(b, w)) \in ((a.page - 1) * a.size)..(a.page * a.size - 1)
      PROVE  b \in a.items
  <2>1. Record(b) \in Ranked(w)
    BY <1>1, RankedIsWindow
  <2>2. Record(b) \in Items(Ranked(w), a.page, a.size)
    BY <1>1, <1>3, <2>1, RankIsAhead DEF Items
  <2>3. Record(b).id = b
    BY DEF Record
  <2> QED
    BY <1>2, <2>2, <2>3
<1>4. ASSUME NEW b \in InWindow(w), ~a.more
      PROVE  Cardinality(Ahead(b, w)) < a.page * a.size
  <2>1. Cardinality(Ranked(w)) \in Nat /\ Cardinality(Ahead(b, w)) \in Nat
        /\ Cardinality(Ahead(b, w)) < Cardinality(Ranked(w))
    BY <1>1, RankIsAhead, AheadFinite
  <2>2. ~(a.page * a.size < Cardinality(Ranked(w)))
    BY <1>2, <1>4 DEF HasMore
  <2>3. a.page * a.size \in Nat
    <3>1. a.page \in Nat /\ a.size \in Nat
      BY <1>1, <1>2
    <3> HIDE DEF a
    <3> QED
      BY <3>1
  <2> HIDE DEF a
  <2> QED
    BY <2>1, <2>2, <2>3
<1> HIDE DEF a
<1> QED
  BY <1>2, <1>3, <1>4 DEF a

LEMMA ArrivesWalk ==
    ASSUME PageTypeOK, WalkInv, NEW r \in flight, Arrives(r)
    PROVE  WalkInv'
<1> DEFINE w == r.window
<1> DEFINE S == ClampSize(r.size)
<1> DEFINE P == r.page
<1>1. /\ shown' = Answer(r) /\ walk' = Walked(shown', InWindow(w)) /\ listed' = listed
      /\ walk \in [seen: SUBSET Bead, stayed: SUBSET Bead, whole: BOOLEAN]
  BY DEF Arrives, world, PageTypeOK
<1>2. /\ shown'.window = w /\ shown'.page = P /\ shown'.size = S
      /\ \A b \in InWindow(w) :
            /\ Cardinality(Ahead(b, w)) \in ((P - 1) * S)..(P * S - 1) => b \in shown'.items
            /\ ~shown'.more => Cardinality(Ahead(b, w)) < P * S
  BY <1>1, AnswerHolds
<1>3. P \in Nat \ {0} /\ S \in Nat \ {0} /\ P * S \in Nat /\ w \in Window
  <2>1. P \in Nat \ {0} /\ S \in Nat \ {0} /\ w \in Window
    BY ClampType DEF PageTypeOK, Request
  <2> QED
    BY <2>1
<1>4. \A b : Ahead(b, w)' = Ahead(b, w)
  BY <1>1 DEF Ahead, High, ToDay, Inverted
<1> HIDE DEF P, S
<1>5. ASSUME walk'.whole, NEW b \in walk'.stayed \ walk'.seen
      PROVE  b \in InWindow(w) /\ Cardinality(Ahead(b, w)) >= P * S
  <2>1. Cardinality(Ahead(b, w)) \in Nat
    BY AheadFinite
  <2>2. CASE P = 1
    <3>1. b \in InWindow(w) /\ b \notin shown'.items
      BY <1>1, <1>2, <1>5, <2>2 DEF Walked
    <3>2. (P - 1) * S = 0 /\ P * S = S
      BY <1>3, <2>2
    <3>3. Cardinality(Ahead(b, w)) \notin ((P - 1) * S)..(P * S - 1)
      BY <1>2, <3>1
    <3> QED
      BY <1>3, <2>1, <3>1, <3>2, <3>3
  <2>3. CASE P # 1
    <3>1. /\ walk.whole /\ shown.window = w /\ shown.size = S
          /\ P - shown.page \in {-1, 0, 1}
          /\ walk' = [walk EXCEPT !.seen = @ \cup shown'.items, !.stayed = @ \cap InWindow(w)]
      BY <1>1, <1>2, <1>5, <2>3 DEF Walked
    <3>2. /\ b \in walk.stayed \ walk.seen /\ b \in InWindow(w) /\ b \notin shown'.items
      BY <1>1, <1>5, <3>1
    <3>3. shown.page \in Nat \ {0} /\ P <= shown.page + 1
      <4>1. shown.page \in Nat
        BY DEF PageTypeOK, Shown
      <4> QED
        BY <1>3, <2>3, <3>1, <4>1
    <3>4. Cardinality(Ahead(b, w)) >= shown.page * S
      BY <3>1, <3>2, <3>3 DEF WalkInv, Waiting
    <3>5. Cardinality(Ahead(b, w)) \in ((P - 1) * S)..(P * S - 1) \/ Cardinality(Ahead(b, w)) >= P * S
      BY <1>3, <2>1, <3>3, <3>4, PageEdges
    <3> QED
      BY <1>2, <3>2, <3>5
  <2> QED
    BY <2>2, <2>3
<1>6. ASSUME walk'.whole, NEW b \in walk'.stayed \ walk'.seen
      PROVE  Waiting(b)' /\ shown'.more
  <2>1. listed'[b] # None
    BY <1>1, <1>5, <1>6 DEF InWindow
  <2>2. Waiting(b)'
    BY <1>2, <1>4, <1>5, <1>6, <2>1 DEF Waiting
  <2>3. Cardinality(Ahead(b, w)) \in Nat /\ ~(Cardinality(Ahead(b, w)) < P * S)
    BY <1>3, <1>5, <1>6, AheadFinite
  <2> QED
    BY <1>2, <1>5, <1>6, <2>2, <2>3
<1> QED
  BY <1>6 DEF WalkInv

\* The walk stays whole only while what is listed stays as it is.
LEMMA LoadsWalk ==
    ASSUME PageTypeOK, WalkInv, Loads
    PROVE  WalkInv'
<1>1. /\ UNCHANGED shown
      /\ walk \in [seen: SUBSET Bead, stayed: SUBSET Bead, whole: BOOLEAN]
      /\ walk' = [walk EXCEPT !.whole =
                     @ /\ \A b \in Bead : listed[b] \in {None, closedAt[b]}]
      /\ listed' = closedAt
  BY DEF Loads, browser, PageTypeOK
<1>2. walk'.seen = walk.seen /\ walk'.stayed = walk.stayed /\ walk.stayed \subseteq Bead
  BY <1>1
<1>3. SUFFICES ASSUME walk'.whole, shown.page > 0
               PROVE  \A b \in walk.stayed \ walk.seen : Waiting(b)'
  BY <1>1, <1>2 DEF WalkInv
<1>4. walk.whole /\ \A b \in Bead : listed[b] # None => listed'[b] = listed[b]
  BY <1>1, <1>3
<1> SUFFICES ASSUME NEW b \in walk.stayed \ walk.seen
             PROVE  Waiting(b)'
  BY <1>3
<1>5. b \in Bead /\ Waiting(b)
  BY <1>2, <1>3, <1>4 DEF WalkInv
<1>6. listed'[b] = listed[b] /\ listed'[b] # None
  BY <1>4, <1>5 DEF Waiting
<1> DEFINE w == shown.window
<1>7. Ahead(b, w) \subseteq Ahead(b, w)'
  BY <1>1, <1>4, <1>6 DEF Ahead, High, ToDay, Inverted
<1>8. IsFiniteSet(Ahead(b, w)')
  <2>1. Ahead(b, w)' \subseteq Bead
    BY DEF Ahead
  <2> QED
    BY <2>1, FS_Subset
<1>9. /\ Cardinality(Ahead(b, w)) <= Cardinality(Ahead(b, w)')
      /\ Cardinality(Ahead(b, w)) \in Nat /\ Cardinality(Ahead(b, w)') \in Nat
  BY <1>7, <1>8, FS_Subset, FS_CardinalityType
<1>10. shown.page * shown.size \in Nat
  <2>1. shown.page \in Nat /\ shown.size \in Nat
    BY DEF PageTypeOK, Shown
  <2> QED
    BY <2>1
<1>11. Cardinality(Ahead(b, w)') >= shown.page * shown.size
  BY <1>5, <1>9, <1>10 DEF Waiting
<1> QED
  BY <1>1, <1>6, <1>11 DEF Waiting

LEMMA StepWalk == PageTypeOK /\ WalkInv /\ [PageNext]_pageVars => WalkInv'
<1> SUFFICES ASSUME PageTypeOK, WalkInv, [PageNext]_pageVars PROVE WalkInv'
  OBVIOUS
<1>1. ASSUME UNCHANGED <<listed, shown, walk>>
      PROVE  WalkInv'
  BY <1>1 DEF WalkInv, Waiting, Ahead, High, ToDay, Inverted
<1>2. CASE Ticks \/ (\E b \in Bead : Closes(b) \/ Reopens(b))
  BY <1>1, <1>2 DEF Ticks, Closes, Reopens, Stamps, browser, pageHistory
<1>3. CASE User \/ Reloads
  BY <1>1, <1>3
  DEF User, ChoosesRange, Chooses, Types, Applies, Clears, Sizes, Older, Newer, BackToFirst,
      Turns, Reloads, world, pageHistory
<1>4. CASE Loads
  BY <1>4, LoadsWalk
<1>5. CASE \E r \in flight : Arrives(r)
  BY <1>5, ArrivesWalk
<1>6. CASE UNCHANGED pageVars
  BY <1>1, <1>6 DEF pageVars, world, browser, pageHistory
<1> QED
  BY <1>2, <1>3, <1>4, <1>5, <1>6 DEF PageNext

\* Who turns the pages to the end, back and forth and whatever is closed on the
\* way, has seen every bead that was listed all the while
\* (history.py:201-219, history.html:207-228): for any beads, window and page
\* size, and any answers in between.
THEOREM WalkMissesNothingHolds == PageSpec => []WalkMissesNothing
<1>1. PageInit => WalkInv
  BY DEF PageInit, WalkInv
<1>2. WalkInv => WalkMissesNothing
  BY DEF WalkInv, WalkMissesNothing
<1> QED
  BY <1>1, <1>2, InitType, StepType, StepWalk, PTL DEF PageSpec
================================================================================
