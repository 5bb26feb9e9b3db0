----------------------------- MODULE LiveSync_proofs -----------------------------
(***************************************************************************)
(* Proofs about Store and about LiveSync, which is built on it.             *)
(*                                                                          *)
(* Those about Store hold for every set of beads, coroutines and databases  *)
(* and whichever reads fail; none of them uses what LiveSync adds.  The     *)
(* revision skip needs an assumption of its own: at one moment all          *)
(* manifests can be read or none (WholeSignatures).                         *)
(*                                                                          *)
(* Those about LiveSync hold for every set of tabs and of their regions,    *)
(* every bound of the queues and, but for the last one, whichever reads     *)
(* fail.  They rest on the first ones: LiveImplementsStore.                 *)
(***************************************************************************)
EXTENDS LiveSync, TLAPS

USE StoreAssumption DEF StoreAssumption

Holding == {"load", "listActive", "listClosed", "listHistory"}
Refreshing == {"listActive", "listClosed", "listHistory"}

(* Who holds the lock, and what it does with it.                             *)
LockInv ==
    /\ \A t \in Task : lock = t <=> pc[t] \in Holding
    /\ \A t \in Task : pc[t] \in Refreshing => goal[t] = "refresh"
    /\ \A t \in Task : pc[t] = "load" => goal[t] # "refresh" /\ ~NothingToLoad(t)

(* A revision is recorded only beside both lists, and a history read follows *)
(* their replacement.                                                        *)
LoadedInv ==
    /\ lastRevision # {} => {"active", "closed"} \subseteq loaded
    /\ \A t \in Task : pc[t] = "listHistory" => Lane \subseteq loaded
    /\ staleDetails => \E t \in Task : pc[t] = "listHistory"

(* Nothing recorded is ahead of the database.                                *)
RevisionInv ==
    /\ \A p \in lastRevision \cup revision : p[2] <= rev[p[1]]
    /\ \A d \in Db : historyRev[d] <= rev[d]

(* The signature of a state no write has happened since.                     *)
Fresh(s) == s # {} /\ s = Signature(Db)

(* What was read since a signature that still holds is what is there now.    *)
FreshInv ==
    /\ Fresh(lastRevision) => BoardCurrent
    /\ \A t \in Task : pc[t] = "listClosed" /\ (Fresh(lastRevision) \/ Fresh(revision))
                       => freshActive = ListActive
    /\ \A t \in Task : pc[t] = "listHistory" /\ Fresh(revision) => BoardCurrent

IInv == TypeOK /\ LockInv /\ LoadedInv /\ RevisionInv /\ FreshInv /\ HistoryHoldsItsWindow

--------------------------------------------------------------------------------
(* Types                                                                    *)

LEMMA ListTypes ==
    ASSUME TypeOK
    PROVE  /\ ListActive \subseteq Row
           /\ ListClosed \subseteq Row
           /\ \A c \in Cutoff : ListHistory(c) \subseteq Row
BY DEF TypeOK, ListActive, ListClosed, ListHistory, Closed, Table, Row

LEMMA SignatureType ==
    ASSUME TypeOK, NEW S \in Readable
    PROVE  Signature(S) \subseteq Db \X Nat
BY DEF TypeOK, Signature

LEMMA ReturnsType ==
    ASSUME TypeOK, NEW t \in Task, Returns(t) \/ Proceed(t)
    PROVE  /\ pc' \in [Task -> Pc]
           /\ goal' \in [Task -> Lane \cup {"activeForHistory", "refresh"}]
           /\ cutoff' \in [Task -> Cutoff]
BY DEF TypeOK, Returns, Proceed, Pc, Lane, Cutoff

LEMMA ReplaceListsType ==
    ASSUME TypeOK, ReplaceLists
    PROVE  cache' \in [Lane -> SUBSET Row] /\ loaded' \subseteq Lane
<1>1. ListClosed \in SUBSET Row /\ freshActive \in SUBSET Row
    BY ListTypes DEF TypeOK
<1> QED BY <1>1 DEF TypeOK, ReplaceLists, Lane

LEMMA CompletesType ==
    ASSUME TypeOK, NEW t \in Task, RefreshCompletes(t)
    PROVE  /\ failures' \in 0..Threshold
           /\ staleDetails' \in BOOLEAN
           /\ lastRevision' \subseteq Db \X Nat
           /\ revision' \subseteq Db \X Nat
           /\ freshActive' \subseteq Row
           /\ lock' \in Task \cup {None}
           /\ pc' \in [Task -> Pc]
           /\ goal' \in [Task -> Lane \cup {"activeForHistory", "refresh"}]
           /\ cutoff' \in [Task -> Cutoff]
<1>1. Returns(t)
    BY DEF RefreshCompletes, RefreshReturns
<1>2. failures' = 0 /\ staleDetails' = FALSE /\ lastRevision' = revision
    BY DEF RefreshCompletes
<1>3. revision' = {} /\ freshActive' = {} /\ lock' = None
    BY DEF RefreshCompletes, RefreshReturns
<1>4. failures' \in 0..Threshold
    BY <1>2
<1>5. staleDetails' \in BOOLEAN
    BY <1>2
<1> QED BY <1>1, <1>2, <1>3, <1>4, <1>5, ReturnsType DEF TypeOK

LEMMA InitTypeOK == Init => TypeOK
<1> SUFFICES ASSUME Init PROVE TypeOK
    OBVIOUS
<1>1. db \in [Bead -> Issue]
    BY DEF Init, Issue, Day
<1>2. /\ rev \in [Db -> Nat] /\ historyRev \in [Db -> Nat]
      /\ today \in Day /\ historyCutoff \in Cutoff
    BY DEF Init, Day, Cutoff
<1>3. cache \in [Lane -> SUBSET Row] /\ loaded \subseteq Lane
    BY DEF Init
<1>4. /\ lastRevision \subseteq Db \X Nat /\ revision \subseteq Db \X Nat
      /\ lock \in Task \cup {None} /\ freshActive \subseteq Row
    BY DEF Init
<1>6. failures \in 0..Threshold
    BY DEF Init
<1>7. staleDetails \in BOOLEAN
    BY DEF Init
<1>5. /\ pc \in [Task -> Pc]
      /\ goal \in [Task -> Lane \cup {"activeForHistory", "refresh"}]
      /\ cutoff \in [Task -> Cutoff]
    BY DEF Init, Pc, Cutoff
<1> QED BY <1>1, <1>2, <1>3, <1>4, <1>5, <1>6, <1>7 DEF TypeOK

LEMMA TypeStep == TypeOK /\ LockInv /\ [Next]_vars => TypeOK'
<1> SUFFICES ASSUME TypeOK, LockInv, [Next]_vars PROVE TypeOK'
    OBVIOUS
<1> USE DEF environment, snapshots, caller, locals
<1>1. ASSUME NEW b \in Bead, NEW i \in Issue, NEW d \in Db, ExternalWrite(b, i, d)
      PROVE  TypeOK'
    BY <1>1 DEF TypeOK, ExternalWrite
<1>2. CASE NextDay
    BY <1>2 DEF TypeOK, NextDay, Day
<1>3. ASSUME NEW t \in Task, NEW g \in Lane \cup {"activeForHistory", "refresh"},
             NEW c \in Cutoff, Call(t, g, c)
      PROVE  TypeOK'
    BY <1>3 DEF TypeOK, Call, Pc
<1>4. ASSUME NEW t \in Task, LoadNotNeeded(t) PROVE TypeOK'
    BY <1>4, ReturnsType DEF TypeOK, LoadNotNeeded
<1>5. ASSUME NEW t \in Task, LoadStarts(t) PROVE TypeOK'
    BY <1>5 DEF TypeOK, LoadStarts, Pc
<1>6. ASSUME NEW t \in Task, LoadSucceeds(t) PROVE TypeOK'
  <2>1. Target(t) \in Lane => cache' \in [Lane -> SUBSET Row]
      BY <1>6, ListTypes DEF TypeOK, LoadSucceeds
  <2>2. goal[t] # "refresh"
      BY <1>6 DEF LoadSucceeds, LockInv
  <2>3. Target(t) \in Lane
      BY <2>2 DEF TypeOK, Target, Lane
  <2> QED BY <1>6, <2>1, <2>3, ReturnsType DEF TypeOK, LoadSucceeds
<1>7. ASSUME NEW t \in Task, LoadFails(t) PROVE TypeOK'
    BY <1>7, ReturnsType DEF TypeOK, LoadFails, OneMoreFailure
<1>8. ASSUME NEW t \in Task, NEW S \in Readable, RefreshSkips(t, S) PROVE TypeOK'
    BY <1>8, ReturnsType DEF TypeOK, RefreshSkips, RefreshReturns
<1>9. ASSUME NEW t \in Task, NEW S \in Readable, RefreshStarts(t, S) PROVE TypeOK'
    BY <1>9, SignatureType DEF TypeOK, RefreshStarts, Pc
<1>10. ASSUME NEW t \in Task, ActiveListed(t) PROVE TypeOK'
    BY <1>10, ListTypes DEF TypeOK, ActiveListed, Pc
<1>11. ASSUME NEW t \in Task, RefreshFails(t) PROVE TypeOK'
    BY <1>11, ReturnsType DEF TypeOK, RefreshFails, RefreshReturns, OneMoreFailure
<1>12. ASSUME NEW t \in Task, RefreshFindsSame(t) PROVE TypeOK'
    BY <1>12, ReturnsType DEF TypeOK, RefreshFindsSame, RefreshReturns
<1>13. ASSUME NEW t \in Task, RefreshReplaces(t) PROVE TypeOK'
  <2>1. /\ cache' \in [Lane -> SUBSET Row]
        /\ loaded' \subseteq Lane
      BY <1>13, ReplaceListsType DEF RefreshReplaces
  <2>2. /\ Returns(t) /\ RefreshCompletes(t)
        /\ UNCHANGED <<db, rev, today, historyCutoff, historyRev>>
      BY <1>13 DEF RefreshReplaces, ReplaceLists, RefreshCompletes, RefreshReturns
  <2> QED BY <2>1, <2>2, CompletesType DEF TypeOK
<1>14. ASSUME NEW t \in Task, RefreshReplacesFirst(t) PROVE TypeOK'
  <2>1. /\ cache' \in [Lane -> SUBSET Row]
        /\ loaded' \subseteq Lane
      BY <1>14, ReplaceListsType DEF RefreshReplacesFirst
  <2> QED BY <1>14, <2>1 DEF TypeOK, RefreshReplacesFirst, ReplaceLists, Pc
<1>15. ASSUME NEW t \in Task, RefreshHistory(t) PROVE TypeOK'
  <2>1. cache' \in [Lane -> SUBSET Row] /\ historyRev' \in [Db -> Nat]
      BY <1>15, ListTypes DEF TypeOK, RefreshHistory, Lane
  <2>2. /\ Returns(t) /\ RefreshCompletes(t)
        /\ UNCHANGED <<db, rev, today, loaded, historyCutoff>>
      BY <1>15 DEF RefreshHistory, RefreshCompletes, RefreshReturns
  <2> QED BY <2>1, <2>2, CompletesType DEF TypeOK
<1>16. CASE UNCHANGED vars
    BY <1>16 DEF TypeOK, vars
<1> QED
    BY <1>1, <1>2, <1>3, <1>4, <1>5, <1>6, <1>7, <1>8, <1>9, <1>10, <1>11, <1>12,
       <1>13, <1>14, <1>15, <1>16
    DEF Next, Environment, Calls, Acquires, Runs, CallLane, CallSnapshot, CallRefresh,
        CallHistory, Lane, Cutoff

--------------------------------------------------------------------------------
(* The lock                                                                 *)

LEMMA LockStep == TypeOK /\ LockInv /\ [Next]_vars => LockInv'
<1> SUFFICES ASSUME TypeOK, LockInv, [Next]_vars PROVE LockInv'
    OBVIOUS
<1> USE DEF environment, snapshots, caller, locals, Holding, Refreshing
<1>1. ASSUME NEW b \in Bead, NEW i \in Issue, NEW d \in Db, ExternalWrite(b, i, d)
      PROVE  LockInv'
    BY <1>1 DEF TypeOK, LockInv, NothingToLoad, HistoryCovers, Target, ExternalWrite
<1>2. CASE NextDay
    BY <1>2 DEF TypeOK, LockInv, NothingToLoad, HistoryCovers, Target, NextDay
<1>3. ASSUME NEW t \in Task, NEW g, NEW c, Call(t, g, c)
      PROVE  LockInv'
    BY <1>3 DEF TypeOK, LockInv, NothingToLoad, HistoryCovers, Target, Call
<1>4. ASSUME NEW t \in Task, LoadNotNeeded(t) PROVE LockInv'
    BY <1>4 DEF TypeOK, LockInv, NothingToLoad, HistoryCovers, Target, LoadNotNeeded, Proceed, Returns
<1>5. ASSUME NEW t \in Task, LoadStarts(t) PROVE LockInv'
    BY <1>5 DEF TypeOK, LockInv, NothingToLoad, HistoryCovers, Target, LoadStarts
<1>6. ASSUME NEW t \in Task, LoadSucceeds(t) PROVE LockInv'
    BY <1>6 DEF TypeOK, LockInv, NothingToLoad, HistoryCovers, Target, LoadSucceeds, Proceed, Returns
<1>7. ASSUME NEW t \in Task, LoadFails(t) PROVE LockInv'
    BY <1>7 DEF TypeOK, LockInv, NothingToLoad, HistoryCovers, Target, LoadFails, Proceed, Returns
<1>8. ASSUME NEW t \in Task, NEW S \in Readable, RefreshSkips(t, S) PROVE LockInv'
    BY <1>8 DEF TypeOK, LockInv, NothingToLoad, HistoryCovers, Target, RefreshSkips, RefreshReturns, Returns
<1>9. ASSUME NEW t \in Task, NEW S \in Readable, RefreshStarts(t, S) PROVE LockInv'
    BY <1>9 DEF TypeOK, LockInv, NothingToLoad, HistoryCovers, Target, RefreshStarts
<1>10. ASSUME NEW t \in Task, ActiveListed(t) PROVE LockInv'
    BY <1>10 DEF TypeOK, LockInv, NothingToLoad, HistoryCovers, Target, ActiveListed
<1>11. ASSUME NEW t \in Task, RefreshFails(t) PROVE LockInv'
    BY <1>11 DEF TypeOK, LockInv, NothingToLoad, HistoryCovers, Target, RefreshFails, RefreshReturns, Returns
<1>12. ASSUME NEW t \in Task, RefreshFindsSame(t) PROVE LockInv'
    BY <1>12 DEF TypeOK, LockInv, NothingToLoad, HistoryCovers, Target, RefreshFindsSame, RefreshReturns, Returns
<1>13. ASSUME NEW t \in Task, RefreshReplaces(t) PROVE LockInv'
    BY <1>13 DEF TypeOK, LockInv, NothingToLoad, HistoryCovers, Target, RefreshReplaces, RefreshCompletes, RefreshReturns, Returns
<1>14. ASSUME NEW t \in Task, RefreshReplacesFirst(t) PROVE LockInv'
    BY <1>14 DEF TypeOK, LockInv, NothingToLoad, HistoryCovers, Target, RefreshReplacesFirst
<1>15. ASSUME NEW t \in Task, RefreshHistory(t) PROVE LockInv'
    BY <1>15 DEF TypeOK, LockInv, NothingToLoad, HistoryCovers, Target, RefreshHistory, RefreshCompletes, RefreshReturns, Returns
<1>16. CASE UNCHANGED vars
    BY <1>16 DEF TypeOK, LockInv, NothingToLoad, HistoryCovers, Target, vars
<1> QED
    BY <1>1, <1>2, <1>3, <1>4, <1>5, <1>6, <1>7, <1>8, <1>9, <1>10, <1>11, <1>12,
       <1>13, <1>14, <1>15, <1>16
    DEF Next, Environment, Calls, Acquires, Runs, CallLane, CallSnapshot, CallRefresh,
        CallHistory

--------------------------------------------------------------------------------
(* What is loaded                                                           *)

LEMMA LoadedStep == TypeOK /\ LockInv /\ LoadedInv /\ [Next]_vars => LoadedInv'
<1> SUFFICES ASSUME TypeOK, LockInv, LoadedInv, [Next]_vars PROVE LoadedInv'
    OBVIOUS
<1> USE DEF environment, snapshots, caller, locals, Holding, Refreshing
<1>1. ASSUME NEW b \in Bead, NEW i \in Issue, NEW d \in Db, ExternalWrite(b, i, d)
      PROVE  LoadedInv'
    BY <1>1 DEF TypeOK, LockInv, LoadedInv, ExternalWrite
<1>2. CASE NextDay
    BY <1>2 DEF TypeOK, LockInv, LoadedInv, NextDay
<1>3. ASSUME NEW t \in Task, NEW g, NEW c, Call(t, g, c)
      PROVE  LoadedInv'
    BY <1>3 DEF TypeOK, LockInv, LoadedInv, Call
<1>4. ASSUME NEW t \in Task, LoadNotNeeded(t) PROVE LoadedInv'
    BY <1>4 DEF TypeOK, LockInv, LoadedInv, LoadNotNeeded, Proceed, Returns
<1>5. ASSUME NEW t \in Task, LoadStarts(t) PROVE LoadedInv'
    BY <1>5 DEF TypeOK, LockInv, LoadedInv, LoadStarts
<1>6. ASSUME NEW t \in Task, LoadSucceeds(t) PROVE LoadedInv'
    BY <1>6 DEF TypeOK, LockInv, LoadedInv, LoadSucceeds, Proceed, Returns
<1>7. ASSUME NEW t \in Task, LoadFails(t) PROVE LoadedInv'
    BY <1>7 DEF TypeOK, LockInv, LoadedInv, LoadFails, Proceed, Returns
<1>8. ASSUME NEW t \in Task, NEW S \in Readable, RefreshSkips(t, S) PROVE LoadedInv'
    BY <1>8 DEF TypeOK, LockInv, LoadedInv, RefreshSkips, RefreshReturns, Returns
<1>9. ASSUME NEW t \in Task, NEW S \in Readable, RefreshStarts(t, S) PROVE LoadedInv'
    BY <1>9 DEF TypeOK, LockInv, LoadedInv, RefreshStarts
<1>10. ASSUME NEW t \in Task, ActiveListed(t) PROVE LoadedInv'
    BY <1>10 DEF TypeOK, LockInv, LoadedInv, ActiveListed
<1>11. ASSUME NEW t \in Task, RefreshFails(t) PROVE LoadedInv'
    BY <1>11 DEF TypeOK, LockInv, LoadedInv, RefreshFails, RefreshReturns, Returns
<1>12. ASSUME NEW t \in Task, RefreshFindsSame(t) PROVE LoadedInv'
    BY <1>12 DEF TypeOK, LockInv, LoadedInv, RefreshFindsSame, RefreshReturns, Returns,
        Unchanged, Lane
<1>13. ASSUME NEW t \in Task, RefreshReplaces(t) PROVE LoadedInv'
    BY <1>13 DEF TypeOK, LockInv, LoadedInv, RefreshReplaces, ReplaceLists,
        RefreshCompletes, RefreshReturns, Returns, Unchanged, Lane
<1>14. ASSUME NEW t \in Task, RefreshReplacesFirst(t) PROVE LoadedInv'
    BY <1>14 DEF TypeOK, LockInv, LoadedInv, RefreshReplacesFirst, ReplaceLists,
        Unchanged, Lane
<1>15. ASSUME NEW t \in Task, RefreshHistory(t) PROVE LoadedInv'
    BY <1>15 DEF TypeOK, LockInv, LoadedInv, RefreshHistory, RefreshCompletes,
        RefreshReturns, Returns, Unchanged, Lane
<1>16. CASE UNCHANGED vars
    BY <1>16 DEF TypeOK, LockInv, LoadedInv, vars
<1> QED
    BY <1>1, <1>2, <1>3, <1>4, <1>5, <1>6, <1>7, <1>8, <1>9, <1>10, <1>11, <1>12,
       <1>13, <1>14, <1>15, <1>16
    DEF Next, Environment, Calls, Acquires, Runs, CallLane, CallSnapshot, CallRefresh,
        CallHistory

--------------------------------------------------------------------------------
(* Revisions                                                                *)

LEMMA RevisionStep == TypeOK /\ RevisionInv /\ [Next]_vars => RevisionInv'
<1> SUFFICES ASSUME TypeOK, RevisionInv, [Next]_vars PROVE RevisionInv'
    OBVIOUS
<1> USE DEF environment, snapshots, caller, locals, Holding, Refreshing
<1>1. ASSUME NEW b \in Bead, NEW i \in Issue, NEW d \in Db, ExternalWrite(b, i, d)
      PROVE  RevisionInv'
    BY <1>1 DEF TypeOK, RevisionInv, ExternalWrite
<1>2. CASE NextDay
    BY <1>2 DEF TypeOK, RevisionInv, NextDay
<1>3. ASSUME NEW t \in Task, NEW g, NEW c, Call(t, g, c)
      PROVE  RevisionInv'
    BY <1>3 DEF TypeOK, RevisionInv, Call
<1>4. ASSUME NEW t \in Task, LoadNotNeeded(t) PROVE RevisionInv'
    BY <1>4 DEF TypeOK, RevisionInv, LoadNotNeeded, Proceed, Returns
<1>5. ASSUME NEW t \in Task, LoadStarts(t) PROVE RevisionInv'
    BY <1>5 DEF TypeOK, RevisionInv, LoadStarts
<1>6. ASSUME NEW t \in Task, LoadSucceeds(t) PROVE RevisionInv'
    BY <1>6 DEF TypeOK, RevisionInv, LoadSucceeds, Proceed, Returns
<1>7. ASSUME NEW t \in Task, LoadFails(t) PROVE RevisionInv'
    BY <1>7 DEF TypeOK, RevisionInv, LoadFails, Proceed, Returns
<1>8. ASSUME NEW t \in Task, NEW S \in Readable, RefreshSkips(t, S) PROVE RevisionInv'
    BY <1>8 DEF TypeOK, RevisionInv, RefreshSkips, RefreshReturns, Returns
<1>9. ASSUME NEW t \in Task, NEW S \in Readable, RefreshStarts(t, S) PROVE RevisionInv'
    BY <1>9 DEF TypeOK, RevisionInv, RefreshStarts, Signature
<1>10. ASSUME NEW t \in Task, ActiveListed(t) PROVE RevisionInv'
    BY <1>10 DEF TypeOK, RevisionInv, ActiveListed
<1>11. ASSUME NEW t \in Task, RefreshFails(t) PROVE RevisionInv'
    BY <1>11 DEF TypeOK, RevisionInv, RefreshFails, RefreshReturns, Returns
<1>12. ASSUME NEW t \in Task, RefreshFindsSame(t) PROVE RevisionInv'
    BY <1>12 DEF TypeOK, RevisionInv, RefreshFindsSame, RefreshReturns, Returns
<1>13. ASSUME NEW t \in Task, RefreshReplaces(t) PROVE RevisionInv'
    BY <1>13 DEF TypeOK, RevisionInv, RefreshReplaces, ReplaceLists, RefreshCompletes,
        RefreshReturns, Returns
<1>14. ASSUME NEW t \in Task, RefreshReplacesFirst(t) PROVE RevisionInv'
    BY <1>14 DEF TypeOK, RevisionInv, RefreshReplacesFirst, ReplaceLists
<1>15. ASSUME NEW t \in Task, RefreshHistory(t) PROVE RevisionInv'
    BY <1>15 DEF TypeOK, RevisionInv, RefreshHistory, RefreshCompletes, RefreshReturns,
        Returns
<1>16. CASE UNCHANGED vars
    BY <1>16 DEF TypeOK, RevisionInv, vars
<1> QED
    BY <1>1, <1>2, <1>3, <1>4, <1>5, <1>6, <1>7, <1>8, <1>9, <1>10, <1>11, <1>12,
       <1>13, <1>14, <1>15, <1>16
    DEF Next, Environment, Calls, Acquires, Runs, CallLane, CallSnapshot, CallRefresh,
        CallHistory

--------------------------------------------------------------------------------
(* What was read and not written since                                      *)

LEMMA EnvironmentStays ==
    ASSUME UNCHANGED environment
    PROVE  /\ ListActive' = ListActive
           /\ ListClosed' = ListClosed
           /\ Signature(Db)' = Signature(Db)
           /\ \A c : ListHistory(c)' = ListHistory(c)
BY DEF environment, ListActive, ListClosed, ListHistory, Closed, Table, Signature

LEMMA BoardStays ==
    ASSUME UNCHANGED environment, BoardCurrent,
           cache'["active"] = cache["active"], cache'["closed"] = cache["closed"]
    PROVE  BoardCurrent'
BY EnvironmentStays DEF BoardCurrent, InWindow, environment

\* A board just listed is current: `bd list` keeps to the window itself.
LEMMA ListedIsCurrent ==
    ASSUME UNCHANGED environment,
           cache'["active"] = ListActive, cache'["closed"] = ListClosed
    PROVE  BoardCurrent'
<1>1. InWindow(ListClosed) = ListClosed
    BY DEF InWindow, ListClosed
<1> QED BY <1>1, EnvironmentStays DEF BoardCurrent, InWindow, environment

\* The window moves on, over the cached rows as over the listed ones.
LEMMA BoardAges ==
    ASSUME TypeOK, NextDay, BoardCurrent
    PROVE  BoardCurrent'
<1>1. ListActive' = ListActive /\ Closed' = Closed /\ cache' = cache
    BY DEF NextDay, ListActive, Closed, Table, snapshots
<1>2. cache["closed"] \subseteq Row /\ Closed \subseteq Row /\ today \in Nat
    BY DEF TypeOK, Lane, Closed, Table, Row, Day
<1>3. \A r \in Row : r[2].day \in Nat
    BY DEF Row, Issue, Day
<1>4. \A r \in Row : today' <= r[2].day + Window => today <= r[2].day + Window
    BY <1>2, <1>3 DEF NextDay
<1>5. \A r \in Row : today <= r[2].day + Window => (r \in cache["closed"] <=> r \in Closed)
    BY <1>2 DEF BoardCurrent, InWindow, ListClosed
<1>6. InWindow(cache["closed"])' = ListClosed'
    BY <1>1, <1>2, <1>4, <1>5 DEF InWindow, ListClosed
<1> QED BY <1>1, <1>6 DEF BoardCurrent

\* A write makes every signature recorded before it a signature of the past.
LEMMA WriteOutdates ==
    ASSUME TypeOK, RevisionInv, NEW b \in Bead, NEW i \in Issue, NEW d \in Db,
           ExternalWrite(b, i, d)
    PROVE  /\ ~Fresh(lastRevision)' /\ ~Fresh(revision)'
           /\ historyRev' # rev'
<1>1. /\ UNCHANGED <<lastRevision, revision, historyRev>>
      /\ rev' = [rev EXCEPT ![d] = @ + 1]
    BY DEF ExternalWrite, snapshots, locals
<1>2. rev'[d] = rev[d] + 1 /\ rev[d] \in Nat
    BY <1>1 DEF TypeOK
<1>3. <<d, rev'[d]>> \in Signature(Db)'
    BY DEF Signature
<1>4. <<d, rev'[d]>> \notin lastRevision \cup revision
    BY <1>2 DEF RevisionInv
<1>5. historyRev[d] <= rev[d] /\ historyRev[d] \in Nat
    BY DEF RevisionInv, TypeOK
<1> QED BY <1>1, <1>2, <1>3, <1>4, <1>5 DEF Fresh

\* A call that returns or waits again reads nothing; the others are where they were.
LEMMA OthersStay ==
    ASSUME TypeOK, NEW t \in Task, Returns(t) \/ Proceed(t)
    PROVE  \A u \in Task : pc'[u] \in Holding => u # t /\ pc'[u] = pc[u]
BY DEF TypeOK, Returns, Proceed, Holding

\* After the lock holder's call nobody reads.
LEMMA Released ==
    ASSUME TypeOK, LockInv, NEW t \in Task, pc[t] \in Holding, Returns(t) \/ Proceed(t)
    PROVE  \A u \in Task : pc'[u] \notin Holding
BY OthersStay DEF LockInv

LEMMA FreshStep == TypeOK /\ LockInv /\ LoadedInv /\ RevisionInv /\ FreshInv /\ [Next]_vars => FreshInv'
<1> SUFFICES ASSUME TypeOK, LockInv, LoadedInv, RevisionInv, FreshInv, [Next]_vars PROVE FreshInv'
    OBVIOUS
<1> USE DEF environment, snapshots, caller, locals, Holding, Refreshing
<1>1. ASSUME NEW b \in Bead, NEW i \in Issue, NEW d \in Db, ExternalWrite(b, i, d)
      PROVE  FreshInv'
    BY <1>1, WriteOutdates DEF FreshInv, ExternalWrite
<1>2. CASE NextDay
  <2>1. ListActive' = ListActive /\ Signature(Db)' = Signature(Db)
      BY <1>2 DEF NextDay, ListActive, Table, Signature
  <2> QED BY <1>2, <2>1, BoardAges DEF FreshInv, Fresh, NextDay
<1>3. ASSUME NEW t \in Task, NEW g, NEW c, Call(t, g, c)
      PROVE  FreshInv'
    BY <1>3, EnvironmentStays, BoardStays DEF LockInv, FreshInv, Fresh, Call
<1>4. ASSUME NEW t \in Task, LoadNotNeeded(t) PROVE FreshInv'
  <2>1. /\ UNCHANGED <<environment, cache, lastRevision, revision, freshActive>>
        /\ Proceed(t)
      BY <1>4 DEF LoadNotNeeded
  <2> QED BY <2>1, EnvironmentStays, BoardStays, OthersStay DEF FreshInv, Fresh
<1>5. ASSUME NEW t \in Task, LoadStarts(t) PROVE FreshInv'
    BY <1>5, EnvironmentStays, BoardStays DEF LockInv, FreshInv, Fresh, LoadStarts
<1>6. ASSUME NEW t \in Task, LoadSucceeds(t) PROVE FreshInv'
  <2>1. UNCHANGED <<environment, lastRevision>> /\ pc[t] = "load" /\ Proceed(t)
      BY <1>6 DEF LoadSucceeds
  <2>2. \A u \in Task : pc'[u] \notin Holding
      BY <2>1, Released
  <2>3. ASSUME Fresh(lastRevision) PROVE BoardCurrent'
    <3>1. {"active", "closed"} \subseteq loaded
        BY <2>3 DEF Fresh, LoadedInv
    <3>2. ~NothingToLoad(t) /\ goal[t] # "refresh"
        BY <2>1 DEF LockInv
    <3>3. Target(t) \notin {"active", "closed"}
        BY <3>1, <3>2 DEF NothingToLoad, Target
    <3>4. cache'["active"] = cache["active"] /\ cache'["closed"] = cache["closed"]
        BY <1>6, <3>3 DEF LoadSucceeds, TypeOK, Lane
    <3> QED BY <2>1, <2>3, <3>4, BoardStays DEF FreshInv
  <2> QED BY <2>1, <2>2, <2>3, EnvironmentStays DEF FreshInv, Fresh
<1>7. ASSUME NEW t \in Task, LoadFails(t) PROVE FreshInv'
  <2>1. UNCHANGED <<environment, cache, lastRevision>> /\ pc[t] = "load" /\ Proceed(t)
      BY <1>7 DEF LoadFails
  <2> QED BY <2>1, EnvironmentStays, BoardStays, Released DEF FreshInv, Fresh
<1>8. ASSUME NEW t \in Task, NEW S \in Readable, RefreshSkips(t, S) PROVE FreshInv'
    BY <1>8, EnvironmentStays, BoardStays DEF LockInv, FreshInv, Fresh, RefreshSkips,
        RefreshReturns, Returns
<1>9. ASSUME NEW t \in Task, NEW S \in Readable, RefreshStarts(t, S) PROVE FreshInv'
    BY <1>9, EnvironmentStays, BoardStays DEF LockInv, FreshInv, Fresh, RefreshStarts
<1>10. ASSUME NEW t \in Task, ActiveListed(t) PROVE FreshInv'
    BY <1>10, EnvironmentStays, BoardStays DEF LockInv, FreshInv, Fresh, ActiveListed
<1>11. ASSUME NEW t \in Task, RefreshFails(t) PROVE FreshInv'
  <2>1. /\ UNCHANGED <<environment, cache, lastRevision>>
        /\ pc[t] \in Holding /\ Returns(t)
      BY <1>11 DEF RefreshFails, RefreshReturns
  <2> QED BY <2>1, EnvironmentStays, BoardStays, Released DEF FreshInv, Fresh
<1>12. ASSUME NEW t \in Task, RefreshFindsSame(t) PROVE FreshInv'
  <2>1. /\ UNCHANGED <<environment, cache>> /\ lastRevision' = revision
        /\ pc[t] = "listClosed" /\ Returns(t)
        /\ cache["active"] = freshActive /\ cache["closed"] = ListClosed
      BY <1>12 DEF RefreshFindsSame, RefreshReturns, Unchanged
  <2>2. Fresh(revision) => BoardCurrent'
      BY <2>1, ListedIsCurrent DEF FreshInv
  <2> QED BY <2>1, <2>2, EnvironmentStays, Released DEF FreshInv, Fresh
<1>13. ASSUME NEW t \in Task, RefreshReplaces(t) PROVE FreshInv'
  <2>1. /\ UNCHANGED environment /\ lastRevision' = revision
        /\ pc[t] = "listClosed" /\ Returns(t)
      BY <1>13 DEF RefreshReplaces, RefreshCompletes, RefreshReturns
  <2>2. cache'["active"] = freshActive /\ cache'["closed"] = ListClosed
      BY <1>13 DEF RefreshReplaces, ReplaceLists, TypeOK, Lane
  <2>3. Fresh(revision) => BoardCurrent'
      BY <2>1, <2>2, ListedIsCurrent DEF FreshInv
  <2> QED BY <2>1, <2>3, EnvironmentStays, Released DEF FreshInv, Fresh
<1>14. ASSUME NEW t \in Task, RefreshReplacesFirst(t) PROVE FreshInv'
  <2>1. /\ UNCHANGED <<environment, lastRevision, revision>>
        /\ pc[t] = "listClosed" /\ pc' = [pc EXCEPT ![t] = "listHistory"]
      BY <1>14 DEF RefreshReplacesFirst
  <2>2. cache'["active"] = freshActive /\ cache'["closed"] = ListClosed
      BY <1>14 DEF RefreshReplacesFirst, ReplaceLists, TypeOK, Lane
  <2>3. Fresh(lastRevision) \/ Fresh(revision) => BoardCurrent'
      BY <2>1, <2>2, ListedIsCurrent DEF FreshInv
  <2>4. \A u \in Task : pc'[u] # "listClosed"
      BY <2>1 DEF LockInv, TypeOK
  <2> QED BY <2>1, <2>3, <2>4, EnvironmentStays DEF FreshInv, Fresh
<1>15. ASSUME NEW t \in Task, RefreshHistory(t) PROVE FreshInv'
  <2>1. /\ UNCHANGED environment /\ lastRevision' = revision
        /\ pc[t] = "listHistory" /\ Returns(t)
      BY <1>15 DEF RefreshHistory, RefreshCompletes, RefreshReturns
  <2>2. cache'["active"] = cache["active"] /\ cache'["closed"] = cache["closed"]
      BY <1>15 DEF RefreshHistory, TypeOK, Lane
  <2>3. Fresh(revision) => BoardCurrent'
      BY <2>1, <2>2, BoardStays DEF FreshInv
  <2> QED BY <2>1, <2>3, EnvironmentStays, Released DEF FreshInv, Fresh
<1>16. CASE UNCHANGED vars
    BY <1>16, EnvironmentStays, BoardStays DEF LockInv, FreshInv, Fresh, vars
<1> QED
    BY <1>1, <1>2, <1>3, <1>4, <1>5, <1>6, <1>7, <1>8, <1>9, <1>10, <1>11, <1>12,
       <1>13, <1>14, <1>15, <1>16
    DEF Next, Environment, Calls, Acquires, Runs, CallLane, CallSnapshot, CallRefresh,
        CallHistory

--------------------------------------------------------------------------------
(* The history                                                              *)

LEMMA HistoryStep == TypeOK /\ LockInv /\ RevisionInv /\ HistoryHoldsItsWindow /\ [Next]_vars => HistoryHoldsItsWindow'
<1> SUFFICES ASSUME TypeOK, LockInv, RevisionInv, HistoryHoldsItsWindow, [Next]_vars PROVE HistoryHoldsItsWindow'
    OBVIOUS
<1> USE DEF environment, snapshots, caller, locals, Holding, Refreshing
<1>1. ASSUME NEW b \in Bead, NEW i \in Issue, NEW d \in Db, ExternalWrite(b, i, d)
      PROVE  HistoryHoldsItsWindow'
    BY <1>1, WriteOutdates DEF HistoryHoldsItsWindow
<1>2. CASE NextDay
  <2>1. \A c : ListHistory(c)' = ListHistory(c)
      BY <1>2 DEF NextDay, ListHistory, Closed, Table
  <2> QED BY <1>2, <2>1 DEF HistoryHoldsItsWindow, NextDay
<1>3. ASSUME NEW t \in Task, NEW g, NEW c, Call(t, g, c)
      PROVE  HistoryHoldsItsWindow'
    BY <1>3, EnvironmentStays DEF TypeOK, LockInv, HistoryHoldsItsWindow, Call
<1>4. ASSUME NEW t \in Task, LoadNotNeeded(t) PROVE HistoryHoldsItsWindow'
    BY <1>4, EnvironmentStays DEF TypeOK, LockInv, HistoryHoldsItsWindow, LoadNotNeeded,
        Proceed, Returns
<1>5. ASSUME NEW t \in Task, LoadStarts(t) PROVE HistoryHoldsItsWindow'
    BY <1>5, EnvironmentStays DEF TypeOK, LockInv, HistoryHoldsItsWindow, LoadStarts
<1>6. ASSUME NEW t \in Task, LoadSucceeds(t) PROVE HistoryHoldsItsWindow'
  <2>1. UNCHANGED environment /\ goal[t] # "refresh"
      BY <1>6 DEF LoadSucceeds, LockInv
  <2>2. CASE goal[t] = "history"
    <3>1. /\ cache'["history"] = ListHistory(cutoff[t]) /\ historyCutoff' = cutoff[t]
        BY <1>6, <2>2 DEF LoadSucceeds, Target, TypeOK, Lane
    <3> QED BY <2>1, <3>1, EnvironmentStays DEF HistoryHoldsItsWindow
  <2>3. CASE goal[t] # "history"
    <3>1. Target(t) # "history"
        BY <2>3 DEF Target
    <3>2. /\ cache'["history"] = cache["history"]
          /\ "history" \in loaded' <=> "history" \in loaded
          /\ UNCHANGED <<historyCutoff, historyRev>>
        BY <1>6, <2>3, <3>1 DEF LoadSucceeds, TypeOK, Lane
    <3> QED BY <2>1, <3>2, EnvironmentStays DEF HistoryHoldsItsWindow, environment
  <2> QED BY <2>2, <2>3
<1>7. ASSUME NEW t \in Task, LoadFails(t) PROVE HistoryHoldsItsWindow'
    BY <1>7, EnvironmentStays DEF TypeOK, LockInv, HistoryHoldsItsWindow, LoadFails,
        Proceed, Returns
<1>8. ASSUME NEW t \in Task, NEW S \in Readable, RefreshSkips(t, S) PROVE HistoryHoldsItsWindow'
    BY <1>8, EnvironmentStays DEF TypeOK, LockInv, HistoryHoldsItsWindow, RefreshSkips,
        RefreshReturns, Returns
<1>9. ASSUME NEW t \in Task, NEW S \in Readable, RefreshStarts(t, S) PROVE HistoryHoldsItsWindow'
    BY <1>9, EnvironmentStays DEF TypeOK, LockInv, HistoryHoldsItsWindow, RefreshStarts
<1>10. ASSUME NEW t \in Task, ActiveListed(t) PROVE HistoryHoldsItsWindow'
    BY <1>10, EnvironmentStays DEF TypeOK, LockInv, HistoryHoldsItsWindow, ActiveListed
<1>11. ASSUME NEW t \in Task, RefreshFails(t) PROVE HistoryHoldsItsWindow'
    BY <1>11, EnvironmentStays DEF TypeOK, LockInv, HistoryHoldsItsWindow, RefreshFails,
        RefreshReturns, Returns
<1>12. ASSUME NEW t \in Task, RefreshFindsSame(t) PROVE HistoryHoldsItsWindow'
    BY <1>12, EnvironmentStays DEF TypeOK, LockInv, HistoryHoldsItsWindow,
        RefreshFindsSame, RefreshReturns, Returns
<1>13. ASSUME NEW t \in Task, RefreshReplaces(t) PROVE HistoryHoldsItsWindow'
    BY <1>13, EnvironmentStays DEF TypeOK, LockInv, HistoryHoldsItsWindow,
        RefreshReplaces, ReplaceLists, RefreshCompletes, RefreshReturns, Returns
<1>14. ASSUME NEW t \in Task, RefreshReplacesFirst(t) PROVE HistoryHoldsItsWindow'
    BY <1>14, EnvironmentStays DEF TypeOK, LockInv, HistoryHoldsItsWindow,
        RefreshReplacesFirst, ReplaceLists
<1>15. ASSUME NEW t \in Task, RefreshHistory(t) PROVE HistoryHoldsItsWindow'
    BY <1>15, EnvironmentStays DEF TypeOK, LockInv, HistoryHoldsItsWindow,
        RefreshHistory, RefreshCompletes, RefreshReturns, Returns
<1>16. CASE UNCHANGED vars
    BY <1>16, EnvironmentStays DEF TypeOK, LockInv, HistoryHoldsItsWindow, vars
<1> QED
    BY <1>1, <1>2, <1>3, <1>4, <1>5, <1>6, <1>7, <1>8, <1>9, <1>10, <1>11, <1>12,
       <1>13, <1>14, <1>15, <1>16
    DEF Next, Environment, Calls, Acquires, Runs, CallLane, CallSnapshot, CallRefresh,
        CallHistory

--------------------------------------------------------------------------------
(* The theorems                                                             *)

LEMMA InitIInv == Init => IInv
<1> SUFFICES ASSUME Init PROVE IInv
    OBVIOUS
<1>1. LockInv
    BY DEF Init, LockInv, Holding, Refreshing
<1>2. LoadedInv
    BY DEF Init, LoadedInv
<1>3. RevisionInv
    BY DEF Init, RevisionInv
<1>4. FreshInv
    BY DEF Init, FreshInv, Fresh
<1>5. HistoryHoldsItsWindow
    BY DEF Init, HistoryHoldsItsWindow
<1> QED BY <1>1, <1>2, <1>3, <1>4, <1>5, InitTypeOK DEF IInv

LEMMA StepIInv == IInv /\ [Next]_vars => IInv'
BY TypeStep, LockStep, LoadedStep, RevisionStep, FreshStep, HistoryStep DEF IInv

LEMMA InductiveInvariant == Spec => []IInv
BY InitIInv, StepIInv, PTL DEF Spec

(* The state is well-typed: in particular the call made on behalf of          *)
(* snapshot_history() ends in a list it may store.                           *)
THEOREM TypeCorrect == Spec => []TypeOK
<1>1. IInv => TypeOK
    BY DEF IInv
<1> QED BY <1>1, InductiveInvariant, PTL

(* The manifests of all databases can be read at one moment, or those of none: *)
(* true of a workspace with one database.                                     *)
WholeSignatures == Readable \subseteq {Db, {}}

LEMMA SkipMeansCurrent ==
    ASSUME WholeSignatures, IInv, NEW S \in Readable, CanSkip(Signature(S))
    PROVE  BoardCurrent
<1>1. Signature(S) # {} /\ Signature(S) = lastRevision
    BY DEF CanSkip
<1>2. S # {}
    BY <1>1 DEF Signature
<1>3. S = Db
    BY <1>2 DEF WholeSignatures
<1> QED BY <1>1, <1>3 DEF IInv, FreshInv, Fresh

(* Under that assumption the revision skip of refresh() never skips a change. *)
THEOREM SkipMissesNothingHolds ==
    ASSUME WholeSignatures
    PROVE  Spec => []SkipMissesNothing
<1>1. IInv => SkipMissesNothing
    BY SkipMeansCurrent DEF SkipMissesNothing
<1> QED BY <1>1, InductiveInvariant, PTL

(* A history fetched since the last write holds the whole window it claims.   *)
THEOREM HistoryHoldsItsWindowHolds == Spec => []HistoryHoldsItsWindow
<1>1. IInv => HistoryHoldsItsWindow
    BY DEF IInv
<1> QED BY <1>1, InductiveInvariant, PTL

(* Outside a refresh no detail is older than the lists beside it.             *)
THEOREM DetailsDroppedHolds == Spec => []DetailsDropped
<1>1. IInv => DetailsDropped
    BY DEF IInv, LoadedInv, LockInv, DetailsDropped, Holding
<1> QED BY <1>1, InductiveInvariant, PTL

(* No load or refresh narrows the window of the cached history.               *)
THEOREM HistoryNeverNarrowsHolds == Spec => HistoryNeverNarrows
<1> DEFINE Keeps == /\ loaded \subseteq loaded'
                    /\ "history" \in loaded => Wider(historyCutoff', historyCutoff)
<1> USE DEF environment, snapshots, caller, locals
<1>1. ASSUME IInv, [Next]_vars PROVE [Keeps]_vars
  <2>0. Wider(historyCutoff, historyCutoff)
      BY <1>1 DEF IInv, TypeOK, Wider, Cutoff, Day
  <2>1. ASSUME UNCHANGED <<loaded, historyCutoff>> PROVE Keeps
      BY <2>0, <2>1
  <2>2. ASSUME NEW t \in Task, LoadSucceeds(t) PROVE Keeps
    <3>1. CASE goal[t] = "history"
      <4>1. "history" \in loaded => historyCutoff # All /\ ~(cutoff[t] # All /\ historyCutoff <= cutoff[t])
          BY <1>1, <2>2, <3>1 DEF IInv, LockInv, LoadSucceeds, NothingToLoad, HistoryCovers
      <4>2. cutoff[t] \in Cutoff /\ historyCutoff \in Cutoff
          BY <1>1 DEF IInv, TypeOK
      <4>3. "history" \in loaded => Wider(cutoff[t], historyCutoff)
          BY <4>1, <4>2 DEF Wider, Cutoff, Day
      <4> QED BY <2>2, <3>1, <4>3 DEF LoadSucceeds
    <3>2. CASE goal[t] # "history"
        BY <2>0, <2>2, <3>2 DEF LoadSucceeds
    <3> QED BY <3>1, <3>2
  <2>3. ASSUME ReplaceLists PROVE Keeps
      BY <2>0, <2>3 DEF ReplaceLists
  <2>4. ASSUME NEW t \in Task, Acquires(t) PROVE UNCHANGED <<loaded, historyCutoff>>
      BY <2>4 DEF Acquires, LoadNotNeeded, LoadStarts, RefreshSkips, RefreshStarts
  <2>5. ASSUME NEW t \in Task, Calls(t) PROVE UNCHANGED <<loaded, historyCutoff>>
      BY <2>5 DEF Calls, CallLane, CallSnapshot, CallRefresh, CallHistory, Call
  <2>6. ASSUME NEW t \in Task, Runs(t) PROVE Keeps
      BY <2>1, <2>2, <2>3, <2>6
      DEF Runs, LoadFails, ActiveListed, RefreshFails, RefreshFindsSame, RefreshReplaces,
          RefreshReplacesFirst, RefreshHistory
  <2>7. ASSUME Environment PROVE UNCHANGED <<loaded, historyCutoff>>
      BY <2>7 DEF Environment, ExternalWrite, NextDay
  <2> QED BY <1>1, <2>1, <2>4, <2>5, <2>6, <2>7 DEF Next, vars
<1> QED BY <1>1, InductiveInvariant, PTL DEF Spec, HistoryNeverNarrows

--------------------------------------------------------------------------------
(* The live board.  Its steps are steps of the store, so what is proved above *)
(* holds in it; the panes and the bus are proved about on top of that.        *)

(* No call of the live board is for the history.                              *)
NoHistory ==
    /\ "history" \notin loaded
    /\ \A t \in Task : goal[t] \in {"active", "closed", "refresh"}

(* A pane that has its answer, and was served, shows lists that are loaded.   *)
ServedInv ==
    \A p \in Pane : want[p] \/ pc[p] # "idle" \/ p \in unserved \/ Cached(p)

LiveIInv == IInv /\ LiveTypeOK /\ NoHistory /\ ServedInv /\ NoEventMissed

LEMMA PaneIsTask == Pane \subseteq Task /\ Watcher \in Task /\ Watcher \notin Pane
BY LiveSyncAssumption DEF LiveSyncAssumption

LEMMA PaneTab == \A p \in Pane : p[1] \in Tab
BY DEF Pane

LEMMA PaneCalls ==
    ASSUME NEW p \in Pane, CallForPane(p)
    PROVE  \E g \in {"active", "closed", "refresh"} : Call(p, g, All)
BY DEF CallForPane, CallLane, CallSnapshot

LEMMA PaneCallsStore ==
    ASSUME NEW p \in Pane, CallForPane(p)
    PROVE  Next
<1>1. Calls(p)
    BY DEF CallForPane, Calls
<1> QED BY <1>1, PaneIsTask DEF Next

LEMMA LiveStepIsStoreStep == [LiveNext]_liveVars => [Next]_vars
<1> SUFFICES ASSUME [LiveNext]_liveVars PROVE [Next]_vars
    OBVIOUS
<1>1. CASE BdWrites
    BY <1>1 DEF BdWrites, Next, Environment
<1>2. CASE RouteBroadcasts
    BY <1>2 DEF RouteBroadcasts
<1>3. CASE PassStarts
    BY <1>3, PaneIsTask DEF PassStarts, Next, Calls
<1>4. CASE StoreStep
  <2>1. \E t \in Task : Acquires(t) \/ Runs(t)
      BY <1>4, PaneIsTask DEF StoreStep, PaneStep, WatcherStep
  <2> QED BY <2>1 DEF Next
<1>5. ASSUME NEW t \in Tab, TabNext(t) PROVE UNCHANGED vars
    BY <1>5 DEF TabNext, Connect, Bootstrap, Deliver, Disconnect
<1>6. ASSUME NEW p \in Pane, Request(p) PROVE [Next]_vars
    BY <1>6, PaneCallsStore DEF Request
<1>7. CASE UNCHANGED liveVars
    BY <1>7 DEF liveVars
<1> QED BY <1>1, <1>2, <1>3, <1>4, <1>5, <1>6, <1>7 DEF LiveNext

(* The live board implements the store: whatever the tabs, the bus and the    *)
(* watcher do, the caches change only as store.py lets its callers change     *)
(* them, and every theorem above holds of the composition.                    *)
THEOREM LiveImplementsStore == LiveSpec => Spec
<1>1. LiveInit => Init
    BY DEF LiveInit
<1> QED BY <1>1, LiveStepIsStoreStep, PTL DEF LiveSpec, Spec

--------------------------------------------------------------------------------
(* What one step of a coroutine may do to the others and to the lists.        *)

LEMMA OnlyItself ==
    ASSUME TypeOK, NEW t \in Task, Acquires(t) \/ Runs(t), NEW u \in Task, u # t
    PROVE  pc'[u] = pc[u] /\ goal'[u] = goal[u]
<1> USE DEF TypeOK, caller, Returns, Proceed, RefreshReturns, RefreshCompletes
<1>1. CASE Acquires(t)
    BY <1>1 DEF Acquires, LoadNotNeeded, LoadStarts, RefreshSkips, RefreshStarts
<1>2. CASE LoadSucceeds(t) \/ LoadFails(t)
    BY <1>2 DEF LoadSucceeds, LoadFails
<1>3. CASE ActiveListed(t) \/ RefreshFails(t) \/ RefreshFindsSame(t)
    BY <1>3 DEF ActiveListed, RefreshFails, RefreshFindsSame
<1>4. CASE RefreshReplaces(t) \/ RefreshReplacesFirst(t) \/ RefreshHistory(t)
    BY <1>4 DEF RefreshReplaces, RefreshReplacesFirst, RefreshHistory
<1> QED BY <1>1, <1>2, <1>3, <1>4 DEF Runs

(* Without a history, a step keeps every loaded list, or it is the end of a   *)
(* refresh that returns True.                                                 *)
LEMMA KeepsOrReplaces ==
    ASSUME IInv, NoHistory, NEW t \in Task, Acquires(t) \/ Runs(t)
    PROVE  /\ loaded \subseteq loaded'
           /\ \/ \A l \in loaded : cache'[l] = cache[l]
              \/ RefreshReplaces(t)
<1> USE DEF snapshots, IInv
<1>1. CASE Acquires(t)
    BY <1>1 DEF Acquires, LoadNotNeeded, LoadStarts, RefreshSkips, RefreshStarts
<1>2. CASE LoadSucceeds(t)
  <2>1. Target(t) \notin loaded
      BY <1>2 DEF LoadSucceeds, LockInv, NothingToLoad, NoHistory
  <2> QED BY <1>2, <2>1 DEF LoadSucceeds, TypeOK
<1>3. CASE LoadFails(t) \/ ActiveListed(t) \/ RefreshFails(t) \/ RefreshFindsSame(t)
    BY <1>3 DEF LoadFails, ActiveListed, RefreshFails, RefreshFindsSame
<1>4. CASE RefreshReplaces(t)
    BY <1>4 DEF RefreshReplaces, ReplaceLists
<1>5. CASE RefreshReplacesFirst(t) \/ RefreshHistory(t)
    BY <1>5 DEF RefreshReplacesFirst, RefreshHistory, LoadedInv, NoHistory, Lane
<1> QED BY <1>1, <1>2, <1>3, <1>4, <1>5 DEF Runs

LEMMA ReplacingReturnsTrue ==
    ASSUME IInv, NEW t \in Task, RefreshReplaces(t)
    PROVE  ReturnsTrue(t) /\ goal[t] = "refresh"
<1> USE DEF IInv
<1>1. pc[t] = "listClosed" /\ goal[t] = "refresh" /\ pc'[t] = "idle"
    BY DEF RefreshReplaces, RefreshCompletes, RefreshReturns, Returns, LockInv, Refreshing, TypeOK
<1>2. cache'["active"] = freshActive /\ cache'["closed"] = ListClosed
    BY DEF RefreshReplaces, ReplaceLists, TypeOK, Lane
<1>3. {"active", "closed"} \subseteq loaded'
    BY DEF RefreshReplaces, ReplaceLists
<1>4. <<cache, loaded>>' # <<cache, loaded>>
    BY <1>2, <1>3 DEF RefreshReplaces, Unchanged
<1> QED BY <1>1, <1>4 DEF ReturnsTrue

LEMMA NoHistoryStep ==
    ASSUME IInv, NoHistory, NEW t \in Task, Acquires(t) \/ Runs(t)
    PROVE  NoHistory'
<1> USE DEF IInv, snapshots, caller
<1>1. goal'[t] \in {"active", "closed", "refresh"}
  <2> USE DEF TypeOK, NoHistory, Returns, Proceed, RefreshReturns, RefreshCompletes
  <2>1. CASE Acquires(t)
      BY <2>1 DEF Acquires, LoadNotNeeded, LoadStarts, RefreshSkips, RefreshStarts
  <2>2. CASE LoadSucceeds(t) \/ LoadFails(t)
      BY <2>2 DEF LoadSucceeds, LoadFails
  <2>3. CASE ActiveListed(t) \/ RefreshFails(t) \/ RefreshFindsSame(t)
      BY <2>3 DEF ActiveListed, RefreshFails, RefreshFindsSame
  <2>4. CASE RefreshReplaces(t) \/ RefreshReplacesFirst(t) \/ RefreshHistory(t)
      BY <2>4 DEF RefreshReplaces, RefreshReplacesFirst, RefreshHistory
  <2> QED BY <2>1, <2>2, <2>3, <2>4 DEF Runs
<1>2. \A u \in Task : goal'[u] \in {"active", "closed", "refresh"}
    BY <1>1, OnlyItself DEF NoHistory
<1>3. "history" \notin loaded'
  <2>1. CASE Acquires(t)
      BY <2>1 DEF Acquires, LoadNotNeeded, LoadStarts, RefreshSkips, RefreshStarts, NoHistory
  <2>2. CASE LoadSucceeds(t)
      BY <2>2 DEF LoadSucceeds, Target, LockInv, NoHistory
  <2>3. CASE LoadFails(t) \/ ActiveListed(t) \/ RefreshFails(t) \/ RefreshFindsSame(t)
      BY <2>3 DEF LoadFails, ActiveListed, RefreshFails, RefreshFindsSame, NoHistory
  <2>4. CASE RefreshReplaces(t) \/ RefreshReplacesFirst(t) \/ RefreshHistory(t)
      BY <2>4 DEF RefreshReplaces, RefreshReplacesFirst, RefreshHistory, ReplaceLists, NoHistory
  <2> QED BY <2>1, <2>2, <2>3, <2>4 DEF Runs
<1> QED BY <1>2, <1>3 DEF NoHistory

LEMMA CachedStays ==
    ASSUME loaded \subseteq loaded', NEW p \in Pane, Cached(p)
    PROVE  Cached(p)'
BY DEF Cached

LEMMA AnswerStays ==
    ASSUME NEW p \in Pane, Cached(p), \A l \in loaded : cache'[l] = cache[l]
    PROVE  Answer(p)' = Answer(p)
BY DEF Cached, Answer

LEMMA AnswerType ==
    ASSUME TypeOK, NEW p \in Pane
    PROVE  Answer(p) \in SUBSET Row
<1>1. cache["active"] \in SUBSET Row /\ cache["closed"] \in SUBSET Row
    BY DEF TypeOK, Lane
<1> QED BY <1>1 DEF Answer

(* After a broadcast every pane is about to fetch.                            *)
LEMMA BroadcastReachesAll ==
    ASSUME LiveTypeOK, Broadcast, UNCHANGED link
    PROVE  /\ queue' \in [Tab -> 0..QueueSize]
           /\ \A p \in Pane : Fetching(p)'
<1>1. QueueSize \in Nat \ {0}
    BY LiveSyncAssumption DEF LiveSyncAssumption
<1>2. \A t \in Tab : queue[t] \in 0..QueueSize
    BY DEF LiveTypeOK
<1>3. queue' \in [Tab -> 0..QueueSize]
    BY <1>1, <1>2 DEF Broadcast
<1>4. \A t \in Tab : link[t] = "up" => queue'[t] > 0
    BY <1>1, <1>2 DEF Broadcast
<1> QED BY <1>3, <1>4, PaneTab DEF Fetching

--------------------------------------------------------------------------------
(* Each live step preserves the invariant.                                    *)

LEMMA RendersKeeps ==
    ASSUME LiveTypeOK, TypeOK', NEW p \in Pane, NEW asking \in [Pane -> BOOLEAN],
           Renders(p, asking)
    PROVE  /\ want' \in [Pane -> BOOLEAN]
           /\ shown' \in [Pane -> SUBSET Row]
           /\ unserved' \subseteq Pane
           /\ shown'[p] = Answer(p)'
           /\ p \in unserved' \/ Cached(p)'
           /\ \A q \in Pane : asking[q] => want'[q]
           /\ \A q \in Pane : q # p => shown'[q] = shown[q] /\ (q \in unserved' <=> q \in unserved)
<1>1. Answer(p)' \in SUBSET Row
  <2>1. cache'["active"] \in SUBSET Row /\ cache'["closed"] \in SUBSET Row
      BY DEF TypeOK, Lane
  <2> QED BY <2>1 DEF Answer
<1>2. shown' \in [Pane -> SUBSET Row] /\ shown'[p] = Answer(p)'
    BY <1>1 DEF Renders, LiveTypeOK
<1>3. unserved' \subseteq Pane /\ (p \in unserved' \/ Cached(p)')
    BY DEF Renders, LiveTypeOK
<1>4. want' \in [Pane -> BOOLEAN] /\ \A q \in Pane : asking[q] => want'[q]
    BY DEF Renders
<1>5. \A q \in Pane : q # p => shown'[q] = shown[q] /\ (q \in unserved' <=> q \in unserved)
    BY DEF Renders, LiveTypeOK
<1> QED BY <1>2, <1>3, <1>4, <1>5

(* A pane left alone by a step that keeps the loaded lists.                   *)
LEMMA PaneKept ==
    ASSUME LiveIInv, loaded \subseteq loaded', NEW p \in Pane,
           shown'[p] = shown[p], p \in unserved' <=> p \in unserved,
           (want[p] \/ pc[p] # "idle") => (want'[p] \/ pc'[p] # "idle")
    PROVE  /\ want'[p] \/ pc'[p] # "idle" \/ p \in unserved' \/ Cached(p)'
           /\ ~unannounced /\ (\A l \in loaded : cache'[l] = cache[l]) /\ (Fetching(p) => Fetching(p)')
              => shown'[p] = Answer(p)' \/ Fetching(p)' \/ p \in unserved'
<1>1. want'[p] \/ pc'[p] # "idle" \/ p \in unserved' \/ Cached(p)'
    BY CachedStays DEF LiveIInv, ServedInv
<1>2. ASSUME ~unannounced, \A l \in loaded : cache'[l] = cache[l], ~Fetching(p), p \notin unserved
      PROVE  shown'[p] = Answer(p)'
  <2>1. shown[p] = Answer(p) /\ Cached(p)
      BY <1>2 DEF LiveIInv, NoEventMissed, ServedInv, Fetching
  <2> QED BY <1>2, <2>1, AnswerStays
<1> QED BY <1>1, <1>2

LEMMA BdWritesStep ==
    ASSUME LiveIInv, IInv', BdWrites
    PROVE  LiveIInv'
<1>1. UNCHANGED <<cache, loaded, pc, goal, link, queue, want, shown, unserved, unannounced>>
    BY DEF BdWrites, ExternalWrite, bus, panes, answered, snapshots, caller
<1>2. LiveTypeOK' /\ NoHistory'
    BY <1>1 DEF BdWrites, IInv, LiveIInv, LiveTypeOK, NoHistory
<1>3. ServedInv' /\ NoEventMissed'
    BY <1>1, PaneKept DEF LiveIInv, ServedInv, NoEventMissed, Fetching
<1> QED BY <1>2, <1>3 DEF LiveIInv

LEMMA BusStep ==
    ASSUME LiveIInv, IInv', NEW t \in Tab, TabNext(t)
    PROVE  LiveIInv'
<1>1. UNCHANGED <<vars, shown, unserved, unannounced, owed, announcing>>
    BY DEF TabNext, Connect, Bootstrap, Deliver, Disconnect, answered, panes
<1>2. UNCHANGED <<cache, loaded, pc, goal>>
    BY <1>1 DEF vars, snapshots, caller
<1>3. /\ link' \in [Tab -> {"down", "greeting", "up"}]
      /\ queue' \in [Tab -> 0..QueueSize]
      /\ want' \in [Pane -> BOOLEAN]
      /\ \A p \in Pane : /\ want[p] => want'[p]
                         /\ Fetching(p) => Fetching(p)'
  <2> USE LiveSyncAssumption DEF LiveSyncAssumption, LiveIInv, LiveTypeOK
  <2>1. CASE Connect(t)
      BY <2>1, <1>2 DEF Connect, panes, Fetching
  <2>2. CASE Bootstrap(t)
      BY <2>2, <1>2, PaneTab DEF Bootstrap, AllWant, Fetching
  <2>3. CASE Deliver(t)
    <3>1. queue[t] \in 0..QueueSize /\ queue[t] - 1 \in 0..QueueSize
        BY <2>3 DEF Deliver
    <3>2. queue' \in [Tab -> 0..QueueSize]
        BY <2>3, <3>1 DEF Deliver
    <3>3. want' \in [Pane -> BOOLEAN] /\ \A p \in Pane : (want[p] => want'[p]) /\ (p[1] = t => want'[p])
        BY <2>3 DEF Deliver, AllWant
    <3>4. link' = link /\ \A u \in Tab : u # t => queue'[u] = queue[u]
        BY <2>3 DEF Deliver
    <3> QED BY <1>2, <3>2, <3>3, <3>4, PaneTab DEF Fetching
  <2>4. CASE Disconnect(t)
      BY <2>4, <1>2, PaneTab DEF Disconnect, panes, Fetching
  <2> QED BY <2>1, <2>2, <2>3, <2>4 DEF TabNext
<1>4. LiveTypeOK' /\ NoHistory'
    BY <1>1, <1>2, <1>3 DEF IInv, LiveIInv, LiveTypeOK, NoHistory
<1>5. ServedInv' /\ NoEventMissed'
    BY <1>1, <1>2, <1>3, PaneKept DEF ServedInv, NoEventMissed
<1> QED BY <1>4, <1>5 DEF LiveIInv

LEMMA RouteBroadcastsStep ==
    ASSUME LiveIInv, IInv', RouteBroadcasts
    PROVE  LiveIInv'
<1>1. UNCHANGED <<vars, owed, link, want, shown, unserved>> /\ Broadcast
    BY DEF RouteBroadcasts, panes, answered
<1>2. UNCHANGED <<cache, loaded, pc, goal>>
    BY <1>1 DEF vars, snapshots, caller
<1>3. /\ queue' \in [Tab -> 0..QueueSize]
      /\ \A p \in Pane : Fetching(p)'
    BY <1>1, BroadcastReachesAll DEF LiveIInv
<1>4. LiveTypeOK' /\ NoHistory'
    BY <1>1, <1>2, <1>3 DEF RouteBroadcasts, IInv, LiveIInv, LiveTypeOK, NoHistory
<1>5. ServedInv' /\ NoEventMissed'
    BY <1>1, <1>2, <1>3, PaneKept DEF ServedInv, NoEventMissed
<1> QED BY <1>4, <1>5 DEF LiveIInv

LEMMA PassStartsStep ==
    ASSUME LiveIInv, IInv', PassStarts
    PROVE  LiveIInv'
<1>1. UNCHANGED <<cache, loaded, announcing, link, queue, want, shown, unserved, unannounced>>
    BY DEF PassStarts, CallRefresh, Call, snapshots, bus, panes, answered
<1>2. /\ \A p \in Pane : pc'[p] = pc[p]
      /\ \A u \in Task : goal'[u] \in {goal[u], "refresh"}
    BY PaneIsTask DEF PassStarts, CallRefresh, Call, IInv, TypeOK, LiveIInv
<1>3. LiveTypeOK' /\ NoHistory'
    BY <1>1, <1>2 DEF PassStarts, IInv, LiveIInv, LiveTypeOK, NoHistory
<1>4. ServedInv' /\ NoEventMissed'
    BY <1>1, <1>2, PaneKept DEF ServedInv, NoEventMissed, Fetching
<1> QED BY <1>3, <1>4 DEF LiveIInv

LEMMA RequestStep ==
    ASSUME LiveIInv, IInv', NEW p \in Pane, Request(p)
    PROVE  LiveIInv'
<1> DEFINE sent == [want EXCEPT ![p] = FALSE]
<1>1. UNCHANGED <<owed, announcing, link, queue, unannounced>>
    BY DEF Request, bus
<1>2. sent \in [Pane -> BOOLEAN] /\ \A q \in Pane : q # p => (sent[q] <=> want[q])
    BY DEF LiveIInv, LiveTypeOK
<1>3. CASE UNCHANGED vars /\ Renders(p, sent)
  <2>1. UNCHANGED <<cache, loaded, pc, goal>>
      BY <1>3 DEF vars, snapshots, caller
  <2>2. /\ want' \in [Pane -> BOOLEAN]
        /\ shown' \in [Pane -> SUBSET Row]
        /\ unserved' \subseteq Pane
        /\ shown'[p] = Answer(p)'
        /\ p \in unserved' \/ Cached(p)'
        /\ \A q \in Pane : sent[q] => want'[q]
        /\ \A q \in Pane : q # p => shown'[q] = shown[q] /\ (q \in unserved' <=> q \in unserved)
    <3> HIDE DEF sent
    <3> QED BY <1>2, <1>3, RendersKeeps DEF LiveIInv, IInv
  <2>3. LiveTypeOK' /\ NoHistory'
      BY <1>1, <2>1, <2>2 DEF IInv, LiveIInv, LiveTypeOK, NoHistory
  <2>4. ASSUME NEW q \in Pane, q # p
        PROVE  /\ want'[q] \/ pc'[q] # "idle" \/ q \in unserved' \/ Cached(q)'
               /\ unannounced \/ shown'[q] = Answer(q)' \/ Fetching(q)' \/ q \in unserved'
      BY <2>4, <1>1, <1>2, <2>1, <2>2, PaneKept DEF Fetching
  <2>5. ServedInv' /\ NoEventMissed'
      BY <1>1, <2>2, <2>4 DEF ServedInv, NoEventMissed
  <2> QED BY <2>3, <2>5 DEF LiveIInv
<1>4. CASE CallForPane(p) /\ want' = sent /\ UNCHANGED answered
  <2>1. PICK g \in {"active", "closed", "refresh"} : Call(p, g, All)
      BY <1>4, PaneCalls
  <2>2. UNCHANGED <<cache, loaded, shown, unserved>>
      BY <1>4, <2>1 DEF Call, snapshots, answered
  <2>3. pc'[p] = "wait" /\ \A u \in Task : u # p => pc'[u] = pc[u]
      BY <2>1, PaneIsTask DEF Call, IInv, TypeOK, LiveIInv
  <2>4. \A u \in Task : goal'[u] \in {goal[u], "active", "closed", "refresh"}
      BY <2>1, PaneIsTask DEF Call, IInv, TypeOK, LiveIInv
  <2>5. LiveTypeOK' /\ NoHistory'
      BY <1>1, <1>2, <1>4, <2>2, <2>4 DEF IInv, LiveIInv, LiveTypeOK, NoHistory
  <2>6. ASSUME NEW q \in Pane, q # p
        PROVE  /\ want'[q] \/ pc'[q] # "idle" \/ q \in unserved' \/ Cached(q)'
               /\ unannounced \/ shown'[q] = Answer(q)' \/ Fetching(q)' \/ q \in unserved'
      BY <2>6, <1>1, <1>2, <1>4, <2>2, <2>3, PaneIsTask, PaneKept DEF Fetching
  <2>7. ServedInv' /\ NoEventMissed'
      BY <1>1, <2>3, <2>6 DEF ServedInv, NoEventMissed, Fetching
  <2> QED BY <2>5, <2>7 DEF LiveIInv
<1> QED BY <1>3, <1>4 DEF Request

LEMMA PaneStepStep ==
    ASSUME LiveIInv, IInv', NEW p \in Pane, NEW ACTION step, step => Acquires(p) \/ Runs(p),
           PaneStep(p, step)
    PROVE  LiveIInv'
<1>1. Acquires(p) \/ Runs(p)
    BY DEF PaneStep
<1>2. UNCHANGED <<announcing, link, queue>> /\ owed' \in BOOLEAN
    BY DEF PaneStep, BdMayEcho, bus, LiveIInv, LiveTypeOK
<1>3. unannounced' = (unannounced \/ (goal[p] = "refresh" /\ ReturnsTrue(p)))
    BY DEF PaneStep
<1>4. /\ loaded \subseteq loaded'
      /\ unannounced' \/ \A l \in loaded : cache'[l] = cache[l]
    BY <1>1, <1>3, PaneIsTask, KeepsOrReplaces, ReplacingReturnsTrue DEF LiveIInv
<1>5. \A u \in Task : u # p => pc'[u] = pc[u]
    BY <1>1, PaneIsTask, OnlyItself DEF IInv, LiveIInv
<1>6. NoHistory'
    BY <1>1, PaneIsTask, NoHistoryStep DEF LiveIInv
<1>7. /\ want' \in [Pane -> BOOLEAN]
      /\ shown' \in [Pane -> SUBSET Row]
      /\ unserved' \subseteq Pane
      /\ pc'[p] = "idle" => shown'[p] = Answer(p)' /\ (p \in unserved' \/ Cached(p)')
      /\ \A q \in Pane : want[q] => want'[q]
      /\ \A q \in Pane : q # p => shown'[q] = shown[q] /\ (q \in unserved' <=> q \in unserved)
  <2>1. CASE pc'[p] = "idle"
      BY <2>1, RendersKeeps DEF PaneStep, IInv, LiveIInv, LiveTypeOK
  <2>2. CASE pc'[p] # "idle"
      BY <2>2 DEF PaneStep, panes, answered, LiveIInv, LiveTypeOK
  <2> QED BY <2>1, <2>2
<1>8. LiveTypeOK'
    BY <1>2, <1>3, <1>7 DEF IInv, LiveIInv, LiveTypeOK
<1>9. ASSUME NEW q \in Pane, q # p
      PROVE  /\ want'[q] \/ pc'[q] # "idle" \/ q \in unserved' \/ Cached(q)'
             /\ unannounced' \/ shown'[q] = Answer(q)' \/ Fetching(q)' \/ q \in unserved'
  <2>1. pc'[q] = pc[q]
      BY <1>5, <1>9, PaneIsTask
  <2>2. Fetching(q) => Fetching(q)'
      BY <2>1, <1>2, <1>7 DEF Fetching
  <2>3. unannounced => unannounced'
      BY <1>3
  <2> QED BY <1>4, <1>7, <1>9, <2>1, <2>2, <2>3, PaneKept
<1>10. ServedInv' /\ NoEventMissed'
    BY <1>7, <1>9 DEF ServedInv, NoEventMissed, Fetching
<1> QED BY <1>6, <1>8, <1>10 DEF LiveIInv

LEMMA WatcherStepStep ==
    ASSUME LiveIInv, IInv', NEW ACTION step, step => Acquires(Watcher) \/ Runs(Watcher),
           WatcherStep(step)
    PROVE  LiveIInv'
<1>1. Acquires(Watcher) \/ Runs(Watcher)
    BY DEF WatcherStep
<1>2. UNCHANGED <<announcing, link, want, shown, unserved>> /\ owed' \in BOOLEAN
    BY DEF WatcherStep, BdMayEcho, panes, answered, LiveIInv, LiveTypeOK
<1>3. loaded \subseteq loaded'
    BY <1>1, PaneIsTask, KeepsOrReplaces DEF LiveIInv
<1>4. \A p \in Pane : pc'[p] = pc[p]
    BY <1>1, PaneIsTask, OnlyItself DEF IInv, LiveIInv
<1>5. NoHistory'
    BY <1>1, PaneIsTask, NoHistoryStep DEF LiveIInv
<1>6. ServedInv'
    BY <1>2, <1>3, <1>4, PaneKept DEF ServedInv
<1>7. CASE ReturnsTrue(Watcher)
  <2>1. Broadcast /\ unannounced' = FALSE
      BY <1>7 DEF WatcherStep
  <2>2. queue' \in [Tab -> 0..QueueSize] /\ \A p \in Pane : Fetching(p)'
      BY <1>2, <2>1, BroadcastReachesAll DEF LiveIInv
  <2> QED BY <1>2, <1>5, <1>6, <2>1, <2>2 DEF IInv, LiveIInv, LiveTypeOK, NoEventMissed
<1>8. CASE ~ReturnsTrue(Watcher)
  <2>1. UNCHANGED <<queue, unannounced>>
      BY <1>8 DEF WatcherStep
  <2>2. \A l \in loaded : cache'[l] = cache[l]
      BY <1>1, <1>8, PaneIsTask, KeepsOrReplaces, ReplacingReturnsTrue DEF LiveIInv
  <2>3. NoEventMissed'
      BY <1>2, <1>3, <1>4, <2>1, <2>2, PaneKept DEF NoEventMissed, Fetching
  <2> QED BY <1>2, <1>5, <1>6, <2>1, <2>3 DEF IInv, LiveIInv, LiveTypeOK
<1> QED BY <1>7, <1>8

LEMMA LiveInitIInv == LiveInit => LiveIInv
<1> SUFFICES ASSUME LiveInit PROVE LiveIInv
    OBVIOUS
<1>1. Init
    BY DEF LiveInit
<1>2. IInv
    BY <1>1, InitIInv
<1>3. LiveTypeOK
  <2>1. /\ link \in [Tab -> {"down", "greeting", "up"}] /\ queue \in [Tab -> 0..QueueSize]
        /\ want \in [Pane -> BOOLEAN] /\ shown \in [Pane -> SUBSET Row]
      BY LiveSyncAssumption DEF LiveSyncAssumption, LiveInit
  <2> QED BY <1>2, <2>1 DEF LiveInit, LiveTypeOK, IInv
<1>4. NoHistory
    BY <1>1 DEF Init, NoHistory
<1>5. ServedInv /\ NoEventMissed
    BY DEF LiveInit, ServedInv, NoEventMissed, Fetching
<1> QED BY <1>2, <1>3, <1>4, <1>5 DEF LiveIInv

LEMMA LiveStepIInv == LiveIInv /\ [LiveNext]_liveVars => LiveIInv'
<1> SUFFICES ASSUME LiveIInv, [LiveNext]_liveVars PROVE LiveIInv'
    OBVIOUS
<1>1. IInv'
    BY LiveStepIsStoreStep, StepIInv DEF LiveIInv
<1>2. CASE StoreStep
    BY <1>1, <1>2, PaneStepStep, WatcherStepStep DEF StoreStep
<1>3. CASE UNCHANGED liveVars
    BY <1>1, <1>3
    DEF liveVars, vars, snapshots, caller, bus, panes, answered, IInv, LiveIInv, LiveTypeOK,
        NoHistory, ServedInv, NoEventMissed, Fetching, Answer, Cached
<1> QED
    BY <1>1, <1>2, <1>3, BdWritesStep, RouteBroadcastsStep, PassStartsStep, BusStep,
       RequestStep
    DEF LiveNext

LEMMA LiveInductiveInvariant == LiveSpec => []LiveIInv
BY LiveInitIInv, LiveStepIInv, PTL DEF LiveSpec

(* The live board's state is well-typed: no queue outgrows its bound.         *)
THEOREM LiveTypeCorrect == LiveSpec => []LiveTypeOK
<1>1. LiveIInv => LiveTypeOK
    BY DEF LiveIInv
<1> QED BY <1>1, LiveInductiveInvariant, PTL

(* For every number of tabs, whatever the queues hold and drop, whichever      *)
(* reads fail and however writes, passes, requests and reconnections fall: a   *)
(* pane shows what the store holds or is about to fetch it, but for the two    *)
(* named exceptions.                                                          *)
THEOREM NoEventMissedHolds == LiveSpec => []NoEventMissed
<1>1. LiveIInv => NoEventMissed
    BY DEF LiveIInv
<1> QED BY <1>1, LiveInductiveInvariant, PTL

--------------------------------------------------------------------------------
(* The safety half of BoardConverges.  It needs two assumptions: signatures   *)
(* are whole (above), and bd answers: a pass that fails leaves old lists      *)
(* behind until the next event.                                               *)

NoListFails == {"active", "closed"} \cap MayFail = {}

(* What the pane's route asks the store for.                                  *)
GoalFor(p) ==
    CASE p[2] = "lanes" -> "active"
      [] p[2] = "closed" -> "closed"
      [] OTHER -> "refresh"

Current(l) ==
    CASE l = "active" -> cache["active"] = ListActive
      [] OTHER -> InWindow(cache["closed"]) = ListClosed

(* No change is owed and no pass is under way: what was read is what there is. *)
Caught(t) == ~owed /\ (pc[Watcher] = "idle" \/ t = Watcher)

GoalInv ==
    /\ today = 0
    /\ goal[Watcher] = "refresh"
    /\ \A p \in Pane : pc[p] # "idle" => goal[p] = GoalFor(p)
    /\ unserved = {}

CaughtInv ==
    /\ ~owed /\ pc[Watcher] = "idle" => \A l \in loaded : Current(l)
    /\ \A t \in Task : pc[t] = "listClosed" /\ Caught(t) => freshActive = ListActive

RestInv == LiveIInv /\ GoalInv /\ CaughtInv

LEMMA GoalStays ==
    ASSUME IInv, NoHistory, NEW t \in Task, Acquires(t) \/ Runs(t)
    PROVE  pc'[t] # "idle" => pc[t] # "idle" /\ goal'[t] = goal[t]
<1> USE DEF IInv, TypeOK, NoHistory, caller, Returns, Proceed, RefreshReturns, RefreshCompletes
<1>1. CASE Acquires(t)
    BY <1>1 DEF Acquires, LoadNotNeeded, LoadStarts, RefreshSkips, RefreshStarts
<1>2. CASE LoadSucceeds(t) \/ LoadFails(t)
    BY <1>2 DEF LoadSucceeds, LoadFails
<1>3. CASE ActiveListed(t) \/ RefreshFails(t) \/ RefreshFindsSame(t)
    BY <1>3 DEF ActiveListed, RefreshFails, RefreshFindsSame
<1>4. CASE RefreshReplaces(t) \/ RefreshReplacesFirst(t) \/ RefreshHistory(t)
    BY <1>4 DEF RefreshReplaces, RefreshReplacesFirst, RefreshHistory
<1> QED BY <1>1, <1>2, <1>3, <1>4 DEF Runs

(* A call that ends has what it came for, unless a read failed.               *)
LEMMA ReturnsServed ==
    ASSUME NoListFails, IInv, NoHistory, NEW t \in Task, Acquires(t) \/ Runs(t), pc'[t] = "idle"
    PROVE  IF goal[t] = "refresh" THEN {"active", "closed"} \subseteq loaded' ELSE goal[t] \in loaded'
<1> USE DEF IInv, snapshots
<1>0. pc'[t] = "idle" /\ pc[t] \in Pc /\ goal[t] \in {"active", "closed", "refresh"}
    BY DEF TypeOK, NoHistory
<1>1. CASE LoadNotNeeded(t)
    BY <1>0, <1>1 DEF LoadNotNeeded, NothingToLoad, Target
<1>2. CASE LoadStarts(t) \/ ActiveListed(t) \/ RefreshReplacesFirst(t) \/ \E S \in Readable : RefreshStarts(t, S)
    BY <1>0, <1>2 DEF LoadStarts, ActiveListed, RefreshReplacesFirst, RefreshStarts, TypeOK
<1>3. ASSUME NEW S \in Readable, RefreshSkips(t, S) PROVE {"active", "closed"} \subseteq loaded' /\ goal[t] = "refresh"
    BY <1>3 DEF RefreshSkips, CanSkip
<1>4. CASE LoadSucceeds(t)
    BY <1>0, <1>4 DEF LoadSucceeds, LockInv, Target
<1>5. CASE LoadFails(t) \/ RefreshFails(t)
  <2>1. CASE LoadFails(t)
      BY <1>0, <2>1 DEF LoadFails, LockInv, Target, NoListFails
  <2>2. CASE RefreshFails(t)
      BY <2>2 DEF RefreshFails, NoListFails
  <2> QED BY <1>5, <2>1, <2>2
<1>6. CASE RefreshFindsSame(t)
    BY <1>6 DEF RefreshFindsSame, Unchanged, LockInv, Refreshing
<1>7. CASE RefreshReplaces(t)
    BY <1>7 DEF RefreshReplaces, ReplaceLists, LockInv, Refreshing
<1>8. CASE RefreshHistory(t)
    BY <1>8 DEF RefreshHistory, LoadedInv, NoHistory, Lane
<1> QED BY <1>1, <1>2, <1>3, <1>4, <1>5, <1>6, <1>7, <1>8 DEF Acquires, Runs

LEMMA GoalInvStep ==
    ASSUME NoListFails, LiveIInv, LiveIInv', GoalInv, [LiveNext]_liveVars
    PROVE  GoalInv'
<1>1. today' = 0
  <2>1. CASE BdWrites
      BY <2>1 DEF BdWrites, ExternalWrite, GoalInv
  <2>2. CASE StoreStep
    <3>1. PICK t \in Task : Acquires(t) \/ Runs(t)
        BY <2>2, PaneIsTask DEF StoreStep, PaneStep, WatcherStep
    <3>2. CASE Acquires(t)
        BY <3>2 DEF Acquires, LoadNotNeeded, LoadStarts, RefreshSkips, RefreshStarts,
            RefreshReturns, environment, GoalInv
    <3>3. CASE Runs(t)
        BY <3>3 DEF Runs, LoadSucceeds, LoadFails, ActiveListed, RefreshFails,
            RefreshFindsSame, RefreshReplaces, RefreshReplacesFirst, RefreshHistory,
            RefreshCompletes, RefreshReturns, environment, GoalInv
    <3> QED BY <3>1, <3>2, <3>3
  <2>3. CASE UNCHANGED vars
      BY <2>3 DEF vars, environment, GoalInv
  <2>4. ASSUME NEW t \in Task, NEW g, Call(t, g, All) PROVE today' = 0
      BY <2>4 DEF Call, environment, GoalInv
  <2>5. CASE RouteBroadcasts \/ UNCHANGED liveVars \/ \E t \in Tab : TabNext(t)
      BY <2>3, <2>5 DEF RouteBroadcasts, TabNext, Connect, Bootstrap, Deliver, Disconnect, liveVars
  <2>6. CASE PassStarts
      BY <2>4, <2>6, PaneIsTask DEF PassStarts, CallRefresh
  <2>7. ASSUME NEW p \in Pane, Request(p) PROVE today' = 0
      BY <2>3, <2>4, <2>7, PaneIsTask, PaneCalls DEF Request
  <2> QED BY <2>1, <2>2, <2>5, <2>6, <2>7 DEF LiveNext
<1> DEFINE Others == /\ goal'[Watcher] = "refresh"
                     /\ \A p \in Pane : pc'[p] # "idle" => goal'[p] = GoalFor(p)
                     /\ unserved' = {}
<1> USE PaneIsTask
<1>2. ASSUME UNCHANGED <<goal, pc, unserved>> PROVE Others
    BY <1>2 DEF GoalInv
<1>3. ASSUME BdWrites \/ RouteBroadcasts \/ UNCHANGED liveVars \/ \E t \in Tab : TabNext(t) PROVE Others
  <2>1. UNCHANGED <<goal, pc, unserved>>
      BY <1>3 DEF BdWrites, ExternalWrite, RouteBroadcasts, TabNext, Connect, Bootstrap,
          Deliver, Disconnect, liveVars, vars, caller, panes, answered
  <2> QED BY <1>2, <2>1
<1>4. ASSUME PassStarts PROVE Others
    BY <1>4 DEF PassStarts, CallRefresh, Call, panes, answered, LiveIInv, IInv, TypeOK, GoalInv
<1>5. ASSUME NEW p \in Pane, Request(p) PROVE Others
  <2>1. CASE Cached(p) /\ UNCHANGED vars /\ Renders(p, [want EXCEPT ![p] = FALSE])
    <3>1. Cached(p)' /\ UNCHANGED <<pc, goal>>
        BY <2>1 DEF Cached, vars, snapshots, caller
    <3>2. unserved' = {}
        BY <2>1, <3>1 DEF Renders, GoalInv
    <3> QED BY <3>1, <3>2 DEF GoalInv
  <2>2. CASE CallForPane(p) /\ UNCHANGED answered
    <3>1. Call(p, GoalFor(p), All)
        BY <2>2 DEF CallForPane, GoalFor, CallLane, CallSnapshot
    <3> QED BY <2>2, <3>1 DEF Call, answered, LiveIInv, IInv, TypeOK, GoalInv
  <2> QED BY <1>5, <2>1, <2>2 DEF Request
<1>6. ASSUME NEW p \in Pane, Acquires(p) \/ Runs(p), PaneStep(p, Acquires(p)) \/ PaneStep(p, Runs(p))
      PROVE  Others
  <2>1. pc'[p] # "idle" => pc[p] # "idle" /\ goal'[p] = goal[p]
      BY <1>6, GoalStays DEF LiveIInv
  <2>2. \A u \in Task : u # p => pc'[u] = pc[u] /\ goal'[u] = goal[u]
      BY <1>6, OnlyItself DEF LiveIInv, IInv
  <2>3. CASE pc'[p] = "idle"
    <3>1. pc[p] # "idle"
        BY <1>6 DEF Acquires, Runs, LoadNotNeeded, LoadStarts, RefreshSkips, RefreshStarts,
           LoadSucceeds, LoadFails, ActiveListed, RefreshFails, RefreshFindsSame,
           RefreshReplaces, RefreshReplacesFirst, RefreshHistory
    <3>2. goal[p] = GoalFor(p)
        BY <3>1 DEF GoalInv
    <3>3. Cached(p)'
        BY <1>6, <2>3, <3>2, ReturnsServed DEF GoalFor, Cached, LiveIInv
    <3>4. Renders(p, want)
        BY <1>6, <2>3 DEF PaneStep
    <3>5. unserved' = {}
        BY <3>3, <3>4 DEF Renders, GoalInv
    <3> QED BY <2>2, <2>3, <3>5 DEF GoalInv
  <2>4. CASE pc'[p] # "idle"
    <3>1. unserved' = {}
        BY <1>6, <2>4 DEF PaneStep, panes, answered, GoalInv
    <3> QED BY <2>1, <2>2, <2>4, <3>1 DEF GoalInv
  <2> QED BY <2>3, <2>4
<1>7. ASSUME Acquires(Watcher) \/ Runs(Watcher),
             WatcherStep(Acquires(Watcher)) \/ WatcherStep(Runs(Watcher))
      PROVE  Others
  <2>1. \A u \in Task : u # Watcher => pc'[u] = pc[u] /\ goal'[u] = goal[u]
      BY <1>7, OnlyItself DEF LiveIInv, IInv
  <2>2. goal'[Watcher] = "refresh"
    <3>1. goal'[Watcher] \in {"refresh", goal[Watcher]}
      <4> USE DEF LiveIInv, IInv, TypeOK, NoHistory, caller, Returns, Proceed,
                  RefreshReturns, RefreshCompletes
      <4>1. CASE Acquires(Watcher)
          BY <4>1 DEF Acquires, LoadNotNeeded, LoadStarts, RefreshSkips, RefreshStarts
      <4>2. CASE LoadSucceeds(Watcher) \/ LoadFails(Watcher)
          BY <4>2 DEF LoadSucceeds, LoadFails
      <4>3. CASE ActiveListed(Watcher) \/ RefreshFails(Watcher) \/ RefreshFindsSame(Watcher)
          BY <4>3 DEF ActiveListed, RefreshFails, RefreshFindsSame
      <4>4. CASE RefreshReplaces(Watcher) \/ RefreshReplacesFirst(Watcher) \/ RefreshHistory(Watcher)
          BY <4>4 DEF RefreshReplaces, RefreshReplacesFirst, RefreshHistory
      <4> QED BY <1>7, <4>1, <4>2, <4>3, <4>4 DEF Runs
    <3> QED BY <3>1 DEF GoalInv
  <2>3. unserved' = {}
      BY <1>7 DEF WatcherStep, panes, answered, GoalInv
  <2> QED BY <2>1, <2>2, <2>3 DEF GoalInv
<1>8. ASSUME StoreStep PROVE Others
    BY <1>6, <1>7, <1>8 DEF StoreStep, PaneStep, WatcherStep
<1>9. Others
    BY <1>3, <1>4, <1>5, <1>8 DEF LiveNext
<1> QED BY <1>1, <1>9 DEF GoalInv, GoalFor

(* Only one coroutine reads: who takes a step keeps the others from it.       *)
LEMMA ReadsAlone ==
    ASSUME IInv, NEW t \in Task, Acquires(t) \/ Runs(t), NEW u \in Task, pc'[u] = "listClosed"
    PROVE  u = t /\ ActiveListed(t)
<1> USE DEF IInv
<1>1. ASSUME u # t PROVE FALSE
  <2>1. pc[u] = "listClosed"
      BY <1>1, OnlyItself
  <2>2. lock = u /\ lock # t /\ lock # None
      BY <1>1, <2>1 DEF LockInv, Holding
  <2>3. pc[t] \notin Holding
      BY <2>2 DEF LockInv
  <2> QED BY <2>2, <2>3
      DEF Acquires, Runs, LoadNotNeeded, LoadStarts, RefreshSkips, RefreshStarts, LoadSucceeds,
          LoadFails, ActiveListed, RefreshFails, RefreshFindsSame, RefreshReplaces,
          RefreshReplacesFirst, RefreshHistory, Holding
<1>2. u = t
    BY <1>1
<1> USE DEF TypeOK, Returns, Proceed, RefreshReturns, RefreshCompletes
<1>3. ~Acquires(t)
    BY <1>2 DEF Acquires, LoadNotNeeded, LoadStarts, RefreshSkips, RefreshStarts
<1>4. ~LoadSucceeds(t) /\ ~LoadFails(t) /\ ~RefreshFails(t) /\ ~RefreshFindsSame(t)
    BY <1>2 DEF LoadSucceeds, LoadFails, RefreshFails, RefreshFindsSame
<1>5. ~RefreshReplaces(t) /\ ~RefreshReplacesFirst(t) /\ ~RefreshHistory(t)
    BY <1>2 DEF RefreshReplaces, RefreshReplacesFirst, RefreshHistory
<1> QED BY <1>2, <1>3, <1>4, <1>5 DEF Runs

LEMMA StoreStepKeepsWorld ==
    ASSUME NEW t \in Task, Acquires(t) \/ Runs(t)
    PROVE  UNCHANGED environment
BY DEF Acquires, Runs, LoadNotNeeded, LoadStarts, RefreshSkips, RefreshStarts, LoadSucceeds,
       LoadFails, ActiveListed, RefreshFails, RefreshFindsSame, RefreshReplaces,
       RefreshReplacesFirst, RefreshHistory, RefreshCompletes, RefreshReturns

LEMMA WindowOfClosed == InWindow(ListClosed) = ListClosed
BY DEF InWindow, ListClosed

LEMMA CurrentStays ==
    ASSUME UNCHANGED environment, NEW l, Current(l), UNCHANGED <<cache["active"], cache["closed"]>>
    PROVE  Current(l)'
BY DEF Current, environment, InWindow, ListActive, ListClosed, Closed, Table

(* A step of the store leaves current lists, if it found them so and what it   *)
(* read is current.                                                           *)
LEMMA ListsStayCurrent ==
    ASSUME IInv, NoHistory, NEW t \in Task, Acquires(t) \/ Runs(t),
           \A l \in loaded : Current(l),
           pc[t] = "listClosed" => freshActive = ListActive
    PROVE  \A l \in loaded' : Current(l)'
<1> USE DEF IInv, snapshots
<1>1. UNCHANGED environment
    BY StoreStepKeepsWorld
<1>2. ListActive' = ListActive /\ ListClosed' = ListClosed /\ InWindow(ListClosed)' = ListClosed
    BY <1>1, WindowOfClosed DEF environment, InWindow, ListActive, ListClosed, Closed, Table
<1>3. ASSUME UNCHANGED <<cache, loaded>> PROVE \A l \in loaded' : Current(l)'
    BY <1>1, <1>3, CurrentStays
<1>4. CASE Acquires(t)
    BY <1>3, <1>4 DEF Acquires, LoadNotNeeded, LoadStarts, RefreshSkips, RefreshStarts
<1>5. CASE LoadSucceeds(t)
  <2>1. Target(t) \in {"active", "closed"}
      BY <1>5 DEF LoadSucceeds, LockInv, Target, NoHistory
  <2>2. CASE Target(t) = "active"
    <3>1. cache'["active"] = ListActive /\ cache'["closed"] = cache["closed"] /\ loaded' = loaded \cup {"active"}
        BY <1>5, <2>2 DEF LoadSucceeds, TypeOK, Lane
    <3> QED BY <1>1, <1>2, <3>1 DEF Current, InWindow, environment
  <2>3. CASE Target(t) = "closed"
    <3>1. cache'["closed"] = ListClosed /\ cache'["active"] = cache["active"] /\ loaded' = loaded \cup {"closed"}
        BY <1>5, <2>3 DEF LoadSucceeds, TypeOK, Lane
    <3>2. InWindow(cache["closed"])' = ListClosed
        BY <1>2, <3>1 DEF InWindow
    <3>3. ASSUME NEW l \in loaded', l = "active" PROVE Current(l)'
        BY <1>2, <3>1, <3>3 DEF Current
    <3> QED BY <1>2, <3>2, <3>3 DEF Current
  <2> QED BY <2>1, <2>2, <2>3
<1>6. CASE LoadFails(t) \/ ActiveListed(t) \/ RefreshFails(t) \/ RefreshFindsSame(t)
    BY <1>3, <1>6 DEF LoadFails, ActiveListed, RefreshFails, RefreshFindsSame
<1>7. CASE RefreshReplaces(t)
  <2>1. cache'["active"] = ListActive /\ cache'["closed"] = ListClosed
      BY <1>7 DEF RefreshReplaces, ReplaceLists, TypeOK, Lane
  <2>2. InWindow(cache["closed"])' = ListClosed
      BY <1>2, <2>1 DEF InWindow
  <2> QED BY <1>2, <2>1, <2>2 DEF Current
<1>8. CASE RefreshReplacesFirst(t) \/ RefreshHistory(t)
    BY <1>8 DEF RefreshReplacesFirst, RefreshHistory, LoadedInv, NoHistory, Lane
<1> QED BY <1>4, <1>5, <1>6, <1>7, <1>8 DEF Runs

(* A pass that ends leaves the lists current.                                 *)
LEMMA PassLeavesCurrent ==
    ASSUME NoListFails, WholeSignatures, IInv, NoHistory, GoalInv, CaughtInv, ~owed,
           Acquires(Watcher) \/ Runs(Watcher), pc'[Watcher] = "idle"
    PROVE  \A l \in loaded' : Current(l)'
<1> DEFINE t == Watcher
<1> USE PaneIsTask DEF IInv, snapshots
<1>1. UNCHANGED environment
    BY StoreStepKeepsWorld
<1>2. ListActive' = ListActive /\ ListClosed' = ListClosed /\ InWindow(ListClosed)' = ListClosed
    BY <1>1, WindowOfClosed DEF environment, InWindow, ListActive, ListClosed, Closed, Table
<1>3. goal[t] = "refresh"
    BY DEF GoalInv
<1>4. pc[t] = "listClosed" => freshActive = ListActive
    BY DEF CaughtInv, Caught
<1>5. ASSUME NEW S \in Readable, RefreshSkips(t, S) PROVE \A l \in loaded' : Current(l)'
  <2>1. BoardCurrent
      BY <1>5, SkipMeansCurrent DEF RefreshSkips
  <2>2. \A l \in loaded : Current(l)
      BY <2>1 DEF Current, BoardCurrent
  <2> QED BY <1>1, <1>5, <2>2, CurrentStays DEF RefreshSkips
<1>6. CASE LoadNotNeeded(t) \/ LoadStarts(t) \/ \E S \in Readable : RefreshStarts(t, S)
    BY <1>3, <1>6 DEF LoadNotNeeded, LoadStarts, RefreshStarts, TypeOK
<1>7. CASE LoadSucceeds(t) \/ LoadFails(t)
    BY <1>3, <1>7 DEF LoadSucceeds, LoadFails, LockInv
<1>8. CASE ActiveListed(t) \/ RefreshFails(t)
    BY <1>8 DEF ActiveListed, RefreshFails, NoListFails, TypeOK
<1>9. CASE RefreshFindsSame(t)
  <2>1. cache["active"] = ListActive /\ cache["closed"] = ListClosed
      BY <1>4, <1>9 DEF RefreshFindsSame, Unchanged
  <2>2. \A l \in loaded : Current(l)
      BY <2>1, WindowOfClosed DEF Current
  <2> QED BY <1>1, <1>9, <2>2, CurrentStays DEF RefreshFindsSame
<1>10. CASE RefreshReplaces(t)
  <2>1. cache'["active"] = ListActive /\ cache'["closed"] = ListClosed
      BY <1>4, <1>10 DEF RefreshReplaces, ReplaceLists, TypeOK, Lane
  <2>2. InWindow(cache["closed"])' = ListClosed
      BY <1>2, <2>1 DEF InWindow
  <2> QED BY <1>2, <2>1, <2>2 DEF Current
<1>11. CASE RefreshReplacesFirst(t) \/ RefreshHistory(t)
    BY <1>11 DEF RefreshReplacesFirst, RefreshHistory, LoadedInv, NoHistory, Lane
<1> QED BY <1>5, <1>6, <1>7, <1>8, <1>9, <1>10, <1>11 DEF Acquires, Runs

LEMMA CaughtInvStep ==
    ASSUME NoListFails, WholeSignatures, LiveIInv, GoalInv, CaughtInv, [LiveNext]_liveVars
    PROVE  CaughtInv'
<1> USE PaneIsTask
<1>1. ASSUME UNCHANGED <<environment, cache, loaded, freshActive, owed, pc>> PROVE CaughtInv'
    BY <1>1, CurrentStays, EnvironmentStays DEF CaughtInv, Caught
<1>2. ASSUME owed' = TRUE PROVE CaughtInv'
    BY <1>2 DEF CaughtInv, Caught
<1>3. ASSUME NEW t \in Task, NEW g, Call(t, g, All), t = Watcher \/ UNCHANGED owed PROVE CaughtInv'
  <2>1. UNCHANGED <<environment, cache, loaded, freshActive>> /\ pc'[t] = "wait"
      BY <1>3 DEF Call, snapshots, locals, LiveIInv, IInv, TypeOK
  <2>2. \A u \in Task : u # t => pc'[u] = pc[u]
      BY <1>3 DEF Call, LiveIInv, IInv, TypeOK
  <2> QED BY <1>3, <2>1, <2>2, CurrentStays, EnvironmentStays DEF CaughtInv, Caught
<1>4. CASE BdWrites
    BY <1>2, <1>4 DEF BdWrites
<1>5. CASE RouteBroadcasts \/ UNCHANGED liveVars \/ \E t \in Tab : TabNext(t)
    BY <1>1, <1>5 DEF RouteBroadcasts, TabNext, Connect, Bootstrap, Deliver, Disconnect,
       liveVars, vars, snapshots, locals
<1>6. CASE PassStarts
    BY <1>3, <1>6 DEF PassStarts, CallRefresh
<1>7. ASSUME NEW p \in Pane, Request(p) PROVE CaughtInv'
    BY <1>1, <1>3, <1>7, PaneCalls DEF Request, vars, snapshots, locals
<1>8. ASSUME NEW t \in Task, Acquires(t) \/ Runs(t), BdMayEcho(t) PROVE CaughtInv'
  <2>1. owed' = owed \/ owed' = TRUE
      BY <1>8 DEF BdMayEcho
  <2>2. UNCHANGED environment
      BY <1>8, StoreStepKeepsWorld
  <2>3. ASSUME ~owed', pc'[Watcher] = "idle" PROVE \A l \in loaded' : Current(l)'
    <3>1. CASE t = Watcher
        BY <1>8, <2>1, <2>3, <3>1, PassLeavesCurrent DEF LiveIInv
    <3>2. CASE t # Watcher
      <4>1. ~owed /\ pc[Watcher] = "idle"
          BY <1>8, <2>1, <2>3, <3>2, OnlyItself DEF LiveIInv, IInv
      <4> QED BY <1>8, <4>1, ListsStayCurrent DEF LiveIInv, CaughtInv, Caught
    <3> QED BY <3>1, <3>2
  <2>4. ASSUME NEW u \in Task, pc'[u] = "listClosed" PROVE freshActive' = ListActive'
      BY <1>8, <2>2, <2>4, ReadsAlone, EnvironmentStays DEF LiveIInv, ActiveListed
  <2> QED BY <2>3, <2>4 DEF CaughtInv
<1>9. CASE StoreStep
    BY <1>8, <1>9 DEF StoreStep, PaneStep, WatcherStep
<1> QED BY <1>4, <1>5, <1>6, <1>7, <1>9 DEF LiveNext

LEMMA RestInductiveInvariant ==
    ASSUME NoListFails, WholeSignatures
    PROVE  LiveSpec => []RestInv
<1>1. LiveInit => RestInv
  <2>1. LiveInit => GoalInv /\ CaughtInv
      BY PaneIsTask DEF LiveInit, Init, GoalInv, CaughtInv
  <2> QED BY <2>1, LiveInitIInv DEF RestInv
<1>2. RestInv /\ [LiveNext]_liveVars => RestInv'
    BY LiveStepIInv, GoalInvStep, CaughtInvStep DEF RestInv
<1> QED BY <1>1, <1>2, PTL DEF LiveSpec

(* The board at rest: no event is owed to the watcher and it is idle, no      *)
(* refresh went unannounced, and a pane is not about to fetch.  Then the pane *)
(* shows what bd would list.                                                  *)
QuietBoardIsCurrent ==
    ~owed /\ pc[Watcher] = "idle" /\ ~unannounced
        => \A p \in Pane : shown[p] = Truth(p) \/ Fetching(p)

(* No interleaving of writes, passes, first loads and events lets the board    *)
(* come to rest on anything but the truth: what BoardConverges says beyond     *)
(* this is that it comes to rest.                                             *)
THEOREM QuietBoardIsCurrentHolds ==
    ASSUME NoListFails, WholeSignatures
    PROVE  LiveSpec => []QuietBoardIsCurrent
<1>1. RestInv => QuietBoardIsCurrent
  <2> SUFFICES ASSUME RestInv, ~owed, pc[Watcher] = "idle", ~unannounced,
                      NEW p \in Pane, ~Fetching(p)
               PROVE  shown[p] = Truth(p)
      BY DEF QuietBoardIsCurrent
  <2>1. shown[p] = Answer(p) /\ Cached(p)
      BY DEF RestInv, LiveIInv, GoalInv, NoEventMissed, ServedInv, Fetching
  <2>2. \A l \in loaded : Current(l)
      BY DEF RestInv, CaughtInv
  <2>3. InWindow(cache["closed"]) = cache["closed"]
    <3>1. cache["closed"] \subseteq Row
        BY DEF RestInv, LiveIInv, IInv, TypeOK, Lane
    <3>2. \A r \in Row : today <= r[2].day + Window
        BY DEF RestInv, GoalInv, Row, Issue, Day
    <3> QED BY <3>1, <3>2 DEF InWindow
  <2>4. /\ "active" \in loaded => cache["active"] = ListActive
        /\ "closed" \in loaded => cache["closed"] = ListClosed
      BY <2>2, <2>3 DEF Current
  <2> QED BY <2>1, <2>4 DEF Answer, Truth, Cached
<1> QED BY <1>1, RestInductiveInvariant, PTL

==================================================================================
