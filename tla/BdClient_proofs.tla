---------------------------- MODULE BdClient_proofs ----------------------------
(***************************************************************************)
(* Proofs about BdClient, for any number of coroutines, keys and writes:    *)
(* the caches and the answers keep up with what the process was told, and   *)
(* every request that joined has a read to wait for.                        *)
(***************************************************************************)
EXTENDS BdClient, TLAPS

USE BdClientAssumption DEF BdClientAssumption, Key, Version, Maybe

(* The gate is held by the one task whose subprocess runs, and only a        *)
(* subprocess that runs holds output.                                        *)
GateInv ==
    /\ \A t \in Task : gate = t <=> pc[t] = "running"
    /\ \A t \in Task : got[t] # None => pc[t] = "running"
    /\ \A t \in Task : pc[t] = "joined" => kind[t] = "read"

(* What the process was told is in the database, and what a read finds at    *)
(* the gate is no older: nobody else is told anything meanwhile.             *)
KnownInv ==
    /\ \A k \in Key : listed[k] <= known[k] /\ known[k] <= db[k]
    /\ \A t \in Task : floor[t] <= known[key[t]]
    /\ \A t \in Task : pc[t] = "idle" => floor[t] = 0
    /\ \A t \in Task : got[t] # None =>
        \A k \in Key : got[t][k] <= db[k]
    /\ \A t \in Task : kind[t] # "mutate" /\ got[t] # None =>
        \A k \in Covered(t) : known[k] <= got[t][k]

Inv ==
    /\ ClientTypeOK
    /\ GateInv
    /\ JoinersHaveAnOwner
    /\ KnownInv
    /\ CacheKeepsUp
    /\ AnswersKeepUp

--------------------------------------------------------------------------------
(* Facts about the operators                                                *)

LEMMA MaxOfTwo ==
    ASSUME NEW a \in Nat, NEW b \in Nat
    PROVE  /\ Max({a, b}) \in {a, b}
           /\ a <= Max({a, b}) /\ b <= Max({a, b})
<1>1. PICK m \in {a, b} : \A y \in {a, b} : m >= y
    <2>1. CASE a <= b
        BY <2>1
    <2>2. CASE ~(a <= b)
        BY <2>2
    <2> QED BY <2>1, <2>2
<1>2. Max({a, b}) \in {a, b} /\ \A y \in {a, b} : Max({a, b}) >= y
    BY <1>1 DEF Max
<1> QED BY <1>2

LEMMA NoKeyIsKey == NoKey \in Key
BY DEF NoKey

LEMMA SeenType ==
    ASSUME NEW t \in Task, NEW versions \in [Key -> Version]
    PROVE  /\ Seen(t, versions) \in [Key -> Version]
           /\ \A k \in Key : Seen(t, versions)[k] <= versions[k]
           /\ \A k \in Covered(t) : k \in Key => Seen(t, versions)[k] = versions[k]
BY DEF Seen

LEMMA NewerKnown ==
    ASSUME NEW a \in Version, NEW b \in Version
    PROVE  /\ Max({a, b}) \in Version
           /\ Max({a, b}) \in {a, b}
           /\ a <= Max({a, b}) /\ b <= Max({a, b})
BY MaxOfTwo

--------------------------------------------------------------------------------
(* The invariant, part by part                                              *)

LEMMA TypeStep == ClientTypeOK /\ [ClientNext]_clientVars => ClientTypeOK'
<1> SUFFICES ASSUME ClientTypeOK, [ClientNext]_clientVars PROVE ClientTypeOK'
    OBVIOUS
<1>1. ASSUME NEW t \in Task, NEW k \in Key, ReadServed(t, k)
      PROVE  ClientTypeOK'
    BY <1>1 DEF ClientTypeOK, Pc, Kind, client, clientHistory, ReadServed,
       Requests
<1>2. ASSUME NEW t \in Task, NEW k \in Key, NEW fresh \in BOOLEAN,
             ReadJoins(t, k, fresh)
      PROVE  ClientTypeOK'
    BY <1>2 DEF ClientTypeOK, Pc, Kind, client, clientHistory, ReadJoins,
       Requests
<1>3. ASSUME NEW t \in Task, NEW k \in Key, NEW fresh \in BOOLEAN,
             ReadOwns(t, k, fresh)
      PROVE  ClientTypeOK'
    BY <1>3 DEF ClientTypeOK, Pc, Kind, client, clientHistory, ReadOwns,
       Requests
<1>4. ASSUME NEW t \in Task, NEW k \in Key, Mutate(t, k) PROVE ClientTypeOK'
    BY <1>4 DEF ClientTypeOK, Pc, Kind, client, clientHistory, Mutate
<1>5. ASSUME NEW t \in Task, List(t) PROVE ClientTypeOK'
    BY <1>5 DEF ClientTypeOK, Pc, Kind, client, clientHistory, List
<1>6. ASSUME NEW t \in Task, Returns(t) PROVE ClientTypeOK'
    BY <1>6, NoKeyIsKey DEF ClientTypeOK, Pc, Kind, client, clientHistory,
       Returns
<1>7. ASSUME NEW t \in Task, EntersGate(t) PROVE ClientTypeOK'
    BY <1>7 DEF ClientTypeOK, Pc, Kind, client, clientHistory, EntersGate
<1>8. ASSUME NEW t \in Task, LooksUp(t) PROVE ClientTypeOK'
  <2>1. Seen(t, db) \in [Key -> Version]
      BY SeenType DEF ClientTypeOK
  <2> QED BY <1>8, <2>1 DEF ClientTypeOK, LooksUp, clientHistory
<1>9. ASSUME NEW t \in Task, Commits(t) PROVE ClientTypeOK'
  <2>1. db' \in [Key -> Version]
      BY <1>9 DEF ClientTypeOK, Commits
  <2>2. Seen(t, db') \in [Key -> Version]
      BY <2>1, SeenType
  <2> QED BY <1>9, <2>1, <2>2 DEF ClientTypeOK, Commits, clientHistory
<1>10. ASSUME NEW t \in Task, ReadSucceeds(t) PROVE ClientTypeOK'
    BY <1>10 DEF ClientTypeOK, Pc, Kind, client, clientHistory,
       ReadSucceeds, ReadReturns, LeavesGate, Waiting
<1>11. ASSUME NEW t \in Task, ReadFails(t) PROVE ClientTypeOK'
    BY <1>11 DEF ClientTypeOK, Pc, Kind, client, clientHistory, ReadFails,
       ReadReturns, LeavesGate, Waiting
<1>12. ASSUME NEW t \in Task, MutateSucceeds(t) PROVE ClientTypeOK'
  <2>1. known' \in [Key -> Version]
    <3>1. key[t] \in Key /\ known[key[t]] \in Version /\ got[t][key[t]] \in Version
        BY <1>12 DEF ClientTypeOK, MutateSucceeds
    <3> DEFINE newest == Max({known[key[t]], got[t][key[t]]})
    <3>2. newest \in Version
        BY <3>1, NewerKnown
    <3>3. known' = [known EXCEPT ![key[t]] = newest]
        BY <1>12 DEF MutateSucceeds
    <3> QED BY <3>1, <3>2, <3>3 DEF ClientTypeOK
  <2>2. cached' \in [Key -> Version \cup {None, Failed}]
      BY <1>12 DEF ClientTypeOK, MutateSucceeds, Without
  <2> QED BY <1>12, <2>1, <2>2 DEF ClientTypeOK, MutateSucceeds, LeavesGate, Pc
<1>13. ASSUME NEW t \in Task, MutateFails(t) PROVE ClientTypeOK'
    BY <1>13 DEF ClientTypeOK, Pc, Kind, client, clientHistory, MutateFails,
       LeavesGate
<1>14. ASSUME NEW t \in Task, ListSucceeds(t) PROVE ClientTypeOK'
  <2>1. listed' \in [Key -> Version]
      BY <1>14 DEF ClientTypeOK, ListSucceeds
  <2>2. known' \in [Key -> Version]
    <3>1. ASSUME NEW k \in Key PROVE Max({known[k], listed'[k]}) \in Version
      <4>1. known[k] \in Version /\ listed'[k] \in Version
          BY <2>1 DEF ClientTypeOK
      <4> QED BY <4>1, NewerKnown
    <3>2. known' = [k \in Key |-> Max({known[k], listed'[k]})]
        BY <1>14 DEF ListSucceeds
    <3> QED BY <3>1, <3>2
  <2>3. cached' \in [Key -> Version \cup {None, Failed}]
      BY <1>14 DEF ClientTypeOK, ListSucceeds, Without
  <2> QED BY <1>14, <2>1, <2>2, <2>3 DEF ClientTypeOK, ListSucceeds, LeavesGate, Pc
<1>15. ASSUME NEW t \in Task, ListFails(t) PROVE ClientTypeOK'
    BY <1>15 DEF ClientTypeOK, Pc, Kind, client, clientHistory, ListFails,
       LeavesGate
<1>16. ASSUME NEW k \in Key, AgentWrites(k) PROVE ClientTypeOK'
    BY <1>16 DEF ClientTypeOK, Pc, Kind, client, clientHistory, AgentWrites
<1>17. ASSUME NEW k \in Key, Expires(k) PROVE ClientTypeOK'
    BY <1>17 DEF ClientTypeOK, Pc, Kind, client, clientHistory, Expires
<1>18. CASE UNCHANGED clientVars
    BY <1>18 DEF ClientTypeOK, Pc, Kind, client, clientHistory, clientVars
<1>19. ASSUME NEW t \in Task, NEW k \in Key, NEW fresh \in BOOLEAN,
             Read(t, k, fresh)
      PROVE  ClientTypeOK'
    BY <1>1, <1>2, <1>3, <1>19 DEF Read
<1>20. ASSUME NEW t \in Task, ReadsBack(t) PROVE ClientTypeOK'
    BY <1>19, <1>20 DEF ReadsBack, ClientTypeOK
<1>21. ASSUME NEW t \in Task, Fetch(t) PROVE ClientTypeOK'
    BY <1>21 DEF ClientTypeOK, Pc, Kind, client, clientHistory, Fetch
<1>22. ASSUME NEW t \in Task, FetchEnds(t) PROVE ClientTypeOK'
    BY <1>22 DEF ClientTypeOK, Pc, Kind, client, clientHistory, FetchEnds,
       LeavesGate
<1> QED
    BY <1>4, <1>5, <1>6, <1>7, <1>8, <1>9, <1>10, <1>11, <1>12, <1>13,
       <1>14, <1>15, <1>16, <1>17, <1>18, <1>19, <1>20, <1>21, <1>22
    DEF ClientNext, ClientStep, SubprocessEnds

LEMMA GateStep == ClientTypeOK /\ GateInv /\ [ClientNext]_clientVars => GateInv'
<1> SUFFICES ASSUME ClientTypeOK, GateInv, [ClientNext]_clientVars PROVE GateInv'
    OBVIOUS
<1>1. ASSUME NEW t \in Task, NEW k \in Key, ReadServed(t, k) PROVE GateInv'
    BY <1>1 DEF ClientTypeOK, GateInv, client, clientHistory, ReadServed,
       Requests
<1>2. ASSUME NEW t \in Task, NEW k \in Key, NEW fresh \in BOOLEAN,
             ReadJoins(t, k, fresh)
      PROVE  GateInv'
    BY <1>2 DEF ClientTypeOK, GateInv, client, clientHistory, ReadJoins,
       Requests
<1>3. ASSUME NEW t \in Task, NEW k \in Key, NEW fresh \in BOOLEAN,
             ReadOwns(t, k, fresh)
      PROVE  GateInv'
    BY <1>3 DEF ClientTypeOK, GateInv, client, clientHistory, ReadOwns,
       Requests
<1>4. ASSUME NEW t \in Task, NEW k \in Key, Mutate(t, k) PROVE GateInv'
    BY <1>4 DEF ClientTypeOK, GateInv, client, clientHistory, Mutate
<1>5. ASSUME NEW t \in Task, List(t) PROVE GateInv'
    BY <1>5 DEF ClientTypeOK, GateInv, client, clientHistory, List
<1>6. ASSUME NEW t \in Task, Returns(t) PROVE GateInv'
    BY <1>6 DEF ClientTypeOK, GateInv, client, clientHistory, Returns
<1>7. ASSUME NEW t \in Task, EntersGate(t) PROVE GateInv'
    BY <1>7 DEF ClientTypeOK, GateInv, client, clientHistory, EntersGate
<1>8. ASSUME NEW t \in Task, LooksUp(t) PROVE GateInv'
    BY <1>8 DEF ClientTypeOK, GateInv, client, clientHistory, LooksUp
<1>9. ASSUME NEW t \in Task, Commits(t) PROVE GateInv'
    BY <1>9 DEF ClientTypeOK, GateInv, client, clientHistory, Commits
<1>10. ASSUME NEW t \in Task, ReadSucceeds(t) PROVE GateInv'
    BY <1>10 DEF ClientTypeOK, GateInv, client, clientHistory, ReadSucceeds,
       ReadReturns, LeavesGate, Waiting
<1>11. ASSUME NEW t \in Task, ReadFails(t) PROVE GateInv'
    BY <1>11 DEF ClientTypeOK, GateInv, client, clientHistory, ReadFails,
       ReadReturns, LeavesGate, Waiting
<1>12. ASSUME NEW t \in Task, MutateSucceeds(t) PROVE GateInv'
    BY <1>12 DEF ClientTypeOK, GateInv, client, clientHistory,
       MutateSucceeds, LeavesGate, Without, Dropped
<1>13. ASSUME NEW t \in Task, MutateFails(t) PROVE GateInv'
    BY <1>13 DEF ClientTypeOK, GateInv, client, clientHistory, MutateFails,
       LeavesGate
<1>14. ASSUME NEW t \in Task, ListSucceeds(t) PROVE GateInv'
    BY <1>14 DEF ClientTypeOK, GateInv, client, clientHistory, ListSucceeds,
       LeavesGate, Without
<1>15. ASSUME NEW t \in Task, ListFails(t) PROVE GateInv'
    BY <1>15 DEF ClientTypeOK, GateInv, client, clientHistory, ListFails,
       LeavesGate
<1>16. ASSUME NEW k \in Key, AgentWrites(k) PROVE GateInv'
    BY <1>16 DEF ClientTypeOK, GateInv, client, clientHistory, AgentWrites
<1>17. ASSUME NEW k \in Key, Expires(k) PROVE GateInv'
    BY <1>17 DEF ClientTypeOK, GateInv, client, clientHistory, Expires
<1>18. CASE UNCHANGED clientVars
    BY <1>18 DEF ClientTypeOK, GateInv, client, clientHistory, clientVars
<1>19. ASSUME NEW t \in Task, NEW k \in Key, NEW fresh \in BOOLEAN,
             Read(t, k, fresh)
      PROVE  GateInv'
    BY <1>1, <1>2, <1>3, <1>19 DEF Read
<1>20. ASSUME NEW t \in Task, ReadsBack(t) PROVE GateInv'
    BY <1>19, <1>20 DEF ReadsBack, ClientTypeOK
<1>21. ASSUME NEW t \in Task, Fetch(t) PROVE GateInv'
    BY <1>21 DEF ClientTypeOK, GateInv, client, clientHistory, Fetch
<1>22. ASSUME NEW t \in Task, FetchEnds(t) PROVE GateInv'
    BY <1>22 DEF ClientTypeOK, GateInv, client, clientHistory, FetchEnds,
       LeavesGate
<1> QED
    BY <1>4, <1>5, <1>6, <1>7, <1>8, <1>9, <1>10, <1>11, <1>12, <1>13,
       <1>14, <1>15, <1>16, <1>17, <1>18, <1>19, <1>20, <1>21, <1>22
    DEF ClientNext, ClientStep, SubprocessEnds

LEMMA OwnerStep ==
    ClientTypeOK /\ GateInv /\ JoinersHaveAnOwner /\ [ClientNext]_clientVars
    => JoinersHaveAnOwner'
<1> SUFFICES ASSUME ClientTypeOK, GateInv, JoinersHaveAnOwner,
                    [ClientNext]_clientVars
             PROVE JoinersHaveAnOwner'
    OBVIOUS
<1>1. ASSUME NEW t \in Task, NEW k \in Key, ReadServed(t, k)
      PROVE  JoinersHaveAnOwner'
    BY <1>1 DEF ClientTypeOK, GateInv, JoinersHaveAnOwner, client,
       clientHistory, ReadServed, Requests
<1>2. ASSUME NEW t \in Task, NEW k \in Key, NEW fresh \in BOOLEAN,
             ReadJoins(t, k, fresh)
      PROVE  JoinersHaveAnOwner'
    BY <1>2 DEF ClientTypeOK, GateInv, JoinersHaveAnOwner, client,
       clientHistory, ReadJoins, Requests
<1>3. ASSUME NEW t \in Task, NEW k \in Key, NEW fresh \in BOOLEAN,
             ReadOwns(t, k, fresh)
      PROVE  JoinersHaveAnOwner'
    BY <1>3 DEF ClientTypeOK, GateInv, JoinersHaveAnOwner, client,
       clientHistory, ReadOwns, Requests
<1>4. ASSUME NEW t \in Task, NEW k \in Key, Mutate(t, k)
      PROVE  JoinersHaveAnOwner'
    BY <1>4 DEF ClientTypeOK, GateInv, JoinersHaveAnOwner, client,
       clientHistory, Mutate
<1>5. ASSUME NEW t \in Task, List(t) PROVE JoinersHaveAnOwner'
    BY <1>5 DEF ClientTypeOK, GateInv, JoinersHaveAnOwner, client,
       clientHistory, List
<1>6. ASSUME NEW t \in Task, Returns(t) PROVE JoinersHaveAnOwner'
    BY <1>6 DEF ClientTypeOK, GateInv, JoinersHaveAnOwner, client,
       clientHistory, Returns
<1>7. ASSUME NEW t \in Task, EntersGate(t) PROVE JoinersHaveAnOwner'
    BY <1>7 DEF ClientTypeOK, GateInv, JoinersHaveAnOwner, client,
       clientHistory, EntersGate
<1>8. ASSUME NEW t \in Task, LooksUp(t) PROVE JoinersHaveAnOwner'
    BY <1>8 DEF ClientTypeOK, GateInv, JoinersHaveAnOwner, client,
       clientHistory, LooksUp
<1>9. ASSUME NEW t \in Task, Commits(t) PROVE JoinersHaveAnOwner'
    BY <1>9 DEF ClientTypeOK, GateInv, JoinersHaveAnOwner, client,
       clientHistory, Commits
<1>10. ASSUME NEW t \in Task, ReadSucceeds(t) PROVE JoinersHaveAnOwner'
    BY <1>10 DEF ClientTypeOK, GateInv, JoinersHaveAnOwner, client,
       clientHistory, ReadSucceeds, ReadReturns, LeavesGate, Waiting
<1>11. ASSUME NEW t \in Task, ReadFails(t) PROVE JoinersHaveAnOwner'
    BY <1>11 DEF ClientTypeOK, GateInv, JoinersHaveAnOwner, client,
       clientHistory, ReadFails, ReadReturns, LeavesGate, Waiting
<1>12. ASSUME NEW t \in Task, MutateSucceeds(t) PROVE JoinersHaveAnOwner'
    BY <1>12 DEF ClientTypeOK, GateInv, JoinersHaveAnOwner, client,
       clientHistory, MutateSucceeds, LeavesGate, Without, Dropped
<1>13. ASSUME NEW t \in Task, MutateFails(t) PROVE JoinersHaveAnOwner'
    BY <1>13 DEF ClientTypeOK, GateInv, JoinersHaveAnOwner, client,
       clientHistory, MutateFails, LeavesGate
<1>14. ASSUME NEW t \in Task, ListSucceeds(t) PROVE JoinersHaveAnOwner'
    BY <1>14 DEF ClientTypeOK, GateInv, JoinersHaveAnOwner, client,
       clientHistory, ListSucceeds, LeavesGate, Without
<1>15. ASSUME NEW t \in Task, ListFails(t) PROVE JoinersHaveAnOwner'
    BY <1>15 DEF ClientTypeOK, GateInv, JoinersHaveAnOwner, client,
       clientHistory, ListFails, LeavesGate
<1>16. ASSUME NEW k \in Key, AgentWrites(k) PROVE JoinersHaveAnOwner'
    BY <1>16 DEF ClientTypeOK, GateInv, JoinersHaveAnOwner, client,
       clientHistory, AgentWrites
<1>17. ASSUME NEW k \in Key, Expires(k) PROVE JoinersHaveAnOwner'
    BY <1>17 DEF ClientTypeOK, GateInv, JoinersHaveAnOwner, client,
       clientHistory, Expires
<1>18. CASE UNCHANGED clientVars
    BY <1>18 DEF ClientTypeOK, GateInv, JoinersHaveAnOwner, client,
       clientHistory, clientVars
<1>19. ASSUME NEW t \in Task, NEW k \in Key, NEW fresh \in BOOLEAN,
             Read(t, k, fresh)
      PROVE  JoinersHaveAnOwner'
    BY <1>1, <1>2, <1>3, <1>19 DEF Read
<1>20. ASSUME NEW t \in Task, ReadsBack(t) PROVE JoinersHaveAnOwner'
    BY <1>19, <1>20 DEF ReadsBack, ClientTypeOK
<1>21. ASSUME NEW t \in Task, Fetch(t) PROVE JoinersHaveAnOwner'
    BY <1>21 DEF ClientTypeOK, GateInv, JoinersHaveAnOwner, client,
       clientHistory, Fetch
<1>22. ASSUME NEW t \in Task, FetchEnds(t) PROVE JoinersHaveAnOwner'
    BY <1>22 DEF ClientTypeOK, GateInv, JoinersHaveAnOwner, client,
       clientHistory, FetchEnds, LeavesGate
<1> QED
    BY <1>4, <1>5, <1>6, <1>7, <1>8, <1>9, <1>10, <1>11, <1>12, <1>13,
       <1>14, <1>15, <1>16, <1>17, <1>18, <1>19, <1>20, <1>21, <1>22
    DEF ClientNext, ClientStep, SubprocessEnds

LEMMA KnownStep ==
    ClientTypeOK /\ GateInv /\ KnownInv /\ [ClientNext]_clientVars
    => KnownInv'
<1> SUFFICES ASSUME ClientTypeOK, GateInv, KnownInv, [ClientNext]_clientVars
             PROVE KnownInv'
    OBVIOUS
<1>1. ASSUME NEW t \in Task, NEW k \in Key, ReadServed(t, k) PROVE KnownInv'
    BY <1>1 DEF ClientTypeOK, GateInv, KnownInv, Covered, client,
       clientHistory, ReadServed, Requests
<1>2. ASSUME NEW t \in Task, NEW k \in Key, NEW fresh \in BOOLEAN,
             ReadJoins(t, k, fresh)
      PROVE  KnownInv'
    BY <1>2 DEF ClientTypeOK, GateInv, KnownInv, Covered, client,
       clientHistory, ReadJoins, Requests
<1>3. ASSUME NEW t \in Task, NEW k \in Key, NEW fresh \in BOOLEAN,
             ReadOwns(t, k, fresh)
      PROVE  KnownInv'
    BY <1>3 DEF ClientTypeOK, GateInv, KnownInv, Covered, client,
       clientHistory, ReadOwns, Requests
<1>4. ASSUME NEW t \in Task, NEW k \in Key, Mutate(t, k) PROVE KnownInv'
    BY <1>4 DEF ClientTypeOK, GateInv, KnownInv, Covered, client,
       clientHistory, Mutate
<1>5. ASSUME NEW t \in Task, List(t) PROVE KnownInv'
    BY <1>5 DEF ClientTypeOK, GateInv, KnownInv, Covered, client,
       clientHistory, List
<1>6. ASSUME NEW t \in Task, Returns(t) PROVE KnownInv'
  <2>1. /\ db' = db /\ listed' = listed /\ known' = known /\ got' = got
        /\ floor' = [floor EXCEPT ![t] = 0]
        /\ key' = [key EXCEPT ![t] = NoKey]
        /\ pc' = [pc EXCEPT ![t] = "idle"]
        /\ kind' = [kind EXCEPT ![t] = "read"]
        /\ got[t] = None
      BY <1>6 DEF ClientTypeOK, GateInv, Returns
  <2>2. 0 <= known[NoKey]
      BY NoKeyIsKey DEF ClientTypeOK
  <2> QED BY <2>1, <2>2, NoKeyIsKey DEF ClientTypeOK, KnownInv, Covered
<1>7. ASSUME NEW t \in Task, EntersGate(t) PROVE KnownInv'
    BY <1>7 DEF ClientTypeOK, GateInv, KnownInv, Covered, client,
       clientHistory, EntersGate
<1>8. ASSUME NEW t \in Task, LooksUp(t) PROVE KnownInv'
  <2>1. /\ \A k \in Key : Seen(t, db)[k] <= db[k]
        /\ \A k \in Covered(t) : k \in Key => Seen(t, db)[k] = db[k]
      BY SeenType DEF ClientTypeOK
  <2>4. got'[t] = Seen(t, db)
      BY <1>8 DEF ClientTypeOK, LooksUp
  <2>2. \A k \in Covered(t) : k \in Key
      BY DEF Covered, ClientTypeOK
  <2>3. \A u \in Task : u # t => got'[u] = got[u]
      BY <1>8 DEF ClientTypeOK, LooksUp
  <2> QED BY <1>8, <2>1, <2>2, <2>3, <2>4
         DEF ClientTypeOK, KnownInv, LooksUp, Covered, clientHistory
<1>9. ASSUME NEW t \in Task, Commits(t) PROVE KnownInv'
  <2>1. db' \in [Key -> Version] /\ \A k \in Key : db[k] <= db'[k]
      BY <1>9 DEF ClientTypeOK, Commits
  <2>2. got'[t] = Seen(t, db') /\ \A k \in Key : got'[t][k] <= db'[k]
      BY <1>9, <2>1, SeenType DEF ClientTypeOK, Commits
  <2>3. \A u \in Task : u # t => got'[u] = got[u] /\ got[u] = None
      BY <1>9 DEF ClientTypeOK, GateInv, Commits
  <2>4. known' = known /\ listed' = listed /\ floor' = floor /\ key' = key /\ pc' = pc
      BY <1>9 DEF Commits, clientHistory
  <2>5. \A k \in Key : known[k] <= db'[k]
      BY <2>1 DEF ClientTypeOK, KnownInv
  <2>6. kind' = kind /\ kind[t] = "mutate"
      BY <1>9 DEF Commits
  <2> QED BY <2>2, <2>3, <2>4, <2>5, <2>6 DEF KnownInv
<1>10. ASSUME NEW t \in Task, ReadSucceeds(t) PROVE KnownInv'
    BY <1>10 DEF ClientTypeOK, GateInv, KnownInv, Covered, client,
       clientHistory, ReadSucceeds, ReadReturns, LeavesGate, Waiting
<1>11. ASSUME NEW t \in Task, ReadFails(t) PROVE KnownInv'
    BY <1>11 DEF ClientTypeOK, GateInv, KnownInv, Covered, client,
       clientHistory, ReadFails, ReadReturns, LeavesGate, Waiting
<1>12. ASSUME NEW t \in Task, MutateSucceeds(t) PROVE KnownInv'
  <2>1. got[t] \in [Key -> Version] /\ key[t] \in Key
      BY <1>12 DEF ClientTypeOK, MutateSucceeds
  <2>2. ASSUME NEW k \in Key PROVE known[k] <= known'[k] /\ known'[k] <= db[k]
    <3>1. /\ known[k] \in Version /\ got[t][k] \in Version /\ db[k] \in Version
          /\ known[k] <= db[k] /\ got[t][k] <= db[k]
        BY <1>12, <2>1 DEF ClientTypeOK, KnownInv, MutateSucceeds
    <3> DEFINE newest == Max({known[k], got[t][k]})
    <3>2. /\ newest \in {known[k], got[t][k]} /\ known[k] <= newest
        BY <3>1, NewerKnown
    <3>3. known'[k] = IF k = key[t] THEN newest ELSE known[k]
        BY <1>12 DEF ClientTypeOK, MutateSucceeds
    <3> QED BY <3>1, <3>2, <3>3
  <2>3. \A u \in Task : got'[u] = None
      BY <1>12 DEF ClientTypeOK, GateInv, MutateSucceeds, LeavesGate
  <2>4. known' \in [Key -> Version]
      BY <1>12, TypeStep DEF ClientNext, ClientStep, SubprocessEnds, ClientTypeOK
  <2>5. /\ db' = db /\ listed' = listed /\ floor' = floor /\ key' = key
        /\ pc' = [pc EXCEPT ![t] = "saved"]
      BY <1>12 DEF MutateSucceeds
  <2> QED BY <2>2, <2>3, <2>4, <2>5 DEF ClientTypeOK, KnownInv
<1>13. ASSUME NEW t \in Task, MutateFails(t) PROVE KnownInv'
    BY <1>13 DEF ClientTypeOK, GateInv, KnownInv, Covered, client,
       clientHistory, MutateFails, LeavesGate
<1>14. ASSUME NEW t \in Task, ListSucceeds(t) PROVE KnownInv'
  <2>1. /\ got[t] \in [Key -> Version] /\ listed' \in [Key -> Version]
        /\ \A k \in Key : listed'[k] <= db[k]
      BY <1>14 DEF ClientTypeOK, KnownInv, ListSucceeds
  <2>2. \A k \in Key : known'[k] = Max({known[k], listed'[k]})
      BY <1>14 DEF ListSucceeds
  <2>3. ASSUME NEW k \in Key
        PROVE  /\ known'[k] \in Version
               /\ known[k] <= known'[k] /\ listed'[k] <= known'[k]
               /\ known'[k] <= db[k]
    <3>1. /\ known[k] \in Version /\ listed'[k] \in Version /\ db[k] \in Version
          /\ known[k] <= db[k] /\ listed'[k] <= db[k]
        BY <2>1 DEF ClientTypeOK, KnownInv
    <3> DEFINE newest == Max({known[k], listed'[k]})
    <3>2. /\ newest \in {known[k], listed'[k]}
          /\ known[k] <= newest /\ listed'[k] <= newest
        BY <3>1, NewerKnown
    <3>3. known'[k] = newest
        BY <2>2
    <3> QED BY <3>1, <3>2, <3>3
  <2>4. \A u \in Task : got'[u] = None
      BY <1>14 DEF ClientTypeOK, GateInv, ListSucceeds, LeavesGate
  <2>5. /\ db' = db /\ floor' = floor /\ key' = key
        /\ pc' = [pc EXCEPT ![t] = "saved"]
      BY <1>14 DEF ListSucceeds
  <2> QED BY <2>3, <2>4, <2>5 DEF ClientTypeOK, KnownInv
<1>15. ASSUME NEW t \in Task, ListFails(t) PROVE KnownInv'
    BY <1>15 DEF ClientTypeOK, GateInv, KnownInv, Covered, client,
       clientHistory, ListFails, LeavesGate
<1>16. ASSUME NEW k \in Key, AgentWrites(k) PROVE KnownInv'
    BY <1>16 DEF ClientTypeOK, GateInv, KnownInv, Covered, client,
       clientHistory, AgentWrites
<1>17. ASSUME NEW k \in Key, Expires(k) PROVE KnownInv'
    BY <1>17 DEF ClientTypeOK, GateInv, KnownInv, Covered, client,
       clientHistory, Expires
<1>18. CASE UNCHANGED clientVars
    BY <1>18 DEF ClientTypeOK, GateInv, KnownInv, Covered, client,
       clientHistory, clientVars
<1>19. ASSUME NEW t \in Task, NEW k \in Key, NEW fresh \in BOOLEAN,
             Read(t, k, fresh)
      PROVE  KnownInv'
    BY <1>1, <1>2, <1>3, <1>19 DEF Read
<1>20. ASSUME NEW t \in Task, ReadsBack(t) PROVE KnownInv'
    BY <1>19, <1>20 DEF ReadsBack, ClientTypeOK
<1>21. ASSUME NEW t \in Task, Fetch(t) PROVE KnownInv'
    BY <1>21 DEF ClientTypeOK, GateInv, KnownInv, Covered, client,
       clientHistory, Fetch
<1>22. ASSUME NEW t \in Task, FetchEnds(t) PROVE KnownInv'
    BY <1>22 DEF ClientTypeOK, GateInv, KnownInv, Covered, client,
       clientHistory, FetchEnds, LeavesGate
<1> QED
    BY <1>4, <1>5, <1>6, <1>7, <1>8, <1>9, <1>10, <1>11, <1>12, <1>13,
       <1>14, <1>15, <1>16, <1>17, <1>18, <1>19, <1>20, <1>21, <1>22
    DEF ClientNext, ClientStep, SubprocessEnds

LEMMA CacheStep ==
    ClientTypeOK /\ GateInv /\ KnownInv /\ CacheKeepsUp /\
    [ClientNext]_clientVars
    => CacheKeepsUp'
<1> SUFFICES ASSUME ClientTypeOK, GateInv, KnownInv, CacheKeepsUp,
                    [ClientNext]_clientVars
             PROVE CacheKeepsUp'
    OBVIOUS
<1>1. ASSUME NEW t \in Task, NEW k \in Key, ReadServed(t, k)
      PROVE  CacheKeepsUp'
    BY <1>1 DEF ClientTypeOK, GateInv, KnownInv, Covered, CacheKeepsUp,
       client, clientHistory, ReadServed, Requests
<1>2. ASSUME NEW t \in Task, NEW k \in Key, NEW fresh \in BOOLEAN,
             ReadJoins(t, k, fresh)
      PROVE  CacheKeepsUp'
    BY <1>2 DEF ClientTypeOK, GateInv, KnownInv, Covered, CacheKeepsUp,
       client, clientHistory, ReadJoins, Requests
<1>3. ASSUME NEW t \in Task, NEW k \in Key, NEW fresh \in BOOLEAN,
             ReadOwns(t, k, fresh)
      PROVE  CacheKeepsUp'
    BY <1>3 DEF ClientTypeOK, GateInv, KnownInv, Covered, CacheKeepsUp,
       client, clientHistory, ReadOwns, Requests
<1>4. ASSUME NEW t \in Task, NEW k \in Key, Mutate(t, k) PROVE CacheKeepsUp'
    BY <1>4 DEF ClientTypeOK, GateInv, KnownInv, Covered, CacheKeepsUp,
       client, clientHistory, Mutate
<1>5. ASSUME NEW t \in Task, List(t) PROVE CacheKeepsUp'
    BY <1>5 DEF ClientTypeOK, GateInv, KnownInv, Covered, CacheKeepsUp,
       client, clientHistory, List
<1>6. ASSUME NEW t \in Task, Returns(t) PROVE CacheKeepsUp'
    BY <1>6 DEF ClientTypeOK, GateInv, KnownInv, Covered, CacheKeepsUp,
       client, clientHistory, Returns
<1>7. ASSUME NEW t \in Task, EntersGate(t) PROVE CacheKeepsUp'
    BY <1>7 DEF ClientTypeOK, GateInv, KnownInv, Covered, CacheKeepsUp,
       client, clientHistory, EntersGate
<1>8. ASSUME NEW t \in Task, LooksUp(t) PROVE CacheKeepsUp'
    BY <1>8 DEF ClientTypeOK, GateInv, KnownInv, Covered, CacheKeepsUp,
       client, clientHistory, LooksUp
<1>9. ASSUME NEW t \in Task, Commits(t) PROVE CacheKeepsUp'
    BY <1>9 DEF ClientTypeOK, GateInv, KnownInv, Covered, CacheKeepsUp,
       client, clientHistory, Commits
<1>10. ASSUME NEW t \in Task, ReadSucceeds(t) PROVE CacheKeepsUp'
    BY <1>10 DEF ClientTypeOK, GateInv, KnownInv, Covered, CacheKeepsUp,
       client, clientHistory, ReadSucceeds, ReadReturns, LeavesGate, Waiting
<1>11. ASSUME NEW t \in Task, ReadFails(t) PROVE CacheKeepsUp'
    BY <1>11 DEF ClientTypeOK, GateInv, KnownInv, Covered, CacheKeepsUp,
       client, clientHistory, ReadFails, ReadReturns, LeavesGate, Waiting
<1>12. ASSUME NEW t \in Task, MutateSucceeds(t) PROVE CacheKeepsUp'
    BY <1>12 DEF ClientTypeOK, CacheKeepsUp, MutateSucceeds, Without,
       Dropped
<1>13. ASSUME NEW t \in Task, MutateFails(t) PROVE CacheKeepsUp'
    BY <1>13 DEF ClientTypeOK, GateInv, KnownInv, Covered, CacheKeepsUp,
       client, clientHistory, MutateFails, LeavesGate
<1>14. ASSUME NEW t \in Task, ListSucceeds(t) PROVE CacheKeepsUp'
  <2>1. CASE \E k \in Detail : listed[k] # got[t][k]
    BY <1>14, <2>1 DEF CacheKeepsUp, ListSucceeds, Without
  <2>2. CASE ~ \E k \in Detail : listed[k] # got[t][k]
    <3>1. listed' = listed /\ cached' = cached
        BY <1>14, <2>2 DEF ClientTypeOK, ListSucceeds
    <3>2. \A k \in Key : known'[k] = Max({known[k], listed[k]})
        BY <1>14, <3>1 DEF ListSucceeds
    <3>3. ASSUME NEW k \in Key PROVE known'[k] = known[k]
      <4>1. known[k] \in Version /\ listed[k] \in Version /\ listed[k] <= known[k]
          BY DEF ClientTypeOK, KnownInv
      <4>2. Max({known[k], listed[k]}) = known[k]
          BY <4>1, NewerKnown
      <4> QED BY <3>2, <4>2
    <3> QED BY <3>1, <3>3 DEF CacheKeepsUp
  <2> QED BY <2>1, <2>2
<1>15. ASSUME NEW t \in Task, ListFails(t) PROVE CacheKeepsUp'
    BY <1>15 DEF ClientTypeOK, GateInv, KnownInv, Covered, CacheKeepsUp,
       client, clientHistory, ListFails, LeavesGate
<1>16. ASSUME NEW k \in Key, AgentWrites(k) PROVE CacheKeepsUp'
    BY <1>16 DEF ClientTypeOK, GateInv, KnownInv, Covered, CacheKeepsUp,
       client, clientHistory, AgentWrites
<1>17. ASSUME NEW k \in Key, Expires(k) PROVE CacheKeepsUp'
    BY <1>17 DEF ClientTypeOK, GateInv, KnownInv, Covered, CacheKeepsUp,
       client, clientHistory, Expires
<1>18. CASE UNCHANGED clientVars
    BY <1>18 DEF ClientTypeOK, GateInv, KnownInv, Covered, CacheKeepsUp,
       client, clientHistory, clientVars
<1>19. ASSUME NEW t \in Task, NEW k \in Key, NEW fresh \in BOOLEAN,
             Read(t, k, fresh)
      PROVE  CacheKeepsUp'
    BY <1>1, <1>2, <1>3, <1>19 DEF Read
<1>20. ASSUME NEW t \in Task, ReadsBack(t) PROVE CacheKeepsUp'
    BY <1>19, <1>20 DEF ReadsBack, ClientTypeOK
<1>21. ASSUME NEW t \in Task, Fetch(t) PROVE CacheKeepsUp'
    BY <1>21 DEF ClientTypeOK, GateInv, KnownInv, Covered, CacheKeepsUp,
       client, clientHistory, Fetch
<1>22. ASSUME NEW t \in Task, FetchEnds(t) PROVE CacheKeepsUp'
    BY <1>22 DEF ClientTypeOK, GateInv, KnownInv, Covered, CacheKeepsUp,
       client, clientHistory, FetchEnds, LeavesGate
<1> QED
    BY <1>4, <1>5, <1>6, <1>7, <1>8, <1>9, <1>10, <1>11, <1>12, <1>13,
       <1>14, <1>15, <1>16, <1>17, <1>18, <1>19, <1>20, <1>21, <1>22
    DEF ClientNext, ClientStep, SubprocessEnds

LEMMA AnswersStep ==
    ClientTypeOK /\ GateInv /\ KnownInv /\ CacheKeepsUp /\ AnswersKeepUp /\
    [ClientNext]_clientVars
    => AnswersKeepUp'
<1> SUFFICES ASSUME ClientTypeOK, GateInv, KnownInv, CacheKeepsUp,
                    AnswersKeepUp, [ClientNext]_clientVars
             PROVE AnswersKeepUp'
    OBVIOUS
<1>1. ASSUME NEW t \in Task, NEW k \in Key, ReadServed(t, k)
      PROVE  AnswersKeepUp'
    BY <1>1 DEF ClientTypeOK, GateInv, KnownInv, Covered, CacheKeepsUp,
       AnswersKeepUp, client, clientHistory, ReadServed, Requests
<1>2. ASSUME NEW t \in Task, NEW k \in Key, NEW fresh \in BOOLEAN,
             ReadJoins(t, k, fresh)
      PROVE  AnswersKeepUp'
    BY <1>2 DEF ClientTypeOK, GateInv, KnownInv, Covered, CacheKeepsUp,
       AnswersKeepUp, client, clientHistory, ReadJoins, Requests
<1>3. ASSUME NEW t \in Task, NEW k \in Key, NEW fresh \in BOOLEAN,
             ReadOwns(t, k, fresh)
      PROVE  AnswersKeepUp'
    BY <1>3 DEF ClientTypeOK, GateInv, KnownInv, Covered, CacheKeepsUp,
       AnswersKeepUp, client, clientHistory, ReadOwns, Requests
<1>4. ASSUME NEW t \in Task, NEW k \in Key, Mutate(t, k) PROVE AnswersKeepUp'
    BY <1>4 DEF ClientTypeOK, GateInv, KnownInv, Covered, CacheKeepsUp,
       AnswersKeepUp, client, clientHistory, Mutate
<1>5. ASSUME NEW t \in Task, List(t) PROVE AnswersKeepUp'
    BY <1>5 DEF ClientTypeOK, GateInv, KnownInv, Covered, CacheKeepsUp,
       AnswersKeepUp, client, clientHistory, List
<1>6. ASSUME NEW t \in Task, Returns(t) PROVE AnswersKeepUp'
    BY <1>6 DEF ClientTypeOK, GateInv, KnownInv, Covered, CacheKeepsUp,
       AnswersKeepUp, client, clientHistory, Returns
<1>7. ASSUME NEW t \in Task, EntersGate(t) PROVE AnswersKeepUp'
    BY <1>7 DEF ClientTypeOK, GateInv, KnownInv, Covered, CacheKeepsUp,
       AnswersKeepUp, client, clientHistory, EntersGate
<1>8. ASSUME NEW t \in Task, LooksUp(t) PROVE AnswersKeepUp'
    BY <1>8 DEF ClientTypeOK, GateInv, KnownInv, Covered, CacheKeepsUp,
       AnswersKeepUp, client, clientHistory, LooksUp
<1>9. ASSUME NEW t \in Task, Commits(t) PROVE AnswersKeepUp'
    BY <1>9 DEF ClientTypeOK, GateInv, KnownInv, Covered, CacheKeepsUp,
       AnswersKeepUp, client, clientHistory, Commits
<1>10. ASSUME NEW t \in Task, ReadSucceeds(t) PROVE AnswersKeepUp'
    BY <1>10 DEF ClientTypeOK, GateInv, KnownInv, Covered, CacheKeepsUp,
       AnswersKeepUp, client, clientHistory, ReadSucceeds, ReadReturns,
       LeavesGate, Waiting
<1>11. ASSUME NEW t \in Task, ReadFails(t) PROVE AnswersKeepUp'
    BY <1>11 DEF ClientTypeOK, GateInv, KnownInv, Covered, CacheKeepsUp,
       AnswersKeepUp, client, clientHistory, ReadFails, ReadReturns,
       LeavesGate, Waiting
<1>12. ASSUME NEW t \in Task, MutateSucceeds(t) PROVE AnswersKeepUp'
    BY <1>12 DEF ClientTypeOK, GateInv, KnownInv, Covered, CacheKeepsUp,
       AnswersKeepUp, client, clientHistory, MutateSucceeds, LeavesGate,
       Without, Dropped
<1>13. ASSUME NEW t \in Task, MutateFails(t) PROVE AnswersKeepUp'
    BY <1>13 DEF ClientTypeOK, GateInv, KnownInv, Covered, CacheKeepsUp,
       AnswersKeepUp, client, clientHistory, MutateFails, LeavesGate
<1>14. ASSUME NEW t \in Task, ListSucceeds(t) PROVE AnswersKeepUp'
    BY <1>14 DEF ClientTypeOK, GateInv, KnownInv, Covered, CacheKeepsUp,
       AnswersKeepUp, client, clientHistory, ListSucceeds, LeavesGate,
       Without
<1>15. ASSUME NEW t \in Task, ListFails(t) PROVE AnswersKeepUp'
    BY <1>15 DEF ClientTypeOK, GateInv, KnownInv, Covered, CacheKeepsUp,
       AnswersKeepUp, client, clientHistory, ListFails, LeavesGate
<1>16. ASSUME NEW k \in Key, AgentWrites(k) PROVE AnswersKeepUp'
    BY <1>16 DEF ClientTypeOK, GateInv, KnownInv, Covered, CacheKeepsUp,
       AnswersKeepUp, client, clientHistory, AgentWrites
<1>17. ASSUME NEW k \in Key, Expires(k) PROVE AnswersKeepUp'
    BY <1>17 DEF ClientTypeOK, GateInv, KnownInv, Covered, CacheKeepsUp,
       AnswersKeepUp, client, clientHistory, Expires
<1>18. CASE UNCHANGED clientVars
    BY <1>18 DEF ClientTypeOK, GateInv, KnownInv, Covered, CacheKeepsUp,
       AnswersKeepUp, client, clientHistory, clientVars
<1>19. ASSUME NEW t \in Task, NEW k \in Key, NEW fresh \in BOOLEAN,
             Read(t, k, fresh)
      PROVE  AnswersKeepUp'
    BY <1>1, <1>2, <1>3, <1>19 DEF Read
<1>20. ASSUME NEW t \in Task, ReadsBack(t) PROVE AnswersKeepUp'
    BY <1>19, <1>20 DEF ReadsBack, ClientTypeOK
<1>21. ASSUME NEW t \in Task, Fetch(t) PROVE AnswersKeepUp'
    BY <1>21 DEF ClientTypeOK, GateInv, KnownInv, Covered, CacheKeepsUp,
       AnswersKeepUp, client, clientHistory, Fetch
<1>22. ASSUME NEW t \in Task, FetchEnds(t) PROVE AnswersKeepUp'
    BY <1>22 DEF ClientTypeOK, GateInv, KnownInv, Covered, CacheKeepsUp,
       AnswersKeepUp, client, clientHistory, FetchEnds, LeavesGate
<1> QED
    BY <1>4, <1>5, <1>6, <1>7, <1>8, <1>9, <1>10, <1>11, <1>12, <1>13,
       <1>14, <1>15, <1>16, <1>17, <1>18, <1>19, <1>20, <1>21, <1>22
    DEF ClientNext, ClientStep, SubprocessEnds

--------------------------------------------------------------------------------
(* The invariant                                                            *)

LEMMA InvInit == ClientInit => Inv
<1> SUFFICES ASSUME ClientInit PROVE Inv
    OBVIOUS
<1>1. ClientTypeOK
    BY NoKeyIsKey DEF ClientInit, ClientTypeOK, Pc, Kind
<1>2. GateInv
    BY DEF ClientInit, GateInv
<1>3. JoinersHaveAnOwner
    BY DEF ClientInit, JoinersHaveAnOwner
<1>4. KnownInv
    BY NoKeyIsKey DEF ClientInit, KnownInv
<1>5. CacheKeepsUp /\ AnswersKeepUp
    BY DEF ClientInit, CacheKeepsUp, AnswersKeepUp
<1> QED BY <1>1, <1>2, <1>3, <1>4, <1>5 DEF Inv

LEMMA InvStep == Inv /\ [ClientNext]_clientVars => Inv'
BY TypeStep, GateStep, OwnerStep, KnownStep, CacheStep, AnswersStep DEF Inv

(* The inductive invariant: types, the gate, the futures, and what is known. *)
THEOREM InvHolds == ClientSpec => []Inv
BY InvInit, InvStep, PTL DEF ClientSpec

--------------------------------------------------------------------------------
(* The theorems                                                             *)

(* No cached entry is older than what the process was told of since, by a    *)
(* write of its own that bd confirmed or by a refresh of the lists.          *)
THEOREM CacheKeepsUpHolds == ClientSpec => []CacheKeepsUp
<1>1. Inv => CacheKeepsUp
    BY DEF Inv
<1> QED BY <1>1, InvHolds, PTL

(* No request is answered with less than the process knew when it was made.  *)
THEOREM AnswersKeepUpHolds == ClientSpec => []AnswersKeepUp
<1>1. Inv => AnswersKeepUp
    BY DEF Inv
<1> QED BY <1>1, InvHolds, PTL

(* Every request that joined waits for a live read, and every read in flight *)
(* is owned by the one task that runs it.                                    *)
THEOREM JoinersHaveAnOwnerHolds == ClientSpec => []JoinersHaveAnOwner
<1>1. Inv => JoinersHaveAnOwner
    BY DEF Inv
<1> QED BY <1>1, InvHolds, PTL
================================================================================
