--------------------------- MODULE FieldEdit_proofs ----------------------------
(***************************************************************************)
(* Proofs about FieldEdit, for any number of tabs, beads and writes.  Its   *)
(* steps are steps of BdClient, whose invariant therefore holds; the rest   *)
(* says what an edit carries from its check to its write.                   *)
(***************************************************************************)
EXTENDS FieldEdit, BdClient_proofs

USE BdClientAssumption DEF BdClientAssumption, Key, Version, Maybe

(* Where a route stands, its coroutine of BdClient stands too.               *)
RouteInv ==
    \A t \in Task :
        /\ route[t] = "check" => kind[t] = "read" /\ pc[t] # "idle"
        /\ route[t] = "save" => kind[t] = "mutate" /\ pc[t] \notin {"idle", "answered"}
        /\ kind[t] = "read" => pc[t] \notin {"saved", "raised"}
        /\ pc[t] = "answered" => kind[t] = "read" /\ answer[t] # None
        /\ pc[t] = "idle" => answer[t] = None
        /\ route[t] # "idle" => key[t] \in Detail

(* Nothing read is ahead of the database.                                    *)
PastInv ==
    /\ \A k \in Key : cached[k] \in Version => cached[k] <= db[k]
    /\ \A t \in Task : answer[t] \in Version => answer[t] <= db[key[t]]

(* What an edit was checked against when it went to the gate.                *)
CheckedInv ==
    \A t \in Task : route[t] = "save" /\ answer[t] \in Version =>
        /\ floor[t] <= answer[t]
        /\ answer[t] \notin locked[key[t]]
        /\ Guarded(t) => answer[t] = token[t][key[t]]

FieldInv == TypeOK /\ Inv /\ RouteInv /\ PastInv /\ CheckedInv

--------------------------------------------------------------------------------
(* FieldEdit runs BdClient                                                  *)

LEMMA StepOfClient == ClientTypeOK /\ [Next]_vars => [ClientNext]_clientVars
<1> SUFFICES ASSUME ClientTypeOK, [Next]_vars PROVE [ClientNext]_clientVars
    OBVIOUS
<1>1. ASSUME NEW t \in Task, NEW b \in Detail, Views(t, b) PROVE ClientNext
    BY <1>1 DEF Views, ClientNext, ClientStep
<1>2. ASSUME NEW t \in Task, NEW b \in Detail, NEW ap \in BOOLEAN, Submits(t, b, ap)
      PROVE  ClientNext
    BY <1>2 DEF Submits, ClientNext, ClientStep
<1>3. ASSUME NEW t \in Task, Saves(t) PROVE ClientNext
    BY <1>3 DEF ClientTypeOK, Saves, ClientNext, ClientStep
<1>4. ASSUME NEW t \in Task,
             Renders(t) \/ Rejects(t) \/ SaveFails(t) \/ Refreshes(t)
      PROVE  ClientNext
    BY <1>4 DEF Renders, Rejects, SaveFails, Refreshes, ClientNext, ClientStep
<1>5. ASSUME NEW t \in Task, Rereads(t) PROVE ClientNext
    BY <1>5 DEF Rereads, ClientNext, ClientStep
<1>6. ASSUME NEW t \in Task, Subprocess(t) \/ Commit(t) PROVE ClientNext
    BY <1>6 DEF Subprocess, Commit, ClientNext, ClientStep
<1>7. ASSUME NEW b \in Detail, Agent(b) \/ Expiry(b) PROVE ClientNext
    BY <1>7 DEF Agent, Expiry, ClientNext
<1>8. CASE UNCHANGED vars
    BY <1>8 DEF vars
<1> QED BY <1>1, <1>2, <1>3, <1>4, <1>5, <1>6, <1>7, <1>8 DEF Next

LEMMA ReadFacts ==
    ASSUME ClientTypeOK, NEW t \in Task, NEW k \in Key, NEW fresh \in BOOLEAN,
           Read(t, k, fresh)
    PROVE  /\ db' = db
           /\ key' = [key EXCEPT ![t] = k]
           /\ \A j \in Key : cached'[j] \in {cached[j], None}
           /\ answer' \in {answer, [answer EXCEPT ![t] = cached[k]]}
BY DEF ClientTypeOK, Read, ReadServed, ReadJoins, ReadOwns, Requests

--------------------------------------------------------------------------------
(* The invariant, part by part                                              *)

LEMMA RouteStep == TypeOK /\ Inv /\ RouteInv /\ [Next]_vars => RouteInv'
<1> SUFFICES ASSUME TypeOK, Inv, RouteInv, [Next]_vars PROVE RouteInv'
    OBVIOUS
<1>1. ASSUME NEW t \in Task, NEW b \in Detail, Views(t, b)
      PROVE  RouteInv'
    BY <1>1 DEF TypeOK, ClientTypeOK, Inv, JoinersHaveAnOwner, GateInv,
       RouteInv, form, clientHistory, client, Views, Read, ReadServed,
       ReadJoins, ReadOwns, Requests
<1>2. ASSUME NEW t \in Task, NEW b \in Detail, NEW ap \in BOOLEAN, Submits(t, b, ap)
      PROVE  RouteInv'
    BY <1>2 DEF TypeOK, ClientTypeOK, Inv, JoinersHaveAnOwner, GateInv,
       RouteInv, form, clientHistory, client, Submits, Read, ReadServed,
       ReadJoins, ReadOwns, Requests
<1>3. ASSUME NEW t \in Task, Renders(t)
      PROVE  RouteInv'
    BY <1>3 DEF TypeOK, ClientTypeOK, Inv, JoinersHaveAnOwner, GateInv,
       RouteInv, form, clientHistory, client, Renders, Returns
<1>4. ASSUME NEW t \in Task, Rejects(t)
      PROVE  RouteInv'
    BY <1>4 DEF TypeOK, ClientTypeOK, Inv, JoinersHaveAnOwner, GateInv,
       RouteInv, form, clientHistory, client, Rejects, Returns
<1>5. ASSUME NEW t \in Task, Saves(t)
      PROVE  RouteInv'
    BY <1>5 DEF TypeOK, ClientTypeOK, Inv, JoinersHaveAnOwner, GateInv,
       RouteInv, form, clientHistory, client, Saves, Mutate
<1>6. ASSUME NEW t \in Task, Rereads(t)
      PROVE  RouteInv'
    BY <1>6 DEF TypeOK, ClientTypeOK, Inv, JoinersHaveAnOwner, GateInv,
       RouteInv, form, clientHistory, client, Rereads, ReadsBack, Read,
       ReadServed, ReadJoins, ReadOwns, Requests
<1>7. ASSUME NEW t \in Task, SaveFails(t)
      PROVE  RouteInv'
    BY <1>7 DEF TypeOK, ClientTypeOK, Inv, JoinersHaveAnOwner, GateInv,
       RouteInv, form, clientHistory, client, SaveFails, Returns
<1>8. ASSUME NEW t \in Task, Refreshes(t)
      PROVE  RouteInv'
    BY <1>8 DEF TypeOK, ClientTypeOK, Inv, JoinersHaveAnOwner, GateInv,
       RouteInv, form, clientHistory, client, Refreshes, Returns, List
<1>9. ASSUME NEW t \in Task, Subprocess(t)
      PROVE  RouteInv'
  <2>1. CASE EntersGate(t)
        BY <1>9, <2>1 DEF TypeOK, ClientTypeOK, Inv, JoinersHaveAnOwner,
           GateInv, RouteInv, form, Subprocess, clientHistory, EntersGate
  <2>2. CASE LooksUp(t)
        BY <1>9, <2>2 DEF TypeOK, ClientTypeOK, Inv, JoinersHaveAnOwner,
           GateInv, RouteInv, form, Subprocess, clientHistory, LooksUp
  <2>3. CASE ReadSucceeds(t)
        BY <1>9, <2>3 DEF TypeOK, ClientTypeOK, Inv, JoinersHaveAnOwner,
           GateInv, RouteInv, form, Subprocess, clientHistory, ReadSucceeds,
           ReadReturns, LeavesGate, Waiting
  <2>4. CASE ReadFails(t)
        BY <1>9, <2>4 DEF TypeOK, ClientTypeOK, Inv, JoinersHaveAnOwner,
           GateInv, RouteInv, form, Subprocess, clientHistory, ReadFails, ReadReturns,
           LeavesGate, Waiting
  <2>5. CASE MutateSucceeds(t)
        BY <1>9, <2>5 DEF TypeOK, ClientTypeOK, Inv, JoinersHaveAnOwner,
           GateInv, RouteInv, form, Subprocess, clientHistory, MutateSucceeds,
           LeavesGate, Without
  <2>6. CASE MutateFails(t)
        BY <1>9, <2>6 DEF TypeOK, ClientTypeOK, Inv, JoinersHaveAnOwner,
           GateInv, RouteInv, form, Subprocess, clientHistory, MutateFails, LeavesGate
  <2>7. CASE ListSucceeds(t)
        BY <1>9, <2>7 DEF TypeOK, ClientTypeOK, Inv, JoinersHaveAnOwner,
           GateInv, RouteInv, form, Subprocess, clientHistory, ListSucceeds,
           LeavesGate, Without
  <2>8. CASE ListFails(t)
        BY <1>9, <2>8 DEF TypeOK, ClientTypeOK, Inv, JoinersHaveAnOwner,
           GateInv, RouteInv, form, Subprocess, clientHistory, ListFails, LeavesGate
  <2>9. CASE FetchEnds(t)
        BY <1>9, <2>9 DEF TypeOK, ClientTypeOK, Inv, JoinersHaveAnOwner,
           GateInv, RouteInv, form, Subprocess, clientHistory, FetchEnds, LeavesGate
  <2> QED BY <1>9, <2>1, <2>2, <2>3, <2>4, <2>5, <2>6, <2>7, <2>8,
         <2>9 DEF Subprocess, SubprocessEnds
<1>10. ASSUME NEW t \in Task, Commit(t)
      PROVE  RouteInv'
    BY <1>10 DEF TypeOK, ClientTypeOK, Inv, JoinersHaveAnOwner, GateInv,
       RouteInv, form, clientHistory, client, Commit, Commits
<1>11. ASSUME NEW b \in Detail, Agent(b) PROVE RouteInv'
    BY <1>11 DEF TypeOK, ClientTypeOK, Inv, JoinersHaveAnOwner, GateInv,
       RouteInv, form, client, clientHistory, Agent, AgentWrites
<1>12. ASSUME NEW b \in Detail, Expiry(b) PROVE RouteInv'
    BY <1>12 DEF TypeOK, ClientTypeOK, Inv, JoinersHaveAnOwner, GateInv,
       RouteInv, form, client, clientHistory, Expiry, Expires
<1>13. CASE UNCHANGED vars
    BY <1>13 DEF TypeOK, ClientTypeOK, Inv, JoinersHaveAnOwner, GateInv,
       RouteInv, vars, clientVars, form, client, clientHistory
<1> QED
    BY <1>1, <1>2, <1>3, <1>4, <1>5, <1>6, <1>7, <1>8, <1>9, <1>10, <1>11,
       <1>12, <1>13 DEF Next

LEMMA PastStep == TypeOK /\ Inv /\ RouteInv /\ PastInv /\ [Next]_vars => PastInv'
<1> SUFFICES ASSUME TypeOK, Inv, RouteInv, PastInv, [Next]_vars PROVE PastInv'
    OBVIOUS
<1>1. ASSUME NEW t \in Task, NEW b \in Detail, Views(t, b)
      PROVE  PastInv'
  <2>1. Read(t, b, FALSE) /\ b \in Key
      BY <1>1 DEF Views
  <2>2. /\ db' = db
        /\ key' = [key EXCEPT ![t] = b]
        /\ \A j \in Key : cached'[j] \in {cached[j], None}
        /\ answer' \in {answer, [answer EXCEPT ![t] = cached[b]]}
      BY <2>1, ReadFacts DEF Inv
  <2>3. answer[t] = None
      BY <1>1 DEF Views, RouteInv
  <2> QED BY <2>1, <2>2, <2>3 DEF PastInv, Inv, ClientTypeOK
<1>2. ASSUME NEW t \in Task, NEW b \in Detail, NEW ap \in BOOLEAN, Submits(t, b, ap)
      PROVE  PastInv'
  <2>1. Read(t, b, TRUE) /\ b \in Key
      BY <1>2 DEF Submits
  <2>2. /\ db' = db
        /\ key' = [key EXCEPT ![t] = b]
        /\ \A j \in Key : cached'[j] \in {cached[j], None}
        /\ answer' \in {answer, [answer EXCEPT ![t] = cached[b]]}
      BY <2>1, ReadFacts DEF Inv
  <2>3. answer[t] = None
      BY <1>2 DEF Submits, RouteInv
  <2> QED BY <2>1, <2>2, <2>3 DEF PastInv, Inv, ClientTypeOK
<1>3. ASSUME NEW t \in Task, Renders(t)
      PROVE  PastInv'
    BY <1>3 DEF TypeOK, ClientTypeOK, Inv, KnownInv, RouteInv, PastInv,
       form, clientHistory, client, Renders, Returns
<1>4. ASSUME NEW t \in Task, Rejects(t)
      PROVE  PastInv'
    BY <1>4 DEF TypeOK, ClientTypeOK, Inv, KnownInv, RouteInv, PastInv,
       form, clientHistory, client, Rejects, Returns
<1>5. ASSUME NEW t \in Task, Saves(t)
      PROVE  PastInv'
    BY <1>5 DEF TypeOK, ClientTypeOK, Inv, KnownInv, RouteInv, PastInv,
       form, clientHistory, client, Saves, Mutate
<1>6. ASSUME NEW t \in Task, Rereads(t)
      PROVE  PastInv'
  <2>1. Read(t, key[t], FALSE) /\ key[t] \in Key
      BY <1>6 DEF Rereads, ReadsBack, Inv, ClientTypeOK
  <2>2. /\ db' = db
        /\ key' = [key EXCEPT ![t] = key[t]]
        /\ \A j \in Key : cached'[j] \in {cached[j], None}
        /\ answer' \in {answer, [answer EXCEPT ![t] = cached[key[t]]]}
      BY <2>1, ReadFacts DEF Inv
  <2> QED BY <2>1, <2>2 DEF PastInv, Inv, ClientTypeOK
<1>7. ASSUME NEW t \in Task, SaveFails(t)
      PROVE  PastInv'
    BY <1>7 DEF TypeOK, ClientTypeOK, Inv, KnownInv, RouteInv, PastInv,
       form, clientHistory, client, SaveFails, Returns
<1>8. ASSUME NEW t \in Task, Refreshes(t)
      PROVE  PastInv'
    BY <1>8 DEF TypeOK, ClientTypeOK, Inv, KnownInv, RouteInv, PastInv,
       form, clientHistory, client, Refreshes, Returns, List
<1>9. ASSUME NEW t \in Task, Subprocess(t)
      PROVE  PastInv'
  <2>1. CASE EntersGate(t)
        BY <1>9, <2>1 DEF TypeOK, ClientTypeOK, Inv, KnownInv, RouteInv,
           PastInv, form, Subprocess, clientHistory, EntersGate
  <2>2. CASE LooksUp(t)
        BY <1>9, <2>2 DEF TypeOK, ClientTypeOK, Inv, KnownInv, RouteInv,
           PastInv, form, Subprocess, clientHistory, LooksUp
  <2>3. CASE ReadSucceeds(t)
        BY <1>9, <2>3 DEF TypeOK, ClientTypeOK, Inv, KnownInv, RouteInv,
           PastInv, form, Subprocess, clientHistory, ReadSucceeds, ReadReturns,
           LeavesGate, Waiting
  <2>4. CASE ReadFails(t)
        BY <1>9, <2>4 DEF TypeOK, ClientTypeOK, Inv, KnownInv, RouteInv,
           PastInv, form, Subprocess, clientHistory, ReadFails, ReadReturns,
           LeavesGate, Waiting
  <2>5. CASE MutateSucceeds(t)
        BY <1>9, <2>5 DEF TypeOK, ClientTypeOK, Inv, KnownInv, RouteInv,
           PastInv, form, Subprocess, clientHistory, MutateSucceeds, LeavesGate,
           Without
  <2>6. CASE MutateFails(t)
        BY <1>9, <2>6 DEF TypeOK, ClientTypeOK, Inv, KnownInv, RouteInv,
           PastInv, form, Subprocess, clientHistory, MutateFails, LeavesGate
  <2>7. CASE ListSucceeds(t)
        BY <1>9, <2>7 DEF TypeOK, ClientTypeOK, Inv, KnownInv, RouteInv,
           PastInv, form, Subprocess, clientHistory, ListSucceeds, LeavesGate, Without
  <2>8. CASE ListFails(t)
        BY <1>9, <2>8 DEF TypeOK, ClientTypeOK, Inv, KnownInv, RouteInv,
           PastInv, form, Subprocess, clientHistory, ListFails, LeavesGate
  <2>9. CASE FetchEnds(t)
        BY <1>9, <2>9 DEF TypeOK, ClientTypeOK, Inv, KnownInv, RouteInv,
           PastInv, form, Subprocess, clientHistory, FetchEnds, LeavesGate
  <2> QED BY <1>9, <2>1, <2>2, <2>3, <2>4, <2>5, <2>6, <2>7, <2>8,
         <2>9 DEF Subprocess, SubprocessEnds
<1>10. ASSUME NEW t \in Task, Commit(t)
      PROVE  PastInv'
    BY <1>10 DEF TypeOK, ClientTypeOK, Inv, KnownInv, RouteInv, PastInv,
       form, clientHistory, client, Commit, Commits
<1>11. ASSUME NEW b \in Detail, Agent(b) PROVE PastInv'
    BY <1>11 DEF TypeOK, ClientTypeOK, Inv, KnownInv, RouteInv, PastInv,
       form, client, clientHistory, Agent, AgentWrites
<1>12. ASSUME NEW b \in Detail, Expiry(b) PROVE PastInv'
    BY <1>12 DEF TypeOK, ClientTypeOK, Inv, KnownInv, RouteInv, PastInv,
       form, client, clientHistory, Expiry, Expires
<1>13. CASE UNCHANGED vars
    BY <1>13 DEF TypeOK, ClientTypeOK, Inv, KnownInv, RouteInv, PastInv,
       vars, clientVars, form, client, clientHistory
<1> QED
    BY <1>1, <1>2, <1>3, <1>4, <1>5, <1>6, <1>7, <1>8, <1>9, <1>10, <1>11,
       <1>12, <1>13 DEF Next

LEMMA TypeStepOfField ==
    TypeOK /\ Inv /\ RouteInv /\ PastInv /\ ClientTypeOK' /\ [Next]_vars
    => TypeOK'
<1> SUFFICES ASSUME TypeOK, Inv, RouteInv, PastInv, ClientTypeOK', [Next]_vars
             PROVE TypeOK'
    OBVIOUS
<1>1. ASSUME NEW t \in Task, NEW b \in Detail, Views(t, b)
      PROVE  TypeOK'
    BY <1>1 DEF TypeOK, RouteInv, Route, form, clientHistory, client, Views,
       Read, ReadServed, ReadJoins, ReadOwns, Requests
<1>2. ASSUME NEW t \in Task, NEW b \in Detail, NEW ap \in BOOLEAN, Submits(t, b, ap)
      PROVE  TypeOK'
    BY <1>2 DEF TypeOK, RouteInv, Route, form, clientHistory, client,
       Submits, Read, ReadServed, ReadJoins, ReadOwns, Requests
<1>3. ASSUME NEW t \in Task, Renders(t)
      PROVE  TypeOK'
  <2>1. answer[t] \in Version \cup {Failed} /\ listed[key[t]] \in Version
      BY <1>3 DEF TypeOK, ClientTypeOK, RouteInv, Renders, Returns
  <2>2. token' \in [Task -> [Detail -> Maybe(Version)]]
      BY <1>3, <2>1 DEF TypeOK, Renders
  <2> QED BY <1>3, <2>2 DEF TypeOK, Renders
<1>4. ASSUME NEW t \in Task, Rejects(t)
      PROVE  TypeOK'
    BY <1>4 DEF TypeOK, RouteInv, Route, form, clientHistory, client,
       Rejects, Returns
<1>5. ASSUME NEW t \in Task, Saves(t)
      PROVE  TypeOK'
    BY <1>5 DEF TypeOK, RouteInv, Route, form, clientHistory, client, Saves,
       Mutate
<1>6. ASSUME NEW t \in Task, Rereads(t)
      PROVE  TypeOK'
    BY <1>6 DEF TypeOK, RouteInv, Route, form, clientHistory, client,
       Rereads, ReadsBack, Read, ReadServed, ReadJoins, ReadOwns, Requests
<1>7. ASSUME NEW t \in Task, SaveFails(t)
      PROVE  TypeOK'
    BY <1>7 DEF TypeOK, RouteInv, Route, form, clientHistory, client,
       SaveFails, Returns
<1>8. ASSUME NEW t \in Task, Refreshes(t)
      PROVE  TypeOK'
    BY <1>8 DEF TypeOK, RouteInv, Route, form, clientHistory, client,
       Refreshes, Returns, List
<1>9. ASSUME NEW t \in Task, Subprocess(t)
      PROVE  TypeOK'
  <2>1. CASE EntersGate(t)
        BY <1>9, <2>1 DEF TypeOK, RouteInv, Route, form, Subprocess, clientHistory,
           EntersGate
  <2>2. CASE LooksUp(t)
        BY <1>9, <2>2 DEF TypeOK, RouteInv, Route, form, Subprocess, clientHistory,
           LooksUp
  <2>3. CASE ReadSucceeds(t)
        BY <1>9, <2>3 DEF TypeOK, RouteInv, Route, form, Subprocess, clientHistory,
           ReadSucceeds, ReadReturns, LeavesGate, Waiting
  <2>4. CASE ReadFails(t)
        BY <1>9, <2>4 DEF TypeOK, RouteInv, Route, form, Subprocess, clientHistory,
           ReadFails, ReadReturns, LeavesGate, Waiting
  <2>5. CASE MutateSucceeds(t)
        BY <1>9, <2>5 DEF TypeOK, RouteInv, Route, form, Subprocess, clientHistory,
           MutateSucceeds, LeavesGate, Without
  <2>6. CASE MutateFails(t)
        BY <1>9, <2>6 DEF TypeOK, RouteInv, Route, form, Subprocess, clientHistory,
           MutateFails, LeavesGate
  <2>7. CASE ListSucceeds(t)
        BY <1>9, <2>7 DEF TypeOK, RouteInv, Route, form, Subprocess, clientHistory,
           ListSucceeds, LeavesGate, Without
  <2>8. CASE ListFails(t)
        BY <1>9, <2>8 DEF TypeOK, RouteInv, Route, form, Subprocess, clientHistory,
           ListFails, LeavesGate
  <2>9. CASE FetchEnds(t)
        BY <1>9, <2>9 DEF TypeOK, RouteInv, Route, form, Subprocess, clientHistory,
           FetchEnds, LeavesGate
  <2> QED BY <1>9, <2>1, <2>2, <2>3, <2>4, <2>5, <2>6, <2>7, <2>8,
         <2>9 DEF Subprocess, SubprocessEnds
<1>10. ASSUME NEW t \in Task, Commit(t)
      PROVE  TypeOK'
  <2>1. db'[key[t]] \in Version
      BY DEF TypeOK, ClientTypeOK
  <2>2. locked' \in [Detail -> SUBSET Version]
      BY <1>10, <2>1 DEF TypeOK, Commit
  <2> QED BY <1>10, <2>2 DEF TypeOK, Commit, form
<1>11. ASSUME NEW b \in Detail, Agent(b) PROVE TypeOK'
  <2>1. db'[b] \in Version
      BY DEF ClientTypeOK
  <2>2. locked' \in [Detail -> SUBSET Version]
      BY <1>11, <2>1 DEF TypeOK, Agent
  <2> QED BY <1>11, <2>2 DEF TypeOK, Agent, form
<1>12. ASSUME NEW b \in Detail, Expiry(b) PROVE TypeOK'
    BY <1>12 DEF TypeOK, RouteInv, Route, form, client, clientHistory,
       Expiry, Expires
<1>13. CASE UNCHANGED vars
    BY <1>13 DEF TypeOK, RouteInv, Route, vars, clientVars, form, client,
       clientHistory
<1> QED
    BY <1>1, <1>2, <1>3, <1>4, <1>5, <1>6, <1>7, <1>8, <1>9, <1>10, <1>11,
       <1>12, <1>13 DEF Next

LEMMA CheckedStep ==
    TypeOK /\ Inv /\ RouteInv /\ PastInv /\ CheckedInv /\ [Next]_vars
    => CheckedInv'
<1> SUFFICES ASSUME TypeOK, Inv, RouteInv, PastInv, CheckedInv, [Next]_vars
             PROVE CheckedInv'
    OBVIOUS
<1>1. ASSUME NEW t \in Task, NEW b \in Detail, Views(t, b)
      PROVE  CheckedInv'
    BY <1>1 DEF TypeOK, ClientTypeOK, Inv, AnswersKeepUp, RouteInv, PastInv,
       CheckedInv, Guarded, Refused, form, clientHistory, client, Views,
       Read, ReadServed, ReadJoins, ReadOwns, Requests
<1>2. ASSUME NEW t \in Task, NEW b \in Detail, NEW ap \in BOOLEAN, Submits(t, b, ap)
      PROVE  CheckedInv'
    BY <1>2 DEF TypeOK, ClientTypeOK, Inv, AnswersKeepUp, RouteInv, PastInv,
       CheckedInv, Guarded, Refused, form, clientHistory, client, Submits,
       Read, ReadServed, ReadJoins, ReadOwns, Requests
<1>3. ASSUME NEW t \in Task, Renders(t)
      PROVE  CheckedInv'
    BY <1>3 DEF TypeOK, ClientTypeOK, Inv, AnswersKeepUp, RouteInv, PastInv,
       CheckedInv, Guarded, Refused, form, clientHistory, client, Renders,
       Returns
<1>4. ASSUME NEW t \in Task, Rejects(t)
      PROVE  CheckedInv'
    BY <1>4 DEF TypeOK, ClientTypeOK, Inv, AnswersKeepUp, RouteInv, PastInv,
       CheckedInv, Guarded, Refused, form, clientHistory, client, Rejects,
       Returns
<1>5. ASSUME NEW t \in Task, Saves(t)
      PROVE  CheckedInv'
    BY <1>5 DEF TypeOK, ClientTypeOK, Inv, AnswersKeepUp, RouteInv, PastInv,
       CheckedInv, Guarded, Refused, form, clientHistory, client, Saves,
       Mutate
<1>6. ASSUME NEW t \in Task, Rereads(t)
      PROVE  CheckedInv'
    BY <1>6 DEF TypeOK, ClientTypeOK, Inv, AnswersKeepUp, RouteInv, PastInv,
       CheckedInv, Guarded, Refused, form, clientHistory, client, Rereads,
       ReadsBack, Read, ReadServed, ReadJoins, ReadOwns, Requests
<1>7. ASSUME NEW t \in Task, SaveFails(t)
      PROVE  CheckedInv'
    BY <1>7 DEF TypeOK, ClientTypeOK, Inv, AnswersKeepUp, RouteInv, PastInv,
       CheckedInv, Guarded, Refused, form, clientHistory, client, SaveFails,
       Returns
<1>8. ASSUME NEW t \in Task, Refreshes(t)
      PROVE  CheckedInv'
    BY <1>8 DEF TypeOK, ClientTypeOK, Inv, AnswersKeepUp, RouteInv, PastInv,
       CheckedInv, Guarded, Refused, form, clientHistory, client, Refreshes,
       Returns, List
<1>9. ASSUME NEW t \in Task, Subprocess(t)
      PROVE  CheckedInv'
  <2>1. CASE EntersGate(t)
        BY <1>9, <2>1 DEF TypeOK, ClientTypeOK, Inv, AnswersKeepUp, RouteInv,
           PastInv, CheckedInv, Guarded, Refused, form, Subprocess, clientHistory,
           EntersGate
  <2>2. CASE LooksUp(t)
        BY <1>9, <2>2 DEF TypeOK, ClientTypeOK, Inv, AnswersKeepUp, RouteInv,
           PastInv, CheckedInv, Guarded, Refused, form, Subprocess, clientHistory,
           LooksUp
  <2>3. CASE ReadSucceeds(t)
        BY <1>9, <2>3 DEF TypeOK, ClientTypeOK, Inv, GateInv, AnswersKeepUp, RouteInv,
           PastInv, CheckedInv, Guarded, Refused, form, Subprocess, clientHistory,
           ReadSucceeds, ReadReturns, LeavesGate, Waiting
  <2>4. CASE ReadFails(t)
        BY <1>9, <2>4 DEF TypeOK, ClientTypeOK, Inv, AnswersKeepUp, RouteInv,
           PastInv, CheckedInv, Guarded, Refused, form, Subprocess, clientHistory,
           ReadFails, ReadReturns, LeavesGate, Waiting
  <2>5. CASE MutateSucceeds(t)
        BY <1>9, <2>5 DEF TypeOK, ClientTypeOK, Inv, AnswersKeepUp, RouteInv,
           PastInv, CheckedInv, Guarded, Refused, form, Subprocess, clientHistory,
           MutateSucceeds, LeavesGate, Without
  <2>6. CASE MutateFails(t)
        BY <1>9, <2>6 DEF TypeOK, ClientTypeOK, Inv, AnswersKeepUp, RouteInv,
           PastInv, CheckedInv, Guarded, Refused, form, Subprocess, clientHistory,
           MutateFails, LeavesGate
  <2>7. CASE ListSucceeds(t)
        BY <1>9, <2>7 DEF TypeOK, ClientTypeOK, Inv, AnswersKeepUp, RouteInv,
           PastInv, CheckedInv, Guarded, Refused, form, Subprocess, clientHistory,
           ListSucceeds, LeavesGate, Without
  <2>8. CASE ListFails(t)
        BY <1>9, <2>8 DEF TypeOK, ClientTypeOK, Inv, AnswersKeepUp, RouteInv,
           PastInv, CheckedInv, Guarded, Refused, form, Subprocess, clientHistory,
           ListFails, LeavesGate
  <2>9. CASE FetchEnds(t)
        BY <1>9, <2>9 DEF TypeOK, ClientTypeOK, Inv, AnswersKeepUp, RouteInv,
           PastInv, CheckedInv, Guarded, Refused, form, Subprocess, clientHistory,
           FetchEnds, LeavesGate
  <2> QED BY <1>9, <2>1, <2>2, <2>3, <2>4, <2>5, <2>6, <2>7, <2>8,
         <2>9 DEF Subprocess, SubprocessEnds
<1>10. ASSUME NEW t \in Task, Commit(t)
      PROVE  CheckedInv'
    BY <1>10 DEF TypeOK, ClientTypeOK, Inv, AnswersKeepUp, RouteInv,
       PastInv, CheckedInv, Guarded, Refused, form, clientHistory, client,
       Commit, Commits
<1>11. ASSUME NEW b \in Detail, Agent(b) PROVE CheckedInv'
  <2>1. /\ route' = route /\ answer' = answer /\ floor' = floor /\ key' = key
        /\ token' = token /\ append' = append
      BY <1>11 DEF Agent, AgentWrites, form, client, clientHistory
  <2>2. db[b] \in Version /\ db'[b] = db[b] + 1
      BY <1>11 DEF Inv, ClientTypeOK, Agent, AgentWrites
  <2>3. \A c \in Detail : locked'[c] \subseteq locked[c] \cup (IF c = b THEN {db'[b]} ELSE {})
      BY <1>11 DEF TypeOK, Agent
  <2>4. ASSUME NEW u \in Task, route[u] = "save", answer[u] \in Version
        PROVE  answer[u] \notin locked'[key[u]]
    <3>1. answer[u] \notin locked[key[u]] /\ answer[u] <= db[key[u]]
        BY <2>4 DEF CheckedInv, PastInv
    <3>2. key[u] \in Detail
        BY <2>4 DEF RouteInv
    <3> QED BY <2>2, <2>3, <3>1, <3>2
  <2> QED BY <2>1, <2>4 DEF CheckedInv, Guarded
<1>12. ASSUME NEW b \in Detail, Expiry(b) PROVE CheckedInv'
    BY <1>12 DEF TypeOK, ClientTypeOK, Inv, AnswersKeepUp, RouteInv,
       PastInv, CheckedInv, Guarded, Refused, form, client, clientHistory,
       Expiry, Expires
<1>13. CASE UNCHANGED vars
    BY <1>13 DEF TypeOK, ClientTypeOK, Inv, AnswersKeepUp, RouteInv,
       PastInv, CheckedInv, Guarded, Refused, vars, clientVars, form,
       client, clientHistory
<1> QED
    BY <1>1, <1>2, <1>3, <1>4, <1>5, <1>6, <1>7, <1>8, <1>9, <1>10, <1>11,
       <1>12, <1>13 DEF Next

--------------------------------------------------------------------------------
(* The theorems                                                             *)

LEMMA FieldInit == Init => FieldInv
<1> SUFFICES ASSUME Init PROVE FieldInv
    OBVIOUS
<1>1. Inv
    BY InvInit DEF Init
<1>2. TypeOK
    BY <1>1 DEF Init, TypeOK, Route, Inv
<1>3. RouteInv /\ PastInv /\ CheckedInv
    BY DEF Init, ClientInit, RouteInv, PastInv, CheckedInv
<1> QED BY <1>1, <1>2, <1>3 DEF FieldInv

LEMMA FieldStep == FieldInv /\ [Next]_vars => FieldInv'
<1> SUFFICES ASSUME FieldInv, [Next]_vars PROVE FieldInv'
    OBVIOUS
<1>1. Inv'
    BY StepOfClient, InvStep DEF FieldInv, Inv
<1>2. ClientTypeOK'
    BY <1>1 DEF Inv
<1> QED BY <1>1, <1>2, RouteStep, PastStep, TypeStepOfField, CheckedStep DEF FieldInv

(* The inductive invariant: BdClient's, and what an edit was checked against. *)
THEOREM FieldInvHolds == Spec => []FieldInv
BY FieldInit, FieldStep, PTL DEF Spec

(* The tabs' state stays well-typed: no form carries a failed read.          *)
THEOREM TypeCorrect == Spec => []TypeOK
<1>1. FieldInv => TypeOK
    BY DEF FieldInv
<1> QED BY <1>1, FieldInvHolds, PTL

(* An edit that replaces a value was made on a form at least as new as all   *)
(* bdboard itself had saved or listed when it was submitted.                 *)
THEOREM OwnEditsSurviveHolds == Spec => []OwnEditsSurvive
<1>1. FieldInv => OwnEditsSurvive
    BY DEF FieldInv, CheckedInv, OwnEditsSurvive, Checked
<1> QED BY <1>1, FieldInvHolds, PTL

(* No field is written after a live read that found the bead locked, or that *)
(* is older than what bdboard knew.                                          *)
THEOREM LockedBeadsStayHolds == Spec => []LockedBeadsStay
<1>1. FieldInv => LockedBeadsStay
    BY DEF FieldInv, CheckedInv, LockedBeadsStay, Checked
<1> QED BY <1>1, FieldInvHolds, PTL

(* The routes only do what BdClient's callers may do, so its theorems hold   *)
(* of them.                                                                  *)
THEOREM FieldEditUsesClient == Spec => ClientSpec
<1>1. Init => ClientInit
    BY DEF Init
<1>2. FieldInv /\ [Next]_vars => [ClientNext]_clientVars
    BY StepOfClient DEF FieldInv, Inv
<1> QED BY <1>1, <1>2, FieldInvHolds, PTL DEF Spec, ClientSpec
================================================================================
