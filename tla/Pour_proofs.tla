------------------------------ MODULE Pour_proofs ------------------------------
(***************************************************************************)
(* Proofs about Pour, for any number of coroutines, trees and writes: a     *)
(* pour is a use of the client, so all that BdClient_proofs shows holds of  *)
(* it; and the tabs are told of a poured tree only when the lists hold it.  *)
(***************************************************************************)
EXTENDS Pour, BdClient_proofs

USE BdClientAssumption DEF BdClientAssumption, Key, Version, Maybe

(* What a task that pours runs at the gate, and that it stays with its tree. *)
RouteInv ==
    /\ route \in [Task -> Route]
    /\ poured \in [Task -> Version]
    /\ \A t \in Task : route[t] \in {"pour", "rename"} =>
        kind[t] = "mutate" /\ key[t] \in Detail
    /\ \A t \in Task : route[t] \in {"refresh", "told"} =>
        kind[t] = "list" /\ key[t] \in Detail

(* What was poured is known when the refresh starts, and listed when it ends. *)
ListedInv ==
    \A t \in Task : route[t] \in {"refresh", "told"} =>
        /\ poured[t] <= known[key[t]]
        /\ pc[t] = "saved" => poured[t] <= listed[key[t]]

PourInv == Inv /\ RouteInv /\ ListedInv

--------------------------------------------------------------------------------
(* A pour uses the client                                                   *)

LEMMA PourUsesClient ==
    ClientTypeOK /\ [PourNext]_pourVars => [ClientNext]_clientVars
<1> SUFFICES ASSUME ClientTypeOK, [PourNext]_pourVars
             PROVE  [ClientNext]_clientVars
    OBVIOUS
<1>1. ASSUME NEW t \in Task, PourStep(t) PROVE [ClientNext]_clientVars
  <2>1. CASE Asks(t)
        BY <2>1 DEF Asks, ClientNext, ClientStep
  <2>2. CASE Declines(t) \/ ReadsForm(t) \/ PourFails(t) \/ Replies(t)
        BY <2>2 DEF Declines, ReadsForm, PourFails, Replies, ClientNext, ClientStep
  <2>3. CASE Blocks(t) \/ Broadcasts(t)
        BY <2>3 DEF Blocks, Broadcasts
  <2>4. CASE \E tree \in Detail : Pours(t, tree)
        BY <2>4 DEF Pours, ClientNext, ClientStep
  <2>5. CASE Renames(t)
        BY <2>5 DEF Renames, ClientTypeOK, ClientNext, ClientStep
  <2>6. CASE RefreshesUnnamed(t) \/ RefreshesRenamed(t)
        BY <2>6 DEF RefreshesUnnamed, RefreshesRenamed, Refreshes, ClientNext,
           ClientStep
  <2> QED BY <1>1, <2>1, <2>2, <2>3, <2>4, <2>5, <2>6 DEF PourStep
<1>2. ASSUME NEW t \in Task, OtherStep(t) PROVE [ClientNext]_clientVars
    BY <1>2 DEF OtherStep, ClientTypeOK, ClientNext, ClientStep
<1>3. ASSUME NEW t \in Task, Subprocess(t) PROVE [ClientNext]_clientVars
    BY <1>3 DEF Subprocess, ClientNext, ClientStep
<1>4. ASSUME NEW k \in Key, Outside(k) PROVE [ClientNext]_clientVars
    BY <1>4 DEF Outside, ClientNext
<1>5. CASE UNCHANGED pourVars
    BY <1>5 DEF pourVars
<1> QED BY <1>1, <1>2, <1>3, <1>4, <1>5 DEF PourNext

(* A pour is one use of the client among the others.                         *)
THEOREM PourImplementsClient == PourSpec => ClientSpec
<1>1. PourInit => ClientInit /\ Inv
    BY InvInit DEF PourInit
<1>2. Inv /\ [PourNext]_pourVars => [ClientNext]_clientVars /\ Inv'
    BY PourUsesClient, InvStep DEF Inv
<1> QED BY <1>1, <1>2, PTL DEF PourSpec, ClientSpec

--------------------------------------------------------------------------------
(* The invariant, part by part                                              *)

\* Neither what the process was told nor what its lists hold goes back.
LEMMA NothingUnlearnt ==
    ASSUME Inv, Inv', [ClientNext]_clientVars, NEW k \in Key
    PROVE  known[k] <= known'[k] /\ listed[k] <= listed'[k]
<1>1. /\ known[k] \in Nat /\ listed[k] \in Nat /\ known'[k] \in Nat
      /\ listed'[k] \in Nat /\ listed[k] <= known[k]
    BY DEF Inv, ClientTypeOK, KnownInv
<1>2. ASSUME NEW t \in Task, MutateSucceeds(t)
      PROVE  known[k] <= known'[k] /\ listed[k] <= listed'[k]
  <2>1. got[t][key[t]] \in Nat /\ key[t] \in Key /\ known[key[t]] \in Nat
      BY <1>2 DEF Inv, ClientTypeOK, MutateSucceeds
  <2> DEFINE newest == Max({known[key[t]], got[t][key[t]]})
  <2>2. known[key[t]] <= newest
      BY <2>1, NewerKnown
  <2>3. known' = [known EXCEPT ![key[t]] = newest] /\ listed' = listed
      BY <1>2 DEF MutateSucceeds
  <2> HIDE DEF newest
  <2> QED BY <1>1, <2>1, <2>2, <2>3 DEF Inv, ClientTypeOK
<1>3. ASSUME NEW t \in Task, ListSucceeds(t)
      PROVE  known[k] <= known'[k] /\ listed[k] <= listed'[k]
  <2>1. known'[k] = Max({known[k], listed'[k]})
      BY <1>3 DEF ListSucceeds
  <2>2. known[k] <= known'[k]
      BY <1>1, <2>1, NewerKnown
  <2>3. CASE k \in Detail
    <3>1. listed'[k] = got[t][k] /\ got[t] \in [Key -> Version]
        BY <1>3, <2>3 DEF ListSucceeds, Inv, ClientTypeOK
    <3>2. known[k] <= got[t][k]
        BY <1>3, <2>3 DEF ListSucceeds, Inv, KnownInv, Covered
    <3> QED BY <1>1, <2>2, <3>1, <3>2
  <2>4. CASE k \notin Detail
      BY <1>1, <1>3, <2>2, <2>4 DEF ListSucceeds
  <2> QED BY <2>3, <2>4
<1>4. ASSUME NEW t \in Task,
             ReadSucceeds(t) \/ ReadFails(t) \/ MutateFails(t) \/ ListFails(t)
             \/ FetchEnds(t)
      PROVE  known[k] <= known'[k] /\ listed[k] <= listed'[k]
    BY <1>1, <1>4 DEF ReadSucceeds, ReadFails, ReadReturns, MutateFails, ListFails,
       FetchEnds, clientHistory
<1>5. ASSUME NEW t \in Task, EntersGate(t) \/ LooksUp(t) \/ Commits(t)
      PROVE  known[k] <= known'[k] /\ listed[k] <= listed'[k]
    BY <1>1, <1>5 DEF EntersGate, LooksUp, Commits, clientHistory
<1>6. ASSUME NEW t \in Task, NEW j \in Key, NEW fresh \in BOOLEAN,
             Read(t, j, fresh) \/ Mutate(t, j)
      PROVE  known[k] <= known'[k] /\ listed[k] <= listed'[k]
    BY <1>1, <1>6 DEF Read, ReadServed, ReadJoins, ReadOwns, Requests, Mutate,
       clientHistory
<1>7. ASSUME NEW t \in Task, ReadsBack(t) \/ List(t) \/ Fetch(t) \/ Returns(t)
      PROVE  known[k] <= known'[k] /\ listed[k] <= listed'[k]
  <2>1. CASE ReadsBack(t)
    <3>1. key[t] \in Key /\ Read(t, key[t], FALSE)
        BY <2>1 DEF ReadsBack, Inv, ClientTypeOK
    <3> QED BY <1>6, <3>1
  <2>2. CASE List(t) \/ Fetch(t) \/ Returns(t)
      BY <1>1, <2>2 DEF List, Fetch, Returns, clientHistory
  <2> QED BY <1>7, <2>1, <2>2
<1>8. ASSUME NEW j \in Key, AgentWrites(j) \/ Expires(j)
      PROVE  known[k] <= known'[k] /\ listed[k] <= listed'[k]
    BY <1>1, <1>8 DEF AgentWrites, Expires, client, clientHistory
<1>9. CASE UNCHANGED clientVars
    BY <1>1, <1>9 DEF clientVars, client, clientHistory
<1>10. ASSUME NEW t \in Task, ClientStep(t)
       PROVE  known[k] <= known'[k] /\ listed[k] <= listed'[k]
  <2>1. CASE SubprocessEnds(t)
      BY <1>2, <1>3, <1>4, <2>1 DEF SubprocessEnds
  <2>2. CASE EntersGate(t) \/ LooksUp(t) \/ Commits(t)
      BY <1>5, <2>2
  <2>3. CASE \E j \in Key, fresh \in BOOLEAN : pc[t] = "idle" /\ Read(t, j, fresh)
      BY <1>6, <2>3
  <2>4. CASE \E j \in Key : Mutate(t, j)
      BY <1>6, <2>4
  <2>5. CASE ReadsBack(t) \/ List(t) \/ Fetch(t) \/ Returns(t)
      BY <1>7, <2>5
  <2> QED BY <1>10, <2>1, <2>2, <2>3, <2>4, <2>5 DEF ClientStep
<1> QED BY <1>8, <1>9, <1>10 DEF ClientNext

\* No subprocess changes what a task runs or on which key.
LEMMA SubprocessKeepsTasks ==
    ASSUME NEW t \in Task, Subprocess(t)
    PROVE  kind' = kind /\ key' = key /\ route' = route /\ poured' = poured
BY DEF Subprocess, SubprocessEnds, EntersGate, LooksUp, Commits, ReadSucceeds,
   ReadFails, ReadReturns, MutateSucceeds, MutateFails, ListSucceeds, ListFails,
   FetchEnds

\* A task that does nothing of its own keeps what it runs and on which key.
LEMMA OthersKeepTask ==
    ASSUME ClientTypeOK, NEW t \in Task, OtherStep(t), NEW u \in Task \ {t}
    PROVE  kind'[u] = kind[u] /\ key'[u] = key[u] /\ pc'[u] = pc[u]
BY DEF ClientTypeOK, OtherStep, Read, ReadServed, ReadJoins, ReadOwns, Requests,
   ReadsBack, Mutate, List, Returns

LEMMA RouteStep == Inv /\ RouteInv /\ [PourNext]_pourVars => RouteInv'
<1> SUFFICES ASSUME Inv, RouteInv, [PourNext]_pourVars PROVE RouteInv'
    OBVIOUS
<1>1. ASSUME NEW t \in Task, Asks(t) PROVE RouteInv'
    BY <1>1 DEF Asks, Goes, Fetch, RouteInv, Route, Inv, ClientTypeOK
<1>2. ASSUME NEW t \in Task,
             Declines(t) \/ ReadsForm(t) \/ PourFails(t) \/ Replies(t)
      PROVE  RouteInv'
    BY <1>2 DEF Declines, ReadsForm, PourFails, Replies, Goes, Returns, RouteInv,
       Route, Inv, ClientTypeOK
<1>3. ASSUME NEW t \in Task, Blocks(t) \/ Broadcasts(t) PROVE RouteInv'
    BY <1>3 DEF Blocks, Broadcasts, Goes, clientVars, client, RouteInv, Route, Inv,
       ClientTypeOK
<1>4. ASSUME NEW t \in Task, NEW tree \in Detail, Pours(t, tree) PROVE RouteInv'
    BY <1>4 DEF Pours, Goes, Mutate, RouteInv, Route, Inv, ClientTypeOK
<1>5. ASSUME NEW t \in Task, Renames(t) PROVE RouteInv'
    BY <1>5 DEF Renames, Goes, Mutate, RouteInv, Route, Inv, ClientTypeOK
<1>6. ASSUME NEW t \in Task, RefreshesUnnamed(t) \/ RefreshesRenamed(t)
      PROVE  RouteInv'
    BY <1>6 DEF RefreshesUnnamed, RefreshesRenamed, Refreshes, Goes, List, RouteInv,
       Route, Inv, ClientTypeOK
<1>7. ASSUME NEW t \in Task, OtherStep(t) PROVE RouteInv'
  <2>1. route[t] = "idle" /\ route' = route /\ poured' = poured
      BY <1>7 DEF OtherStep
  <2> QED BY <1>7, <2>1, OthersKeepTask DEF RouteInv, Inv
<1>8. ASSUME NEW t \in Task, Subprocess(t) PROVE RouteInv'
    BY <1>8, SubprocessKeepsTasks DEF RouteInv
<1>9. ASSUME NEW k \in Key, Outside(k) PROVE RouteInv'
    BY <1>9 DEF Outside, AgentWrites, Expires, client, RouteInv
<1>10. CASE UNCHANGED pourVars
    BY <1>10 DEF pourVars, clientVars, client, RouteInv
<1> QED
    BY <1>1, <1>2, <1>3, <1>4, <1>5, <1>6, <1>7, <1>8, <1>9, <1>10
    DEF PourNext, PourStep

LEMMA ListedStep ==
    Inv /\ Inv' /\ RouteInv /\ ListedInv /\ [PourNext]_pourVars => ListedInv'
<1> SUFFICES ASSUME Inv, Inv', RouteInv, ListedInv, [PourNext]_pourVars,
                    NEW u \in Task, route'[u] \in {"refresh", "told"}
             PROVE  /\ poured'[u] <= known'[key'[u]]
                    /\ pc'[u] = "saved" => poured'[u] <= listed'[key'[u]]
    BY DEF ListedInv
<1> DEFINE Told == /\ poured'[u] <= known'[key'[u]]
                   /\ pc'[u] = "saved" => poured'[u] <= listed'[key'[u]]
<1>1. [ClientNext]_clientVars
    BY PourUsesClient DEF Inv
<1>2. \A k \in Key : known[k] <= known'[k] /\ listed[k] <= listed'[k]
    BY <1>1, NothingUnlearnt
<1>3. /\ key[u] \in Key /\ poured[u] \in Nat
      /\ \A k \in Key : /\ known[k] \in Nat /\ known'[k] \in Nat
                        /\ listed[k] \in Nat /\ listed'[k] \in Nat
    BY DEF Inv, ClientTypeOK, RouteInv
\* A step that leaves the task at its route, and does not end its refresh.
<1>4. ASSUME route[u] \in {"refresh", "told"}, key'[u] = key[u],
             poured'[u] = poured[u], pc'[u] = "saved" => pc[u] = "saved"
      PROVE  Told
    BY <1>2, <1>3, <1>4 DEF ListedInv
<1>5. ASSUME NEW t \in Task, PourStep(t), t # u PROVE Told
  <2>1. /\ route'[u] = route[u] /\ poured'[u] = poured[u] /\ key'[u] = key[u]
        /\ pc'[u] = pc[u]
      BY <1>5 DEF PourStep, Asks, Declines, ReadsForm, Blocks, Pours, PourFails,
         Renames, RefreshesUnnamed, RefreshesRenamed, Refreshes, Broadcasts,
         Replies, Goes, Fetch, Returns, Mutate, List, clientVars, client,
         RouteInv, Inv, ClientTypeOK
  <2> QED BY <1>4, <2>1
<1>6. ASSUME PourStep(u) PROVE Told
  <2>1. CASE RefreshesUnnamed(u) \/ RefreshesRenamed(u)
    <3>1. /\ poured'[u] = known[key[u]] /\ pc'[u] = "queued" /\ key' = key
        BY <2>1 DEF RefreshesUnnamed, RefreshesRenamed, Refreshes, List, RouteInv,
           Inv, ClientTypeOK
    <3> QED BY <1>2, <1>3, <3>1
  <2>2. CASE Broadcasts(u)
    <3>1. /\ route[u] = "refresh" /\ UNCHANGED <<clientVars, poured>>
        BY <2>2 DEF Broadcasts, Goes
    <3> QED BY <1>4, <3>1 DEF clientVars, client
  <2>3. ASSUME Asks(u) \/ Declines(u) \/ ReadsForm(u) \/ Blocks(u) \/ PourFails(u)
               \/ Renames(u) \/ Replies(u) \/ \E tree \in Detail : Pours(u, tree)
        PROVE  FALSE
      BY <2>3 DEF Asks, Declines, ReadsForm, Blocks, PourFails, Renames, Replies,
         Pours, Goes, RouteInv
  <2> QED BY <1>6, <2>1, <2>2, <2>3 DEF PourStep
<1>7. ASSUME NEW t \in Task, OtherStep(t) PROVE Told
  <2>1. route[t] = "idle" /\ route' = route /\ poured' = poured
      BY <1>7 DEF OtherStep
  <2>2. kind'[u] = kind[u] /\ key'[u] = key[u] /\ pc'[u] = pc[u]
      BY <1>7, <2>1, OthersKeepTask DEF Inv
  <2> QED BY <1>4, <2>1, <2>2
<1>8. ASSUME NEW t \in Task, Subprocess(t) PROVE Told
  <2>1. kind' = kind /\ key' = key /\ route' = route /\ poured' = poured
      BY <1>8, SubprocessKeepsTasks
  <2>2. kind[u] = "list" /\ key[u] \in Detail
      BY <2>1 DEF RouteInv
  <2>3. CASE ListSucceeds(t) /\ t = u
    <3>1. listed'[key[u]] = got[u][key[u]] /\ got[u][key[u]] \in Nat
        BY <1>3, <2>2, <2>3 DEF ListSucceeds, Inv, ClientTypeOK
    <3>2. known[key[u]] <= got[u][key[u]]
        BY <2>2, <2>3 DEF ListSucceeds, Inv, KnownInv, Covered
    <3>3. poured[u] <= known[key[u]]
        BY <2>1 DEF ListedInv
    <3> QED BY <1>2, <1>3, <2>1, <3>1, <3>2, <3>3
  <2>4. CASE ~(ListSucceeds(t) /\ t = u)
    <3>1. pc'[u] = "saved" => pc[u] = "saved"
        BY <1>8, <2>2, <2>4 DEF Subprocess, SubprocessEnds, EntersGate, LooksUp,
           Commits, ReadSucceeds, ReadFails, ReadReturns, MutateSucceeds,
           MutateFails, ListSucceeds, ListFails, FetchEnds, Inv, ClientTypeOK
    <3> QED BY <1>4, <2>1, <3>1
  <2> QED BY <2>3, <2>4
<1>9. ASSUME NEW k \in Key, Outside(k) PROVE Told
  <2>1. /\ route' = route /\ poured' = poured /\ key' = key /\ pc' = pc
      BY <1>9 DEF Outside, AgentWrites, Expires, client
  <2> QED BY <1>4, <2>1
<1>10. CASE UNCHANGED pourVars
  <2>1. /\ route' = route /\ poured' = poured /\ key' = key /\ pc' = pc
      BY <1>10 DEF pourVars, clientVars, client
  <2> QED BY <1>4, <2>1
<1> QED BY <1>5, <1>6, <1>7, <1>8, <1>9, <1>10 DEF PourNext

--------------------------------------------------------------------------------
(* The theorems                                                             *)

(* What a pour relies on: the client's invariant, and where it stands.       *)
THEOREM PourInvHolds == PourSpec => []PourInv
<1>1. PourInit => PourInv
  <2>1. PourInit => Inv
      BY InvInit DEF PourInit
  <2>2. PourInit => RouteInv /\ ListedInv
      BY DEF PourInit, RouteInv, ListedInv, Route
  <2> QED BY <2>1, <2>2 DEF PourInv
<1>2. PourInv /\ [PourNext]_pourVars => PourInv'
  <2> SUFFICES ASSUME PourInv, [PourNext]_pourVars PROVE PourInv'
      OBVIOUS
  <2>1. Inv'
      BY PourUsesClient, InvStep DEF PourInv, Inv
  <2> QED BY <2>1, RouteStep, ListedStep DEF PourInv
<1> QED BY <1>1, <1>2, PTL DEF PourSpec

(* When the tabs are told of a pour whose refresh succeeded, the lists they   *)
(* fetch hold the tree at least as new as the process had been told of it.    *)
THEOREM ToldIsListedHolds == PourSpec => []ToldIsListed
<1>1. PourInv => ToldIsListed
    BY DEF PourInv, ListedInv, ToldIsListed
<1> QED BY <1>1, PourInvHolds, PTL
================================================================================
