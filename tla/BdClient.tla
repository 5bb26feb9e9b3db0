-------------------------------- MODULE BdClient --------------------------------
(***************************************************************************)
(* BdClient of src/bdboard/bd.py: the gate that runs one bd subprocess at a *)
(* time, the TTL caches of details and memories, the reads in flight that   *)
(* later requests join, and the mutations that drop cached entries.         *)
(*                                                                          *)
(* A value is the version of a key it was read at; what bd prints for it is *)
(* left out.  Each method is cut where it waits: for the gate, and for the  *)
(* subprocess, which touches the database at one moment of its run.         *)
(* Leaving the gate, storing the value and answering the requests that      *)
(* joined happen without an await and are one step.                         *)
(***************************************************************************)
EXTENDS Naturals, FiniteSetsExt

CONSTANTS
    Task,       \* coroutines that call the client
    Detail,     \* keys of the show, history and status caches
    Memory,     \* keys of the memories cache: search terms
    None,       \* no entry, no holder, nothing read
    Failed,     \* the value of an error entry
    MaxWrites   \* bound: how often each key is written

Key == Detail \cup Memory
Version == Nat

ASSUME BdClientAssumption ==
    /\ MaxWrites \in [Key -> Nat]
    /\ Detail # {}
    /\ Detail \cap Memory = {}
    /\ None \notin Task \cup Nat
    /\ Failed \notin Nat \cup {None}

VARIABLES
    db,         \* the newest version of each key
    cached,     \* the caches: None is an entry that is absent or expired
    inflight,   \* _inflight: the task whose future the others await
    gate,       \* who is inside _subprocess_gate
    pc,         \* where each task stands
    kind,       \* what it runs: a cached read, a mutation, the store's bd list,
                \* or a fetch that no cache holds
    key,        \* on which key
    got,        \* the versions its subprocess found or left in the database
    answer,     \* what its last read returned
    listed,     \* the versions the store's lists hold
    known,      \* (history) the newest version this process was ever told of
    floor       \* (history) known when the task's last read was requested

client == <<cached, inflight, gate, pc, kind, key, got, answer, listed>>
clientHistory == <<known, floor>>
clientVars == <<db, client, clientHistory>>

Pc == {"idle", "joined", "queued", "running", "answered", "saved", "raised"}
Kind == {"read", "mutate", "list", "fetch"}

NoKey == CHOOSE k \in Key : TRUE

ClientInit ==
    /\ db = [k \in Key |-> 0]
    /\ cached = [k \in Key |-> None]
    /\ inflight = [k \in Key |-> None]
    /\ gate = None
    /\ pc = [t \in Task |-> "idle"]
    /\ kind = [t \in Task |-> "read"]
    /\ key = [t \in Task |-> NoKey]
    /\ got = [t \in Task |-> None]
    /\ answer = [t \in Task |-> None]
    /\ listed = db
    /\ known = db
    /\ floor = [t \in Task |-> 0]

--------------------------------------------------------------------------------
(* Reads: _cached, show_long, history, memories.                            *)

\* A request for k looks into the cache, after show_long(fresh=True) has
\* dropped the entry.
Requests(t, k, fresh) ==
    /\ pc[t] \in {"idle", "saved"}
    /\ fresh => k \in Detail
    /\ kind' = [kind EXCEPT ![t] = "read"]
    /\ key' = [key EXCEPT ![t] = k]
    /\ floor' = [floor EXCEPT ![t] = known[k]]
    /\ cached' = IF fresh THEN [cached EXCEPT ![k] = None] ELSE cached
    /\ UNCHANGED <<db, gate, got, listed, known>>

ReadServed(t, k) ==
    /\ Requests(t, k, FALSE)
    /\ cached[k] # None
    /\ answer' = [answer EXCEPT ![t] = cached[k]]
    /\ pc' = [pc EXCEPT ![t] = "answered"]
    /\ UNCHANGED inflight

ReadJoins(t, k, fresh) ==
    /\ Requests(t, k, fresh)
    /\ cached'[k] = None
    /\ inflight[k] # None
    /\ pc' = [pc EXCEPT ![t] = "joined"]
    /\ UNCHANGED <<inflight, answer>>

\* A read of its own beside one that is in flight.
ReadOwnsAgain(t, k, fresh) ==
    /\ Requests(t, k, fresh)
    /\ cached'[k] = None
    /\ inflight' = [inflight EXCEPT ![k] = t]
    /\ pc' = [pc EXCEPT ![t] = "queued"]
    /\ UNCHANGED answer

ReadOwns(t, k, fresh) ==
    /\ Requests(t, k, fresh)
    /\ cached'[k] = None
    /\ inflight[k] = None
    /\ inflight' = [inflight EXCEPT ![k] = t]
    /\ pc' = [pc EXCEPT ![t] = "queued"]
    /\ UNCHANGED answer

Read(t, k, fresh) ==
    \/ ~fresh /\ ReadServed(t, k)
    \/ ReadJoins(t, k, fresh)
    \/ ReadOwns(t, k, fresh)

--------------------------------------------------------------------------------
(* Subprocesses: _run_json and _run_mutate.                                 *)

\* remember, forget and pour; update_field after the route has read the bead;
\* the rename of what was poured.
Mutate(t, k) ==
    /\ \/ pc[t] = "idle"
       \/ pc[t] = "answered" /\ k = key[t] /\ k \in Detail
       \/ pc[t] = "saved" /\ kind[t] = "mutate" /\ k = key[t] /\ k \in Detail
    /\ pc' = [pc EXCEPT ![t] = "queued"]
    /\ kind' = [kind EXCEPT ![t] = "mutate"]
    /\ key' = [key EXCEPT ![t] = k]
    /\ UNCHANGED <<db, cached, inflight, gate, got, answer, listed, clientHistory>>

\* Store.refresh(), by the watcher or by a route that wrote, one at a time under
\* the store's lock; the last of its lists stands for all, since the caches are
\* dropped in the step that follows it.
List(t) ==
    /\ pc[t] = "idle" \/ (pc[t] \in {"saved", "raised"} /\ kind[t] = "mutate")
    /\ \A u \in Task : kind[u] = "list" => pc[u] \notin {"queued", "running"}
    /\ pc' = [pc EXCEPT ![t] = "queued"]
    /\ kind' = [kind EXCEPT ![t] = "list"]
    /\ UNCHANGED <<db, cached, inflight, gate, key, got, answer, listed,
                   clientHistory>>

\* list_formulas, list_gates, list_merge_slots, mol_progress, the swarm views.
Fetch(t) ==
    /\ pc[t] = "idle"
    /\ pc' = [pc EXCEPT ![t] = "queued"]
    /\ kind' = [kind EXCEPT ![t] = "fetch"]
    /\ UNCHANGED <<db, cached, inflight, gate, key, got, answer, listed,
                   clientHistory>>

\* A mutation that runs without the gate.
EntersGateUnlessWrite(t) ==
    /\ pc[t] = "queued"
    /\ kind[t] # "mutate" => gate = None
    /\ gate' = IF kind[t] = "mutate" THEN gate ELSE t
    /\ pc' = [pc EXCEPT ![t] = "running"]
    /\ UNCHANGED <<db, cached, inflight, kind, key, got, answer, listed,
                   clientHistory>>

EntersGate(t) ==
    /\ pc[t] = "queued"
    /\ gate = None
    /\ gate' = t
    /\ pc' = [pc EXCEPT ![t] = "running"]
    /\ UNCHANGED <<db, cached, inflight, kind, key, got, answer, listed,
                   clientHistory>>

\* The keys its subprocess reads or writes, and what it sees of them.
Covered(t) == IF kind[t] = "list" THEN Detail ELSE {key[t]}
Seen(t, versions) == [k \in Key |-> IF k \in Covered(t) THEN versions[k] ELSE 0]

LooksUp(t) ==
    /\ pc[t] = "running"
    /\ kind[t] \in {"read", "list"}
    /\ got[t] = None
    /\ got' = [got EXCEPT ![t] = Seen(t, db)]
    /\ UNCHANGED <<db, cached, inflight, gate, pc, kind, key, answer, listed,
                   clientHistory>>

Commits(t) ==
    /\ pc[t] = "running"
    /\ kind[t] = "mutate"
    /\ got[t] = None
    /\ db[key[t]] < MaxWrites[key[t]]
    /\ db' = [db EXCEPT ![key[t]] = @ + 1]
    /\ got' = [got EXCEPT ![t] = Seen(t, db')]
    /\ UNCHANGED <<cached, inflight, gate, pc, kind, key, answer, listed,
                   clientHistory>>

LeavesGate(t) ==
    /\ pc[t] = "running"
    /\ gate' = IF gate = t THEN None ELSE gate
    /\ got' = [got EXCEPT ![t] = None]

--------------------------------------------------------------------------------
(* What follows the subprocess.                                             *)

Waiting(t) == {t} \cup {u \in Task : pc[u] = "joined" /\ key[u] = key[t]}

\* The owner stores the outcome, also an error, and resolves the future.
ReadReturns(t, value) ==
    /\ LeavesGate(t)
    /\ cached' = [cached EXCEPT ![key[t]] = value]
    /\ inflight' = [inflight EXCEPT ![key[t]] = None]
    /\ answer' = [u \in Task |-> IF u \in Waiting(t) THEN value ELSE answer[u]]
    /\ pc' = [u \in Task |-> IF u \in Waiting(t) THEN "answered" ELSE pc[u]]
    /\ UNCHANGED <<db, kind, key, listed, clientHistory>>

ReadSucceeds(t) ==
    /\ kind[t] = "read"
    /\ got[t] # None
    /\ ReadReturns(t, got[t][key[t]])

\* A failure that resolves nobody's future.
ReadFailsAlone(t) ==
    /\ kind[t] = "read"
    /\ LeavesGate(t)
    /\ cached' = [cached EXCEPT ![key[t]] = Failed]
    /\ inflight' = [inflight EXCEPT ![key[t]] = None]
    /\ answer' = [answer EXCEPT ![t] = Failed]
    /\ pc' = [pc EXCEPT ![t] = "answered"]
    /\ UNCHANGED <<db, kind, key, listed, clientHistory>>

\* A non-zero exit, a timeout or malformed JSON.
ReadFails(t) ==
    /\ kind[t] = "read"
    /\ ReadReturns(t, Failed)

\* A write to a bead that drops the memories only.
DroppedMemoriesOnly(k) == Memory

\* What a write to k drops: everything, or the memories only.
Dropped(k) == IF k \in Detail THEN Key ELSE Memory

Without(keys) == [k \in Key |-> IF k \in keys THEN None ELSE cached[k]]

MutateSucceeds(t) ==
    /\ kind[t] = "mutate"
    /\ got[t] # None
    /\ LeavesGate(t)
    /\ cached' = Without(Dropped(key[t]))
    /\ known' = [known EXCEPT ![key[t]] = Max({@, got[t][key[t]]})]
    /\ pc' = [pc EXCEPT ![t] = "saved"]
    /\ UNCHANGED <<db, inflight, kind, key, answer, listed, floor>>

\* bd refuses, or the timeout kills it before or after the commit.
MutateFails(t) ==
    /\ kind[t] = "mutate"
    /\ LeavesGate(t)
    /\ pc' = [pc EXCEPT ![t] = "raised"]
    /\ UNCHANGED <<db, cached, inflight, kind, key, answer, listed, clientHistory>>

\* The store compares the lists and drops the caches when they changed;
\* memories are in no list.
ListSucceeds(t) ==
    /\ kind[t] = "list"
    /\ got[t] # None
    /\ LeavesGate(t)
    /\ cached' = IF \E k \in Detail : listed[k] # got[t][k]
                 THEN Without(Key) ELSE cached
    /\ listed' = [k \in Key |-> IF k \in Detail THEN got[t][k] ELSE listed[k]]
    /\ known' = [k \in Key |-> Max({known[k], listed'[k]})]
    /\ pc' = [pc EXCEPT ![t] = "saved"]
    /\ UNCHANGED <<db, inflight, kind, key, answer, floor>>

\* bd list raises: the store keeps its lists.
ListFails(t) ==
    /\ kind[t] = "list"
    /\ LeavesGate(t)
    /\ pc' = [pc EXCEPT ![t] = "raised"]
    /\ UNCHANGED <<db, cached, inflight, kind, key, answer, listed, clientHistory>>

\* What a fetch prints goes to the route, and so does its error.
FetchEnds(t) ==
    /\ kind[t] = "fetch"
    /\ LeavesGate(t)
    /\ \E end \in {"saved", "raised"} : pc' = [pc EXCEPT ![t] = end]
    /\ UNCHANGED <<db, cached, inflight, kind, key, answer, listed, clientHistory>>

\* SUCCESS_TTL_S or ERROR_TTL_S elapses.
Expires(k) ==
    /\ cached[k] # None
    /\ cached' = [cached EXCEPT ![k] = None]
    /\ UNCHANGED <<db, inflight, gate, pc, kind, key, got, answer, listed,
                   clientHistory>>

\* Another process writes; it does not queue at this process's gate.
AgentWrites(k) ==
    /\ db[k] < MaxWrites[k]
    /\ db' = [db EXCEPT ![k] = @ + 1]
    /\ UNCHANGED <<client, clientHistory>>

\* The caller takes the outcome and is done.
Returns(t) ==
    /\ pc[t] \in {"answered", "saved", "raised"}
    /\ pc' = [pc EXCEPT ![t] = "idle"]
    /\ kind' = [kind EXCEPT ![t] = "read"]
    /\ key' = [key EXCEPT ![t] = NoKey]
    /\ answer' = [answer EXCEPT ![t] = None]
    /\ floor' = [floor EXCEPT ![t] = 0]
    /\ UNCHANGED <<db, cached, inflight, gate, got, listed, known>>

\* The route that wrote reads the same key back to render it.
ReadsBack(t) == pc[t] = "saved" /\ kind[t] = "mutate" /\ Read(t, key[t], FALSE)

SubprocessEnds(t) ==
    \/ ReadSucceeds(t) \/ ReadFails(t)
    \/ MutateSucceeds(t) \/ MutateFails(t)
    \/ ListSucceeds(t) \/ ListFails(t)
    \/ FetchEnds(t)

\* A route asks once and returns, or it writes, perhaps twice, and then reads
\* back what it wrote or has the store refresh.
ClientStep(t) ==
    \/ \E k \in Key, fresh \in BOOLEAN : pc[t] = "idle" /\ Read(t, k, fresh)
    \/ ReadsBack(t)
    \/ \E k \in Key : Mutate(t, k)
    \/ List(t) \/ Fetch(t) \/ Returns(t)
    \/ EntersGate(t) \/ LooksUp(t) \/ Commits(t) \/ SubprocessEnds(t)

ClientNext ==
    \/ \E t \in Task : ClientStep(t)
    \/ \E k \in Key : AgentWrites(k) \/ Expires(k)

ClientSpec == ClientInit /\ [][ClientNext]_clientVars

\* The gate is FIFO, and every subprocess ends or is killed.
ClientFairSpec ==
    /\ ClientSpec
    /\ \A t \in Task :
        SF_clientVars(EntersGate(t)) /\ WF_clientVars(SubprocessEnds(t))

--------------------------------------------------------------------------------
(* Properties.                                                              *)

Maybe(S) == S \cup {None}

ClientTypeOK ==
    /\ db \in [Key -> Version]
    /\ cached \in [Key -> Version \cup {None, Failed}]
    /\ inflight \in [Key -> Maybe(Task)]
    /\ gate \in Maybe(Task)
    /\ pc \in [Task -> Pc]
    /\ kind \in [Task -> Kind]
    /\ key \in [Task -> Key]
    /\ got \in [Task -> Maybe([Key -> Version])]
    /\ answer \in [Task -> Version \cup {None, Failed}]
    /\ listed \in [Key -> Version]
    /\ known \in [Key -> Version]
    /\ floor \in [Task -> Version]

\* No entry is older than what the process has been told of since, by a write
\* of its own that bd confirmed or by a refresh of the lists: the gate orders
\* every read before or after the write, and the write drops what came before
\* (bd.py:741, 1082).
CacheKeepsUp == \A k \in Key : cached[k] \in Version => known[k] <= cached[k]

\* A request is answered with nothing older than what the process knew when
\* it was made, even when it joined a read that was already in flight
\* (bd.py:653).
AnswersKeepUp ==
    \A t \in Task :
        pc[t] = "answered" /\ answer[t] \in Version => floor[t] <= answer[t]

\* A request that joined waits for a live read of its key, and a read in
\* flight is owned by the one task that runs it: no future is orphaned and no
\* key is read twice at a time (bd.py:650-675).
JoinersHaveAnOwner ==
    /\ \A t \in Task : pc[t] = "joined" => inflight[key[t]] # None
    /\ \A k \in Key : \A t \in Task :
        inflight[k] = t <=> kind[t] = "read" /\ key[t] = k
                            /\ pc[t] \in {"queued", "running"}

\* Every request gets its answer or its error, behind any queue at the gate
\* and in any crowd of joiners (bd.py:598, 653, 675).
EveryRequestAnswered ==
    \A t \in Task :
        pc[t] \in {"joined", "queued"} ~> pc[t] \in {"answered", "saved", "raised"}
================================================================================
