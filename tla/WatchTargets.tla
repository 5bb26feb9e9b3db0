------------------------------ MODULE WatchTargets ------------------------------
(***************************************************************************)
(* _watch_beads() and _rescan_targets() of src/bdboard/app.py, with         *)
(* watch_targets() and watch_signature() of src/bdboard/bd.py: which of the *)
(* directories that come, go and are replaced under .beads/ the process     *)
(* listens to, and what becomes of the writes in them.                      *)
(*                                                                          *)
(* A directory is its inode number; the kernel watches the directory and    *)
(* not its path, so a watch dies with it.  Other processes change the file  *)
(* system between any two calls of the loop, also where it does not await.  *)
(* What notify() and refresh() do after an event is RefreshContract's       *)
(* latch, which RefreshScheduler implements; Store.refresh() does not raise.*)
(***************************************************************************)
EXTENDS RefreshContract

CONSTANTS
    Root,        \* .beads/
    Db,          \* the noms/ directories of the dolt databases
    MaxChanges,  \* bound: directories created, replaced or deleted
    MaxWrites    \* bound: writes inside a directory

Path == Db \cup {Root}

ASSUME WatchAssumption ==
    /\ Root \notin Db
    /\ MaxChanges \in Nat
    /\ MaxWrites \in Nat

VARIABLES
    inode,      \* the directory at each path; 0 when there is none
    changes,    \* directories created, replaced or deleted so far
    writes,     \* writes so far
    pc,         \* where _watch_beads stands
    targets,    \* the paths it listed
    baseline,   \* the signature the rescan compares with
    armed,      \* the paths whose present directory the kernel watches
    batch,      \* awatch has changes it did not yield yet
    stop,       \* stop_event
    late,       \* (history) created after the listing, before the baseline
    heard       \* (history) written under the present watch, no pass started since

files == <<inode, changes, writes>>
loop == <<pc, targets, baseline, stop>>
watchVars == <<files, loop, armed, batch, late, heard, contractVars>>

Pc == {"listing", "signing", "arming", "watching", "asleep"}

Present == {p \in Path : inode[p] # 0}

WatchInit ==
    /\ ContractInit
    /\ inode \in [Path -> {0, 1}]
    /\ Present = {} \/ Root \in Present
    /\ changes = 0
    /\ writes = 0
    /\ pc = "listing"
    /\ targets = {}
    /\ baseline = [p \in Path |-> 0]
    /\ armed = {}
    /\ batch = FALSE
    /\ stop = FALSE
    /\ late = {}
    /\ heard = {}

--------------------------------------------------------------------------------
(* The file system.                                                         *)

\* The kernel may report the change to whoever watches a directory beside it.
MayReport == batch' \in IF armed = {} THEN {batch} ELSE {batch, TRUE}

Moves(p, dir) ==
    /\ changes < MaxChanges
    /\ changes' = changes + 1
    /\ inode' = [inode EXCEPT ![p] = dir]
    /\ armed' = armed \ {p}
    /\ MayReport
    /\ late' = IF p \notin targets /\ dir # 0 /\ pc = "signing"
               THEN late \cup {p} ELSE late \ {p}
    /\ UNCHANGED <<writes, loop, heard, contractVars>>

\* A number no directory had before: inode numbers are not reused.
Fresh == changes + 2

Creates(p) ==
    /\ p \notin Present
    /\ p = Root \/ Root \in Present
    /\ Moves(p, Fresh)

\* dolt renames a new noms/ over the old one.
Replaces(p) ==
    /\ p \in Present \ {Root}
    /\ Moves(p, Fresh)

Deletes(p) ==
    /\ p \in Present
    /\ p = Root => Present = {Root}
    /\ Moves(p, 0)

\* A write in a watched directory is an event, any other is none.
Writes(p) ==
    /\ p \in Present
    /\ writes < MaxWrites
    /\ writes' = writes + 1
    /\ batch' = (batch \/ p \in armed)
    /\ heard' = heard \cup ({p} \cap armed)
    /\ UNCHANGED <<inode, changes, loop, armed, late, contractVars>>

--------------------------------------------------------------------------------
(* _watch_beads().                                                          *)

\* For the mutation runs: the paths without their inodes, and device and inode
\* added up to one number.
SignatureOfPaths == [p \in Path |-> IF p \in Present THEN 1 ELSE 0]
SignatureMixed == [p \in Path |-> inode[p] + MaxChanges + 1]

\* watch_signature(): path, device and inode of every target.
Signature == inode

Lists ==
    /\ pc = "listing"
    /\ Present # {}
    /\ pc' = "signing"
    /\ targets' = Present
    /\ late' = {}
    /\ UNCHANGED <<files, baseline, stop, armed, batch, heard, contractVars>>

\* No target: .beads/ is not there yet.
NothingToWatch ==
    /\ pc = "listing"
    /\ Present = {}
    /\ pc' = "asleep"
    /\ targets' = {}
    /\ UNCHANGED <<files, late, baseline, stop, armed, batch, heard, contractVars>>

Signs ==
    /\ pc = "signing"
    /\ pc' = "arming"
    /\ baseline' = Signature
    /\ stop' = FALSE
    /\ UNCHANGED <<files, late, targets, armed, batch, heard, contractVars>>

Arms ==
    /\ pc = "arming"
    /\ targets \subseteq Present
    /\ pc' = "watching"
    /\ armed' = targets
    /\ UNCHANGED <<files, late, targets, baseline, stop, batch, heard, contractVars>>

\* The watch ends and drops what it has not yielded.
Disarms ==
    /\ armed' = {}
    /\ batch' = FALSE
    /\ heard' = {}

\* The rescan is cancelled and the loop sleeps.
Sleeps ==
    /\ pc' = "asleep"
    /\ Disarms
    /\ UNCHANGED <<files, late, targets, baseline, stop, contractVars>>

\* FileNotFoundError: a target is gone.
TargetGone ==
    /\ pc = "arming"
    /\ ~(targets \subseteq Present)
    /\ Sleeps

\* A listing that lost a race, or an error of awatch.
Crashes ==
    /\ pc # "asleep"
    /\ Sleeps

Wakes ==
    /\ pc = "asleep"
    /\ pc' = "listing"
    /\ UNCHANGED <<files, late, targets, baseline, stop, armed, batch, heard, contractVars>>

\* Events are left alone while a pass runs, since its own read causes some.
YieldsUnlessRunning ==
    /\ batch
    /\ batch' = FALSE
    /\ IF running THEN UNCHANGED contractVars ELSE Notified
    /\ UNCHANGED <<files, late, loop, armed, heard>>

\* awatch yields a batch: scheduler.notify().
Yields ==
    /\ batch
    /\ batch' = FALSE
    /\ Notified
    /\ UNCHANGED <<files, late, loop, armed, heard>>

\* _rescan_targets() finds another signature.
RescanStops ==
    /\ pc = "watching"
    /\ ~stop
    /\ Signature # baseline
    /\ stop' = TRUE
    /\ UNCHANGED <<files, late, pc, targets, baseline, armed, batch, heard, contractVars>>

\* The loop goes on with the targets it has.
EndsWithOldTargets ==
    /\ pc = "watching"
    /\ stop
    /\ pc' = "signing"
    /\ Disarms
    /\ UNCHANGED <<files, late, targets, baseline, stop, contractVars>>

\* awatch sees stop_event and the loop lists again.  Nothing is notified.
Ends ==
    /\ pc = "watching"
    /\ stop
    /\ pc' = "listing"
    /\ Disarms
    /\ UNCHANGED <<files, late, targets, baseline, stop, contractVars>>

--------------------------------------------------------------------------------
(* The scheduler and the pass.                                              *)

Passes ==
    /\ PassStarts
    /\ heard' = {}
    /\ UNCHANGED <<files, late, loop, armed, batch>>

PassReturns ==
    /\ PassEnds
    /\ UNCHANGED <<files, late, loop, armed, batch, heard>>

Watcher ==
    \/ Lists \/ NothingToWatch \/ Signs \/ Arms \/ TargetGone \/ Wakes
    \/ RescanStops \/ Ends

FilesMove == \E p \in Path : Creates(p) \/ Replaces(p) \/ Deletes(p) \/ Writes(p)

WatchNext ==
    \/ FilesMove
    \/ Watcher \/ Crashes \/ Yields
    \/ Passes \/ PassReturns

WatchSpec == WatchInit /\ [][WatchNext]_watchVars

\* Timers fire and passes end.  An error may strike again and again, but not
\* every time the loop lists, signs or arms.
WatchFairSpec ==
    /\ WatchSpec
    /\ SF_watchVars(Lists) /\ SF_watchVars(Signs) /\ SF_watchVars(Arms)
    /\ WF_watchVars(NothingToWatch) /\ WF_watchVars(TargetGone) /\ WF_watchVars(Wakes)
    /\ WF_watchVars(RescanStops) /\ WF_watchVars(Ends)
    /\ WF_watchVars(Yields) /\ WF_watchVars(Passes) /\ WF_watchVars(PassReturns)

--------------------------------------------------------------------------------
(* Properties.                                                              *)

WatchTypeOK ==
    /\ inode \in [Path -> 0..MaxChanges + 1]
    /\ changes \in 0..MaxChanges
    /\ writes \in 0..MaxWrites
    /\ pc \in Pc
    /\ targets \subseteq Path
    /\ baseline \in [Path -> 0..MaxChanges + 1]
    /\ armed \subseteq Path
    /\ batch \in BOOLEAN
    /\ stop \in BOOLEAN
    /\ late \subseteq Path
    /\ heard \subseteq Path
    /\ notified \in Nat
    /\ owed \in BOOLEAN
    /\ running \in BOOLEAN
    /\ outcome \in Outcome

\* A listed directory the rescan finds as it was is one the kernel still
\* watches: a watch that died, or was set on another directory, shows in the
\* signature, because the baseline is older than the watch (app.py:450-461,
\* bd.py:202-214).
SignatureVouches ==
    pc = "watching" =>
        \A p \in targets \cap Present : Signature[p] = baseline[p] => p \in armed

Deaf(p) == p \in Present \ armed

\* "so the watch survives noms/ replacement and new-db creation without a process
\* restart" (bd.py:212-214): a directory nobody listens to is listened to at
\* last, or is gone, unless it slipped in between the listing and the baseline
\* (app.py:437, 450).
WatchRecovers == \A p \in Path : Deaf(p) ~> ~Deaf(p) \/ p \in late

\* A write in a watched directory is on its way to a pass as long as none started
\* after it: in the batch awatch is about to yield, or in the scheduler's latch,
\* also while a pass runs (app.py:461-462).
HeardIsPending == heard # {} => batch \/ owed

\* A write in a watched directory reaches a pass that starts after it, also
\* when it falls into a running pass, unless the watch is torn down meanwhile
\* (app.py:461-462).
HeardWritesReachAPass == heard # {} ~> heard = {}
================================================================================
