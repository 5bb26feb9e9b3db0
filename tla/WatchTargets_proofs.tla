--------------------------- MODULE WatchTargets_proofs ---------------------------
(***************************************************************************)
(* Theorems about WatchTargets: type correctness, that an unchanged         *)
(* signature vouches for the watch, and that what was heard is on its way.  *)
(***************************************************************************)
EXTENDS WatchTargets, TLAPS

\* No directory is newer than the last change, so a new one differs from every
\* directory of the baseline.
Newest ==
    \A p \in Path : inode[p] <= changes + 1 /\ baseline[p] <= changes + 1

WatchInv == WatchTypeOK /\ Newest /\ SignatureVouches /\ HeardIsPending

USE WatchAssumption

\* The steps of the file system.
LEMMA MovesKeeps ==
    ASSUME WatchInv, NEW p \in Path, NEW dir \in {0, Fresh}, Moves(p, dir)
    PROVE  WatchInv'
<1> USE DEF WatchInv
<1>1. /\ WatchTypeOK /\ Newest /\ SignatureVouches /\ HeardIsPending
      /\ changes \in Nat /\ changes < MaxChanges /\ changes' = changes + 1
      /\ inode' = [inode EXCEPT ![p] = dir]
      /\ armed' = armed \ {p}
      /\ UNCHANGED <<writes, loop, heard, contractVars>>
    BY DEF Moves, WatchTypeOK
<1>2. batch' \in BOOLEAN /\ (batch => batch')
    BY <1>1 DEF Moves, MayReport, WatchTypeOK
<1>3. late' \subseteq Path
    BY <1>1 DEF Moves, WatchTypeOK
<1>4. dir \in 0..changes' + 1 /\ dir \in 0..MaxChanges + 1
    BY <1>1 DEF Fresh
<1>5. WatchTypeOK'
  <2>1. inode' \in [Path -> 0..MaxChanges + 1]
      BY <1>1, <1>4 DEF WatchTypeOK
  <2> QED
      BY <1>1, <1>2, <1>3, <2>1
         DEF WatchTypeOK, loop, contractVars, Pc, Outcome
<1>6. Newest'
    BY <1>1, <1>4 DEF Newest, WatchTypeOK, loop
<1>7. SignatureVouches'
  <2> SUFFICES ASSUME pc' = "watching", NEW q \in targets' \cap Present',
                      inode'[q] = baseline'[q]
               PROVE  q \in armed'
      BY DEF SignatureVouches, Signature
  <2>1. pc = "watching" /\ q \in targets /\ baseline'[q] = baseline[q] /\ q \in Path
      BY <1>1 DEF loop, WatchTypeOK
  <2>2. q # p
    <3> SUFFICES ASSUME q = p
                 PROVE  FALSE
        OBVIOUS
    <3>1. inode'[p] = dir /\ dir # 0
        BY <1>1, <2>1 DEF WatchTypeOK, Present
    <3>2. baseline[p] <= changes + 1 /\ baseline[p] \in Nat
        BY <1>1 DEF Newest, WatchTypeOK
    <3> QED
        BY <1>1, <2>1, <3>1, <3>2 DEF Fresh
  <2>3. inode'[q] = inode[q]
      BY <1>1, <2>1, <2>2 DEF WatchTypeOK
  <2> QED
      BY <1>1, <2>1, <2>2, <2>3 DEF SignatureVouches, Signature, Present
<1>8. HeardIsPending'
    BY <1>1, <1>2 DEF HeardIsPending, contractVars
<1> QED
    BY <1>5, <1>6, <1>7, <1>8

LEMMA WritesKeeps ==
    ASSUME WatchInv, NEW p \in Path, Writes(p)
    PROVE  WatchInv'
<1> USE DEF WatchInv
<1>1. WatchTypeOK'
    BY DEF Writes, WatchTypeOK, loop, contractVars, Pc, Outcome
<1>2. Newest' /\ SignatureVouches'
    BY DEF Writes, Newest, SignatureVouches, Signature, Present, loop
<1>3. HeardIsPending'
    BY DEF Writes, HeardIsPending, WatchTypeOK, contractVars
<1> QED
    BY <1>1, <1>2, <1>3

\* The steps of the watcher.
LEMMA LoopKeeps ==
    ASSUME WatchInv, Watcher \/ Crashes
    PROVE  WatchInv'
<1> USE DEF WatchInv
<1> USE DEF files, contractVars
<1>1. CASE Lists \/ NothingToWatch \/ Wakes \/ RescanStops
    BY <1>1 DEF Lists, NothingToWatch, Wakes, RescanStops, WatchTypeOK, Newest,
                SignatureVouches, Signature, HeardIsPending, Pc, Present, Outcome
<1>2. CASE Signs
    BY <1>2 DEF Signs, WatchTypeOK, Newest, SignatureVouches, Signature,
                HeardIsPending, Pc, Outcome
<1>3. CASE Arms
    BY <1>3 DEF Arms, WatchTypeOK, Newest, SignatureVouches, Signature,
                HeardIsPending, Pc, Outcome
<1>4. CASE TargetGone \/ Crashes \/ Ends
    BY <1>4 DEF TargetGone, Crashes, Ends, Sleeps, Disarms, WatchTypeOK, Newest,
                SignatureVouches, Signature, HeardIsPending, Pc, Outcome
<1> QED
    BY <1>1, <1>2, <1>3, <1>4 DEF Watcher

\* The steps that set the scheduler's latch, and the pass.
LEMMA LatchKeeps ==
    ASSUME WatchInv, Yields \/ Passes \/ PassReturns
    PROVE  WatchInv'
<1> USE DEF WatchInv
<1>1. /\ UNCHANGED <<files, loop, armed, late>>
      /\ batch' \in BOOLEAN /\ heard' \in SUBSET Path
      /\ notified' \in Nat /\ owed' \in BOOLEAN /\ running' \in BOOLEAN
      /\ outcome' \in Outcome
  <2>1. CASE Yields
    <3>1. notified' \in Nat
        BY <2>1 DEF Yields, Notified, WatchTypeOK
    <3> QED
        BY <2>1, <3>1 DEF Yields, Notified, WatchTypeOK, loop, files
  <2>2. CASE Passes
      BY <2>2 DEF Passes, PassStarts, WatchTypeOK, loop, files
  <2>3. CASE PassReturns
      BY <2>3 DEF PassReturns, PassEnds, WatchTypeOK, loop, files, Outcome
  <2> QED
      BY <2>1, <2>2, <2>3
<1>2. WatchTypeOK' /\ Newest' /\ SignatureVouches'
    BY <1>1 DEF WatchTypeOK, Newest, SignatureVouches, Signature, Present, files, loop
<1>3. HeardIsPending'
    BY DEF Yields, Passes, PassReturns, Notified, PassStarts, PassEnds, HeardIsPending
<1> QED
    BY <1>2, <1>3

LEMMA WatchInvHolds == WatchSpec => []WatchInv
<1>1. WatchInit => WatchInv
  <2> SUFFICES ASSUME WatchInit
               PROVE  WatchInv
      OBVIOUS
  <2>1. /\ inode \in [Path -> 0..MaxChanges + 1]
        /\ baseline \in [Path -> 0..MaxChanges + 1]
      BY DEF WatchInit
  <2>1a. changes \in 0..MaxChanges /\ writes \in 0..MaxWrites /\ notified \in Nat
      BY DEF WatchInit, ContractInit
  <2>2. WatchTypeOK
      BY <2>1, <2>1a DEF WatchInit, ContractInit, WatchTypeOK, Pc, Outcome
  <2>3. Newest
      BY DEF WatchInit, Newest
  <2>4. SignatureVouches /\ HeardIsPending
      BY DEF WatchInit, SignatureVouches, HeardIsPending
  <2> QED
      BY <2>2, <2>3, <2>4 DEF WatchInv
<1>2. WatchInv /\ [WatchNext]_watchVars => WatchInv'
  <2> SUFFICES ASSUME WatchInv, [WatchNext]_watchVars
               PROVE  WatchInv'
      OBVIOUS
  <2>1. CASE FilesMove
    <3>1. ASSUME NEW p \in Path, Creates(p) \/ Replaces(p) \/ Deletes(p)
          PROVE  WatchInv'
        BY <3>1, MovesKeeps DEF Creates, Replaces, Deletes
    <3> QED
        BY <2>1, <3>1, WritesKeeps DEF FilesMove
  <2>2. CASE UNCHANGED watchVars
      BY <2>2 DEF watchVars, files, loop, contractVars, WatchInv, WatchTypeOK, Newest,
                  SignatureVouches, Signature, Present, HeardIsPending
  <2> QED
      BY <2>1, <2>2, LoopKeeps, LatchKeeps DEF WatchNext
<1> QED
    BY <1>1, <1>2, PTL DEF WatchSpec

--------------------------------------------------------------------------------
\* The watcher's state stays well-typed: one inode number or none for every
\* path, in the file system and in the baseline.
THEOREM TypeCorrect == WatchSpec => []WatchTypeOK
<1>1. WatchInv => WatchTypeOK
    BY DEF WatchInv
<1> QED
    BY <1>1, WatchInvHolds, PTL

\* A listed directory the rescan finds as it was is one the kernel still watches,
\* for any number of databases and any moves of directories (app.py:450-461).
THEOREM SignatureVouchesHolds == WatchSpec => []SignatureVouches
<1>1. WatchInv => SignatureVouches
    BY DEF WatchInv
<1> QED
    BY <1>1, WatchInvHolds, PTL

\* No write in a watched directory is forgotten between awatch, notify() and
\* the pass that starts after it (app.py:461-462).
THEOREM HeardIsPendingHolds == WatchSpec => []HeardIsPending
<1>1. WatchInv => HeardIsPending
    BY DEF WatchInv
<1> QED
    BY <1>1, WatchInvHolds, PTL
================================================================================
