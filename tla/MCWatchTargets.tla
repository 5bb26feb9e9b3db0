----------------------------- MODULE MCWatchTargets -----------------------------
(* WatchTargets with .beads/ and one database. *)
EXTENDS WatchTargets

CONSTANTS d1

OneDb == {d1}
=============================================================================
