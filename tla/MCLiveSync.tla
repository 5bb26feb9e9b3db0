------------------------------- MODULE MCLiveSync -------------------------------
(* LiveSync with one bead and a handful of panes.                             *)
EXTENDS LiveSync

CONSTANTS b1, a, d1

OneBead == {b1}
OneDb == {d1}
OneTab == {a}
LanesAndCounts == {"lanes", "counts"}
WholeBoard == {"lanes", "closed", "counts"}
PaneTasks == Pane \cup {Watcher}
Readings == {OneDb}
=================================================================================
