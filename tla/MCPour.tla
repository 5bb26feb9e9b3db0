---------------------------------- MODULE MCPour ----------------------------------
(* Two coroutines, one tree of beads and one search of the memories. A tree is *)
(* poured and renamed, so it is written twice.                                 *)
EXTENDS Pour

CONSTANTS t1, t2, b1, m1

TwoTasks == {t1, t2}
OneBead == {b1}
OneMemory == {m1}
TwiceOrOnce == [k \in Key |-> IF k \in Detail THEN 2 ELSE 1]
================================================================================
