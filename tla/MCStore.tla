-------------------------------- MODULE MCStore --------------------------------
(* Store with two coroutines and one bead, whose row both lists can hold.     *)
EXTENDS Store, TLC

CONSTANTS b1, t1, t2, d1

OneBead == {b1}
TwoTasks == {t1, t2}
OneDb == {d1}

\* The coroutines are interchangeable, and no run of this module checks liveness.
TaskSymmetry == Permutations(TwoTasks)

\* The manifest of the one database can be read, or is being rotated.
AnyManifest == {OneDb, {}}
================================================================================
