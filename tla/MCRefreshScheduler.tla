------------------------- MODULE MCRefreshScheduler -------------------------
(* RefreshScheduler with three task slots: one live settle and two that were *)
(* cancelled and have not run since.                                         *)
EXTENDS RefreshScheduler

CONSTANTS t1, t2, t3

MCTask == {t1, t2, t3}
=============================================================================
