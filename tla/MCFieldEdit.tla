------------------------------ MODULE MCFieldEdit ------------------------------
(* Two tabs, one bead. *)
EXTENDS FieldEdit

CONSTANTS t1, t2, b1

TwoTabs == {t1, t2}
OneBead == {b1}
NoMemory == {}
Twice == [k \in Key |-> 2]
================================================================================
