----------------------------- MODULE MCHistoryPage -----------------------------
(* Three beads on two days, pages of one and two, the range of one day and all;
   the derivations on sets of up to three of these beads.                     *)
EXTENDS HistoryPage

CONSTANTS All, OneDay

TwoPresets == {All, OneDay}
Lengths == [p \in TwoPresets |-> IF p = All THEN None ELSE 4]

\* All open, all closed at different times, two at the same time, one reopened.
Closings ==
    {<<None, None, None>>, <<0, 3, 5>>, <<5, 5, 1>>, <<4, None, 0>>}

Sample ==
    {[id |-> 1, closed |-> TRUE, createdAt |-> 0, startedAt |-> 3, closedAt |-> 9],
     [id |-> 2, closed |-> TRUE, createdAt |-> 3, startedAt |-> None, closedAt |-> 4],
     [id |-> 3, closed |-> TRUE, createdAt |-> 4, startedAt |-> 4, closedAt |-> 4],
     [id |-> 4, closed |-> TRUE, createdAt |-> 9, startedAt |-> 3, closedAt |-> 4],
     [id |-> 5, closed |-> TRUE, createdAt |-> None, startedAt |-> 0, closedAt |-> 7],
     [id |-> 6, closed |-> TRUE, createdAt |-> 7, startedAt |-> 7, closedAt |-> None],
     [id |-> 7, closed |-> FALSE, createdAt |-> 0, startedAt |-> None, closedAt |-> None],
     [id |-> 7, closed |-> TRUE, createdAt |-> 0, startedAt |-> 0, closedAt |-> 3]}

Worlds == UNION {kSubset(n, Sample) : n \in 0..3} \cup {Sample}
Moments == {0, 3, 4, 7, 9}

Logs == UNION {[1..n -> [status: {"none", "open", "closed"}, when: {0, 3, None}]] : n \in 0..4}
================================================================================
