-------------------------------- MODULE MCBoard --------------------------------
(* The board of three beads: an epic strip with any graph of blocking edges,  *)
(* and lanes of mixed types with a few links.                                 *)
EXTENDS Hygiene

ThreeBeads == 1..3
FourStatuses == {"absent", "open", "in_progress", "closed"}

AllEpics == <<"epic", "epic", "epic">>
Mixed == {<<"task", "epic", "gate">>, <<"task", "task", "wrapper">>, <<"swarm", "task", "epic">>}

Typings == Mixed \cup {AllEpics}

\* Every graph of blocking edges between three beads, a loop at a bead included.
AnyBlocks == SUBSET {<<b, "blocks", x>> : b, x \in ThreeBeads}
NoLinks == {{}}
================================================================================
