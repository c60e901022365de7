--------------------------- MODULE MCLearningFiles ---------------------------
(* A small learning directory: two generations, one of which  needs two    *)
(* entry shards, so that a save can leave stale shards of a larger one, and  *)
(* at most MaxOps opens, saves and resets.                                   *)
EXTENDS LearningFiles
CONSTANTS none, two, MaxOps

MCSnapshots == {none, two}
MCShardCount == [s \in MCSnapshots |-> IF s = two THEN 2 ELSE 1]

VARIABLE ops    \* opens, saves and resets begun

Begins == proc \in {"down", "up"} /\ proc' # proc /\ proc' # "down"

MCInit == Init /\ ops = 0
MCNext == /\ Next
          /\ ops' = IF Begins THEN ops + 1 ELSE ops
          /\ ops' <= MaxOps
MCSpec == MCInit /\ [][MCNext]_<<vars, ops>>
==============================================================================
