-------------------------- MODULE MCLearningMemory --------------------------
(* Two words of one surface and two readings, one of them in its own clause; *)
(* days, counts and the number of kept records are scaled down so that decay, *)
(* expiry, saturation and truncation all happen within MaxOps operations.     *)
EXTENDS LearningMemory
CONSTANTS word1, word2, MaxOps

MCWords == {word1, word2}
MCRuby == [w \in MCWords |-> IF w = word1 THEN "r1" ELSE "r2"]
MCSurface == [w \in MCWords |-> "s"]
MCClauseBreak == {<<word1, word2>>}
MCCandidates == {<<word1>>, <<word1, word2>>}

VARIABLE ops    \* operations begun

MCInit == Init /\ ops = 0
MCNext == /\ ops < MaxOps /\ ops' = ops + 1
          /\ Next
MCSpec == MCInit /\ [][MCNext]_<<vars, ops>>
=============================================================================
