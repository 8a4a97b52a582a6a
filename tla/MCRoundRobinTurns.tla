------------------------- MODULE MCRoundRobinTurns -------------------------
(* Three threads on two levels; the last one stops, starts and admits      *)
(* threads, itself included, while all of them yield and are preempted.    *)
EXTENDS RoundRobinTurns

MCInitialLevel == <<1, 2, 1>>
MCLevels == [t \in Threads |-> MCInitialLevel[t + 1]]
MCMayCall == [t \in Threads |->
  IF t = 2 THEN {"Start", "Stop", "RunLevelSet", "Yield"} ELSE {"Yield"}]
=============================================================================
