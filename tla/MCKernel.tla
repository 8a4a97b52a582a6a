------------------------------ MODULE MCKernel ------------------------------
(* Programs for the kernel runs: which thread makes which calls.           *)
EXTENDS Kernel

Levels2 == <<1, 2>>
Levels3 == <<1, 2, 0>>
MCLevels2 == [t \in Threads |-> Levels2[t + 1]]
MCLevels3 == [t \in Threads |-> Levels3[t + 1]]

\* Every call of the interface, from a thread that is not the system.
AnyCall == [t \in Threads |->
  IF t = 0 THEN {"SetInitialized", "RunLevelSet", "SetSTC", "Yield"} ELSE SysCalls]

\* The scheduler's clients: threads that stop, start and yield.
StopAndYield == [t \in Threads |->
  IF t = 0 THEN {"Yield", "RunLevelSet"} ELSE {"Yield", "Start", "Stop", "TimerStop"}]
=============================================================================
