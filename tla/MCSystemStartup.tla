-------------------------- MODULE MCSystemStartup --------------------------
(* The z600 configuration in small: the system service, a service and a    *)
(* task; the bus, a chatty device and a plain one.                         *)
EXTENDS SystemStartup

MCThreadLevel  == <<1, 3, 4>>
MCInitialLevel == [t \in Threads |-> MCThreadLevel[t + 1]]

\* Driver 3 is a console that main starts, driver 0 the bus.
MCDriverLevelOf   == <<1, 2, 2, 0>>
MCDriverAddressOf == <<NoAddress, 60, 104, NoAddress>>
MCDriverLevel     == [d \in Drivers |-> MCDriverLevelOf[d + 1]]
MCDriverAddress   == [d \in Drivers |-> MCDriverAddressOf[d + 1]]

SystemCalls == {"SetInitialized", "SetSTC", "RunLevelSet", "Yield", "Halt"}

\* Threads that only declare themselves initialized and yield.
Quiet == [t \in Threads |-> IF t = 0 THEN SystemCalls ELSE {"SetInitialized", "Yield"}]

\* The other thread works against the system.
Intruder == [t \in Threads |->
  IF t = 0 THEN SystemCalls
  ELSE {"SetInitialized", "RunLevelSet", "Stop", "TimerStop", "WildWrite"}]

MCCoreLevels == [t \in Threads |-> RL_CORE]
=============================================================================
