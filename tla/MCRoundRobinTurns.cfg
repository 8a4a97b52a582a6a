\* Round-robin turns under starts, stops and admissions.
CONSTANTS
  ThreadCount = 3
  LevelCount = 3
  InitialLevel <- MCLevels
  CallsPerSTC = 1
  MaxSTC = 0
  MayCall <- MCMayCall
SPECIFICATION TurnsSpec
\* Stopping every thread leaves the scheduler searching for ever.
CHECK_DEADLOCK FALSE
INVARIANTS NoOvertaking
PROPERTIES CompleteTurn
