\* Progress of yields and of admitted threads, three threads.
CONSTANTS
  ThreadCount = 3
  LevelCount = 3
  InitialLevel <- MCLevels3
  CallsPerSTC = 1
  MaxSTC = 0
  MayCall <- StopAndYield
SPECIFICATION LiveSpec
CHECK_DEADLOCK FALSE
PROPERTIES AdmittedThreadsRun YieldReturns
