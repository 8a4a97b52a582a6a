\* Two threads, every system call, stray writes included.
CONSTANTS
  ThreadCount = 2
  LevelCount = 3
  InitialLevel <- MCLevels2
  CallsPerSTC = 2
  MaxSTC = 1
  MayCall <- AnyCall
SPECIFICATION Spec
\* Halts, the endless search and a silenced timer stop the system.
CHECK_DEADLOCK FALSE
INVARIANTS TypeOK YieldedMeansPolling SearchNeedsSystemStopped
PROPERTIES NoSwitchOnBrokenCanary
