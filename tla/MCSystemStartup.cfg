\* Startup beside two quiet threads, devices present or not.
CONSTANTS
  ThreadCount = 3
  LevelCount = 5
  InitialLevel <- MCInitialLevel
  CallsPerSTC = 1
  MaxSTC = 1
  MayCall <- Quiet
  DriverCount = 4
  DriverLevel <- MCDriverLevel
  DriverAddress <- MCDriverAddress
  NoAddress = 255
  BusDriver = 0
  Chatty = {1}
  RoundLimit = 10
  MayDrive = {}
SPECIFICATION StartupSpec
\* The system halts when its drivers or threads never become ready.
CHECK_DEADLOCK FALSE
INVARIANTS StartupTypeOK GivesUpAfterFullRounds
PROPERTIES BootIsStaged
