\* Startup beside one core thread that makes every call and commands the drivers.
CONSTANTS
  ThreadCount = 2
  LevelCount = 4
  InitialLevel <- MCCoreLevels
  CallsPerSTC = 1
  MaxSTC = 0
  MayCall <- Intruder
  DriverCount = 1
  DriverLevel <- MCDriverLevel
  DriverAddress <- MCDriverAddress
  NoAddress = 255
  BusDriver = 0
  Chatty = {}
  RoundLimit = 2
  MayDrive = {1}
SPECIFICATION StartupLiveSpec
\* Halts, the endless search and a silenced timer stop the system.
CHECK_DEADLOCK FALSE
PROPERTIES BootEnds
